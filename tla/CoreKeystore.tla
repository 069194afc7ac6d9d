------------------------------ MODULE CoreKeystore ------------------------------
(***************************************************************************)
(* The keys a device keeps on disk: the two SecureKeyStores of the Rust    *)
(* core (identity and groups), each a file of sealed entries and a file    *)
(* with the master key that seals them, and the passphrase under which     *)
(* both master keys are wrapped, which SqlCipherKeyProvider keeps in       *)
(* preferences under a key of the Android Keystore.                        *)
(*                                                                         *)
(* The coroutines that call QubeeManager.initialize, the one that calls    *)
(* resetIdentity, the operations on the two stores and the death of the    *)
(* process interleave.  fs::write is two steps: the file is truncated,     *)
(* then it has its content; a process that dies in between leaves an empty *)
(* file or a part of one.  Random values are numbers drawn in order, so no *)
(* two are alike; a value opens only what was sealed under it.             *)
(***************************************************************************)
EXTENDS Integers

CONSTANTS Caller,      \* coroutines that call QubeeManager.initialize
          Name,        \* identifiers of keys
          MaxDraws,    \* bound: random values drawn
          MaxDeaths,   \* bound: how often the process dies
          Overlap      \* whether a reset may overlap with an initialize

\* The installation of an earlier build comes with two master keys
ASSUME BoundsAssumption == MaxDraws \in Nat /\ MaxDraws >= 2 /\ MaxDeaths \in Nat
ASSUME OverlapAssumption == Overlap \in BOOLEAN

VARIABLES
    alias,        \* the master key in the Android Keystore, or None
    prefs,        \* the wrapped passphrase: in memory and on flash
    pc,           \* pc[c]: how far c is in initialize
    mine,         \* mine[c]: the Keystore key and the passphrase c works with
    isReady,      \* QubeeManager.isInitialized
    initialized,  \* INITIALIZED
    opening,      \* what nativeInitialize, which holds INITIALIZED, is at
    db,           \* db[s]: the file of entries
    master,       \* master[s]: the file with the master key
    store,        \* store[s]: the SecureKeyStore in memory
    op,           \* op[s]: what the holder of the lock of s is doing
    reset,        \* how far resetIdentity is
    draws,        \* how many random values were drawn
    deaths,       \* how often the process died
    kept,         \* kept[s]: keys that s has to keep
    raced,        \* whether a first launch replaced what another had just stored
    erased        \* values drawn before this one were erased by a reset

provider == <<alias, prefs>>
calls == <<pc, mine, isReady>>
files == <<db, master>>
vars == <<alias, prefs, pc, mine, isReady, initialized, opening, db, master,
          store, op, reset, draws, deaths, kept, raced, erased>>

--------------------------------------------------------------------------------

Store == {"keys", "groups"}

None == 0

\* The hardcoded passphrase of earlier builds, derive_key_legacy
Legacy == 0

Random == 1..MaxDraws

NoEntries == [n \in Name |-> None]
AbsentDb == [state |-> "absent", keys |-> NoEntries]
EmptyDb == [state |-> "empty", keys |-> NoEntries]
TornDb == [state |-> "torn", keys |-> NoEntries]
DbOf(keys) == [state |-> "ok", keys |-> keys]

AbsentMaster == [state |-> "absent", mk |-> None, wrap |-> None]
TornMaster == [state |-> "torn", mk |-> None, wrap |-> None]
MasterOf(mk, wrap) == [state |-> "ok", mk |-> mk, wrap |-> wrap]

\* An entry of keys is the master key it is sealed under
Closed == [open |-> FALSE, mk |-> None, wrap |-> None, keys |-> NoEntries]

NoSlot == [pass |-> None, alias |-> None]
NotOpening == [by |-> {}, at |-> "keys", step |-> "open", mk |-> None, keys |-> NoEntries]

Value == Random \cup {None}
Entries == [Name -> Value]
Slot == [pass : Value, alias : Value]
DbFile == [state : {"absent", "empty", "torn", "ok"}, keys : Entries]
MasterFile == [state : {"absent", "torn", "ok"}, mk : Value, wrap : Value]
KeyStore == [open : BOOLEAN, mk : Value, wrap : Value, keys : Entries]
Opening == [by : SUBSET Caller, at : Store, step : {"open", "write", "load", "discard", "install", "swap"},
            mk : Value, keys : Entries]

TypeOK ==
    /\ alias \in Value
    /\ prefs \in [mem : Slot, disk : Slot]
    /\ pc \in [Caller -> {"idle", "read", "load", "generate", "put", "native", "opening", "done"}]
    /\ mine \in [Caller -> Slot]
    /\ isReady \in BOOLEAN
    /\ initialized \in BOOLEAN
    /\ opening \in Opening
    /\ db \in [Store -> DbFile]
    /\ master \in [Store -> MasterFile]
    /\ store \in [Store -> KeyStore]
    /\ \A s \in Store : store[s].open => store[s].mk \in Random
    /\ op \in [Store -> {"idle", "save", "drop", "swap", "rotate", "seal", "sealing"}]
    /\ reset \in [step : {"idle", "keys", "groups", "unset", "rmKeysDb", "rmKeysMaster",
                          "rmGroupsDb", "rmGroupsMaster"}, ready : BOOLEAN]
    /\ draws \in 0..MaxDraws
    /\ deaths \in 0..MaxDeaths
    /\ kept \in [Store -> SUBSET Name]
    /\ raced \in BOOLEAN
    /\ erased \in 0..MaxDraws

\* A fresh installation, or one of an earlier build
Init ==
    /\ alias = None
    /\ prefs = [mem |-> NoSlot, disk |-> NoSlot]
    /\ pc = [c \in Caller |-> "idle"]
    /\ mine = [c \in Caller |-> NoSlot]
    /\ isReady = FALSE
    /\ initialized = FALSE
    /\ opening = NotOpening
    /\ \/ /\ db = [s \in Store |-> AbsentDb]
          /\ master = [s \in Store |-> AbsentMaster]
          /\ draws = 0
          /\ kept = [s \in Store |-> {}]
       \/ /\ db = [s \in Store |-> DbOf([n \in Name |-> IF s = "keys" THEN 1 ELSE 2])]
          /\ master = [s \in Store |-> MasterOf(IF s = "keys" THEN 1 ELSE 2, Legacy)]
          /\ draws = 2
          /\ kept = [s \in Store |-> Name]
    /\ store = [s \in Store |-> Closed]
    /\ op = [s \in Store |-> "idle"]
    /\ reset = [step |-> "idle", ready |-> FALSE]
    /\ deaths = 0
    /\ raced = FALSE
    /\ erased = 0

\* The second half of fs::write: a file that was removed since it was truncated
\* stays removed.
Filled(old, new) == IF old.state = "absent" THEN old ELSE new

Draw == draws < MaxDraws /\ draws' = draws + 1

--------------------------------------------------------------------------------
(* QubeeManager.initialize and SqlCipherKeyProvider.getOrCreateCoreKeystorePassphrase *)

BeginInitialize(c) ==
    /\ pc[c] = "idle"
    /\ ~isReady
    /\ Overlap \/ reset.step = "idle"
    /\ pc' = [pc EXCEPT ![c] = "read"]
    /\ UNCHANGED <<provider, mine, isReady, initialized, opening, files, store, op, reset,
                   draws, deaths, kept, raced, erased>>

\* A stored passphrase is unwrapped; if the Keystore key is another one by now,
\* that throws and initialize returns false.
ReadPassphrase(c) ==
    /\ pc[c] = "read"
    /\ \/ /\ prefs.mem.pass # None
          /\ IF prefs.mem.alias = alias
             THEN /\ mine' = [mine EXCEPT ![c] = prefs.mem]
                  /\ pc' = [pc EXCEPT ![c] = "native"]
             ELSE /\ pc' = [pc EXCEPT ![c] = "idle"]
                  /\ UNCHANGED mine
       \/ /\ prefs.mem.pass = None
          /\ pc' = [pc EXCEPT ![c] = "load"]
          /\ UNCHANGED mine
    /\ UNCHANGED <<provider, isReady, initialized, opening, files, store, op, reset, draws,
                   deaths, kept, raced, erased>>

LoadMasterKey(c) ==
    /\ pc[c] = "load"
    /\ mine' = [mine EXCEPT ![c].alias = alias]
    /\ pc' = [pc EXCEPT ![c] = IF alias = None THEN "generate" ELSE "put"]
    /\ UNCHANGED <<provider, isReady, initialized, opening, files, store, op, reset, draws,
                   deaths, kept, raced, erased>>

\* Generating a key under an alias replaces the one that is there
GenerateMasterKey(c) ==
    /\ pc[c] = "generate"
    /\ Draw
    /\ alias' = draws'
    /\ mine' = [mine EXCEPT ![c].alias = draws']
    /\ pc' = [pc EXCEPT ![c] = "put"]
    /\ raced' = (raced \/ alias # None)
    /\ UNCHANGED <<prefs, isReady, initialized, opening, files, store, op, reset, deaths, kept, erased>>

PutPassphrase(c) ==
    /\ pc[c] = "put"
    /\ Draw
    /\ mine' = [mine EXCEPT ![c].pass = draws']
    /\ prefs' = [prefs EXCEPT !.mem = mine'[c]]
    /\ pc' = [pc EXCEPT ![c] = "native"]
    /\ raced' = (raced \/ prefs.mem.pass # None)
    /\ UNCHANGED <<alias, isReady, initialized, opening, files, store, op, reset, deaths, kept, erased>>

\* What apply() leaves for later
FlushPrefs ==
    /\ prefs.disk # prefs.mem
    /\ prefs' = [prefs EXCEPT !.disk = prefs.mem]
    /\ UNCHANGED <<alias, calls, initialized, opening, files, store, op, reset, draws, deaths,
                   kept, raced, erased>>

--------------------------------------------------------------------------------
(* nativeInitialize, which holds the lock of INITIALIZED throughout *)

Unlocked == opening.by = {}

TakeInitialized(c) ==
    /\ pc[c] = "native"
    /\ Unlocked
    /\ IF initialized
       THEN pc' = [pc EXCEPT ![c] = "done"] /\ UNCHANGED opening
       ELSE /\ pc' = [pc EXCEPT ![c] = "opening"]
            /\ opening' = [NotOpening EXCEPT !.by = {c}]
    /\ UNCHANGED <<provider, mine, isReady, initialized, files, store, op, reset, draws, deaths,
                   kept, raced, erased>>

\* nativeInitialize returns an error and initialize false
FailOpening(c) ==
    /\ opening' = NotOpening
    /\ pc' = [pc EXCEPT ![c] = "idle"]
    /\ UNCHANGED <<master, draws>>

\* Mutant: a master key that does not unwrap is replaced instead of migrated.
OpenMasterNoMigration(c) ==
    LET s == opening.at IN
    /\ opening.by = {c} /\ opening.step = "open"
    /\ IF master[s].wrap = mine[c].pass
       THEN /\ opening' = [opening EXCEPT !.step = "load", !.mk = master[s].mk]
            /\ UNCHANGED <<master, draws>>
       ELSE /\ Draw
            /\ master' = [master EXCEPT ![s] = TornMaster]
            /\ opening' = [opening EXCEPT !.step = "write", !.mk = draws']
    /\ UNCHANGED <<provider, calls, initialized, db, store, op, reset, deaths, kept, raced, erased>>

\* load_or_generate_master_key up to the write of the file, which happens for a
\* new master key and for one that is wrapped under the legacy passphrase
OpenMaster(c) ==
    LET s == opening.at IN
    /\ opening.by = {c} /\ opening.step = "open"
    /\ \/ /\ master[s].state = "absent"
          /\ Draw
          /\ master' = [master EXCEPT ![s] = TornMaster]
          /\ opening' = [opening EXCEPT !.step = "write", !.mk = draws']
          /\ UNCHANGED pc
       \/ /\ master[s].state = "ok" /\ master[s].wrap = mine[c].pass
          /\ opening' = [opening EXCEPT !.step = "load", !.mk = master[s].mk]
          /\ UNCHANGED <<master, draws, pc>>
       \/ /\ master[s].state = "ok" /\ master[s].wrap = Legacy
          /\ master' = [master EXCEPT ![s] = TornMaster]
          /\ opening' = [opening EXCEPT !.step = "write", !.mk = master[s].mk]
          /\ UNCHANGED <<draws, pc>>
       \/ /\ master[s].state = "torn" \/ (master[s].state = "ok" /\ master[s].wrap \notin {mine[c].pass, Legacy})
          /\ FailOpening(c)
    /\ UNCHANGED <<provider, mine, isReady, initialized, db, store, op, reset, deaths, kept, raced, erased>>

WriteMaster(c) ==
    /\ opening.by = {c} /\ opening.step = "write"
    /\ master' = [master EXCEPT ![opening.at] = Filled(@, MasterOf(opening.mk, mine[c].pass))]
    /\ opening' = [opening EXCEPT !.step = "load"]
    /\ UNCHANGED <<provider, calls, initialized, db, store, op, reset, draws, deaths, kept, raced, erased>>

\* load_keys: an empty file is an empty store.  A part of a file is an error, and
\* the store that new() was building is dropped: Drop saves it, without a key.
LoadKeys(c) ==
    LET s == opening.at IN
    /\ opening.by = {c} /\ opening.step = "load"
    /\ \/ /\ db[s].state # "torn"
          /\ opening' = [opening EXCEPT !.step = "install", !.keys = db[s].keys]
          /\ UNCHANGED db
       \/ /\ db[s].state = "torn"
          /\ opening' = [opening EXCEPT !.step = "discard"]
          /\ db' = [db EXCEPT ![s] = EmptyDb]
    /\ UNCHANGED <<provider, calls, initialized, master, store, op, reset, draws, deaths, kept,
                   raced, erased>>

DiscardStore(c) ==
    /\ opening.by = {c} /\ opening.step = "discard"
    /\ db' = [db EXCEPT ![opening.at] = Filled(@, DbOf(NoEntries))]
    /\ FailOpening(c)
    /\ UNCHANGED <<provider, mine, isReady, initialized, store, op, reset, deaths, kept, raced, erased>>

\* What follows the installation of one store: the other store, or the end
AfterInstall ==
    IF opening.at = "keys"
    THEN /\ opening' = [NotOpening EXCEPT !.by = opening.by, !.at = "groups"]
         /\ UNCHANGED <<initialized, pc>>
    ELSE /\ opening' = NotOpening
         /\ initialized' = TRUE
         /\ pc' = [c \in Caller |-> IF c \in opening.by THEN "done" ELSE pc[c]]

\* Mutant: the unwrapped key is not copied into the zeroed array.
NewStoreZeroKey(c) ==
    [open |-> TRUE, mk |-> None, wrap |-> mine[c].pass, keys |-> opening.keys]

NewStore(c) ==
    [open |-> TRUE, mk |-> opening.mk, wrap |-> mine[c].pass, keys |-> opening.keys]

\* A store that is already there is dropped first, and Drop saves its entries
InstallStore(c) ==
    LET s == opening.at IN
    /\ opening.by = {c} /\ opening.step = "install"
    /\ op[s] = "idle"
    /\ \/ /\ ~store[s].open
          /\ store' = [store EXCEPT ![s] = NewStore(c)]
          /\ AfterInstall
          /\ UNCHANGED <<db, op>>
       \/ /\ store[s].open
          /\ op' = [op EXCEPT ![s] = "swap"]
          /\ db' = [db EXCEPT ![s] = EmptyDb]
          /\ opening' = [opening EXCEPT !.step = "swap"]
          /\ UNCHANGED <<store, initialized, pc>>
    /\ UNCHANGED <<provider, mine, isReady, master, reset, draws, deaths, kept, raced, erased>>

SwapStore(c) ==
    LET s == opening.at IN
    /\ opening.by = {c} /\ opening.step = "swap"
    /\ db' = [db EXCEPT ![s] = Filled(@, DbOf(store[s].keys))]
    /\ store' = [store EXCEPT ![s] = NewStore(c)]
    /\ op' = [op EXCEPT ![s] = "idle"]
    /\ AfterInstall
    /\ UNCHANGED <<provider, mine, isReady, master, reset, draws, deaths, kept, raced, erased>>

EndInitialize(c) ==
    /\ pc[c] = "done"
    /\ isReady' = TRUE
    /\ pc' = [pc EXCEPT ![c] = "idle"]
    /\ UNCHANGED <<provider, mine, initialized, opening, files, store, op, reset, draws, deaths,
                   kept, raced, erased>>

--------------------------------------------------------------------------------
(* SecureKeyStore: every operation runs under the lock of its store *)

Usable(s) == isReady /\ store[s].open /\ op[s] = "idle"

\* save_keys truncates the file
BeginSave(s, as) ==
    /\ op' = [op EXCEPT ![s] = as]
    /\ db' = [db EXCEPT ![s] = EmptyDb]

StoreKey(s, n) ==
    /\ Usable(s)
    /\ store' = [store EXCEPT ![s].keys[n] = store[s].mk]
    /\ BeginSave(s, "save")
    /\ kept' = [kept EXCEPT ![s] = @ \cup {n}]
    /\ UNCHANGED <<provider, calls, initialized, opening, master, reset, draws, deaths, raced, erased>>

DeleteKey(s, n) ==
    /\ Usable(s)
    /\ store[s].keys[n] # None
    /\ store' = [store EXCEPT ![s].keys[n] = None]
    /\ BeginSave(s, "save")
    /\ kept' = [kept EXCEPT ![s] = @ \ {n}]
    /\ UNCHANGED <<provider, calls, initialized, opening, master, reset, draws, deaths, raced, erased>>

\* cleanup_expired_keys: of the keys the program stores, only invitations, which
\* GroupManager keeps, have an expiry.
CleanupExpiredKeys(s, gone) ==
    /\ Usable(s) /\ s = "groups"
    /\ gone # {} /\ \A n \in gone : store[s].keys[n] # None
    /\ store' = [store EXCEPT ![s].keys = [n \in Name |-> IF n \in gone THEN None ELSE @[n]]]
    /\ BeginSave(s, "save")
    /\ kept' = [kept EXCEPT ![s] = @ \ gone]
    /\ UNCHANGED <<provider, calls, initialized, opening, master, reset, draws, deaths, raced, erased>>

\* The entries in names sealed anew under mk
Resealed(s, names, mk) == [n \in Name |-> IF n \in names THEN mk ELSE store[s].keys[n]]

\* Entries of s that its master key opens, and entries that it does not
Opens(s) == {n \in Name : store[s].keys[n] = store[s].mk}
Foreign(s) == {n \in Name : store[s].keys[n] \notin {None, store[s].mk}}

\* rotate_master_key up to save_keys
RotateMasterKey(s) ==
    /\ Usable(s)
    /\ Foreign(s) = {}
    /\ Draw
    /\ store' = [store EXCEPT ![s].mk = draws', ![s].keys = Resealed(s, Opens(s), draws')]
    /\ BeginSave(s, "rotate")
    /\ UNCHANGED <<provider, calls, initialized, opening, master, reset, deaths, kept, raced, erased>>

\* An entry that does not open ends the rotation.  The new key is gone, and with
\* it the entries that came before in the order of the map; the next save writes
\* them.
FailRotation(s, before) ==
    /\ Usable(s)
    /\ Foreign(s) # {} /\ before \subseteq Opens(s)
    /\ Draw
    /\ store' = [store EXCEPT ![s].keys = Resealed(s, before, draws')]
    /\ kept' = [kept EXCEPT ![s] = @ \ before]
    /\ UNCHANGED <<provider, calls, initialized, opening, files, op, reset, deaths, raced, erased>>

\* save_master_key, after the entries were saved
BeginSeal(s) ==
    /\ op[s] = "seal"
    /\ master' = [master EXCEPT ![s] = TornMaster]
    /\ op' = [op EXCEPT ![s] = "sealing"]
    /\ UNCHANGED <<provider, calls, initialized, opening, db, store, reset, draws, deaths, kept, raced, erased>>

EndSeal(s) ==
    /\ op[s] = "sealing"
    /\ master' = [master EXCEPT ![s] = Filled(@, MasterOf(store[s].mk, store[s].wrap))]
    /\ op' = [op EXCEPT ![s] = "idle"]
    /\ UNCHANGED <<provider, calls, initialized, opening, db, store, reset, draws, deaths, kept, raced, erased>>

EndSave(s) ==
    /\ op[s] \in {"save", "rotate"}
    /\ db' = [db EXCEPT ![s] = Filled(@, DbOf(store[s].keys))]
    /\ op' = [op EXCEPT ![s] = IF @ = "save" THEN "idle" ELSE "seal"]
    /\ UNCHANGED <<provider, calls, initialized, opening, master, store, reset, draws, deaths,
                   kept, raced, erased>>

--------------------------------------------------------------------------------
(* QubeeManager.resetIdentity and nativeResetIdentity *)

ResetAt(step) == reset' = [reset EXCEPT !.step = step]

BeginReset ==
    /\ reset.step = "idle"
    /\ Overlap \/ \A c \in Caller : pc[c] = "idle"
    /\ reset' = [step |-> "keys", ready |-> isReady]
    /\ UNCHANGED <<provider, calls, initialized, opening, files, store, op, draws, deaths, kept, raced, erased>>

AfterDrop(s) == IF s = "keys" THEN "groups" ELSE "unset"

\* Mutant: the files are removed while the stores are still open.
DropStoreLater(s) ==
    /\ reset.step = s
    /\ ResetAt(AfterDrop(s))
    /\ UNCHANGED <<provider, calls, initialized, opening, files, store, op, draws, deaths, kept, raced, erased>>

\* Assigning None to KEYSTORE or GROUP_MANAGER under its lock
DropStore(s) ==
    /\ reset.step = s
    /\ op[s] = "idle"
    /\ IF store[s].open
       THEN BeginSave(s, "drop") /\ UNCHANGED reset
       ELSE ResetAt(AfterDrop(s)) /\ UNCHANGED <<op, db>>
    /\ UNCHANGED <<provider, calls, initialized, opening, master, store, draws, deaths, kept, raced, erased>>

EndDrop(s) ==
    /\ op[s] = "drop"
    /\ db' = [db EXCEPT ![s] = Filled(@, DbOf(store[s].keys))]
    /\ store' = [store EXCEPT ![s] = Closed]
    /\ op' = [op EXCEPT ![s] = "idle"]
    /\ ResetAt(AfterDrop(s))
    /\ UNCHANGED <<provider, calls, initialized, opening, master, draws, deaths, kept, raced, erased>>

UnsetInitialized ==
    /\ reset.step = "unset"
    /\ Unlocked
    /\ initialized' = FALSE
    /\ ResetAt("rmKeysDb")
    /\ UNCHANGED <<provider, calls, opening, files, store, op, draws, deaths, kept, raced, erased>>

\* The four files are removed one by one, without a lock
RemoveFile ==
    /\ \/ /\ reset.step = "rmKeysDb"
          /\ db' = [db EXCEPT !["keys"] = AbsentDb]
          /\ ResetAt("rmKeysMaster")
          /\ UNCHANGED <<master, isReady, kept, erased>>
       \/ /\ reset.step = "rmKeysMaster"
          /\ master' = [master EXCEPT !["keys"] = AbsentMaster]
          /\ ResetAt("rmGroupsDb")
          /\ UNCHANGED <<db, isReady, kept, erased>>
       \/ /\ reset.step = "rmGroupsDb"
          /\ db' = [db EXCEPT !["groups"] = AbsentDb]
          /\ ResetAt("rmGroupsMaster")
          /\ UNCHANGED <<master, isReady, kept, erased>>
       \/ /\ reset.step = "rmGroupsMaster"
          /\ master' = [master EXCEPT !["groups"] = AbsentMaster]
          /\ ResetAt("idle")
          /\ isReady' = (isReady /\ ~reset.ready)
          /\ kept' = [s \in Store |-> {}]
          /\ erased' = draws
          /\ UNCHANGED db
    /\ UNCHANGED <<provider, pc, mine, initialized, opening, store, op, draws, deaths, raced>>

--------------------------------------------------------------------------------
(* The process dies *)

\* Stores whose files are being written, or whose passphrase is not yet on flash
Exposed(s) ==
    \/ op[s] # "idle"
    \/ opening.at = s /\ opening.step \in {"write", "discard"}
    \/ reset.step # "idle"
    \/ prefs.disk # prefs.mem /\ master[s].wrap = prefs.mem.pass

\* save_keys is between its two halves, in an open store or in one that new() drops
SavingKeys(s) ==
    \/ op[s] \in {"save", "drop", "swap", "rotate"}
    \/ opening.at = s /\ opening.step = "discard"

Die ==
    /\ deaths < MaxDeaths
    /\ deaths' = deaths + 1
    /\ \E torn \in SUBSET {s \in Store : SavingKeys(s)} :
           db' = [s \in Store |-> IF s \in torn THEN TornDb ELSE db[s]]
    /\ prefs' = [prefs EXCEPT !.mem = prefs.disk]
    /\ pc' = [c \in Caller |-> "idle"]
    /\ mine' = [c \in Caller |-> NoSlot]
    /\ isReady' = FALSE
    /\ initialized' = FALSE
    /\ opening' = NotOpening
    /\ store' = [s \in Store |-> Closed]
    /\ op' = [s \in Store |-> "idle"]
    /\ reset' = [step |-> "idle", ready |-> FALSE]
    /\ kept' = [s \in Store |-> IF Exposed(s) THEN {} ELSE kept[s]]
    /\ UNCHANGED <<alias, master, draws, raced, erased>>

--------------------------------------------------------------------------------

Initialize(c) ==
    \/ BeginInitialize(c) \/ ReadPassphrase(c) \/ LoadMasterKey(c) \/ GenerateMasterKey(c)
    \/ PutPassphrase(c) \/ TakeInitialized(c) \/ OpenMaster(c) \/ WriteMaster(c)
    \/ LoadKeys(c) \/ DiscardStore(c) \/ InstallStore(c) \/ SwapStore(c) \/ EndInitialize(c)

Operate(s) ==
    \/ \E n \in Name : StoreKey(s, n) \/ DeleteKey(s, n)
    \/ \E gone \in SUBSET Name : CleanupExpiredKeys(s, gone) \/ FailRotation(s, gone)
    \/ EndSave(s) \/ RotateMasterKey(s) \/ BeginSeal(s) \/ EndSeal(s)

ResetIdentity ==
    \/ BeginReset \/ UnsetInitialized \/ RemoveFile
    \/ \E s \in Store : DropStore(s) \/ EndDrop(s)

Next ==
    \/ \E c \in Caller : Initialize(c)
    \/ \E s \in Store : Operate(s)
    \/ ResetIdentity
    \/ FlushPrefs
    \/ Die

Spec == Init /\ [][Next]_vars

--------------------------------------------------------------------------------

\* The passphrase that the next call of getOrCreateCoreKeystorePassphrase returns
PassphraseNow == IF prefs.mem.alias = alias THEN prefs.mem.pass ELSE None

\* The keys of s that the files and the passphrase are enough to read
Recoverable(s) ==
    {n \in Name : /\ db[s].state = "ok" /\ master[s].state = "ok"
                  /\ db[s].keys[n] = master[s].mk
                  /\ master[s].wrap \in {Legacy, PassphraseNow}}

\* No write to the files of s is under way
Settled(s) ==
    /\ op[s] = "idle"
    /\ reset.step = "idle"
    /\ ~(opening.at = s /\ opening.step \in {"write", "discard"})

\* A key whose store_key returned, or that an earlier build left, can be read by
\* the next launch, until it is deleted or a reset erases it: no order of opening,
\* storing, deleting, migrating, rotating and dying loses one, except a death
\* during a write of that store or before apply() has reached the flash, and a
\* rotation that fails over an entry of another master key.
KeysReadable == \A s \in Store : Settled(s) => kept[s] \subseteq Recoverable(s)

\* KeysReadable for every number of coroutines that initialise the core together,
\* as long as none of them, on a first launch, generates over an alias or stores
\* over a passphrase that another one has just put there.
KeysSurvive == ~raced => KeysReadable

\* Once nativeResetIdentity has returned, no master key and no entry from before
\* is on disk or in memory, and none is ever written back.
ResetErases ==
    \A s \in Store :
        /\ master[s].state = "ok" => master[s].mk > erased
        /\ store[s].open => store[s].mk > erased
        /\ \A n \in Name : db[s].keys[n] = None \/ db[s].keys[n] > erased

================================================================================
