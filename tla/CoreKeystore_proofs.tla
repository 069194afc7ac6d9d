-------------------------- MODULE CoreKeystore_proofs --------------------------
(***************************************************************************)
(* What the keystores of a device keep and forget, proved for every set of *)
(* callers and keys and every bound.                                       *)
(***************************************************************************)
EXTENDS CoreKeystore, TLAPS

--------------------------------------------------------------------------------
(* Every master key in use was drawn *)

\* A store that is being written is open; a master key that was read or written
\* is a random value.
KeysDrawn ==
    /\ \A s \in Store : op[s] # "idle" => store[s].open
    /\ \A s \in Store : master[s].state = "ok" => master[s].mk # None
    /\ opening.step # "open" => opening.mk # None

TInv == TypeOK /\ KeysDrawn

--------------------------------------------------------------------------------
(* A reset that no initialisation overlaps *)

Removing == {"rmKeysDb", "rmKeysMaster", "rmGroupsDb", "rmGroupsMaster"}

\* The holder of INITIALIZED is a caller inside nativeInitialize, and there is
\* none during a reset.
Apart ==
    /\ reset.step # "idle" => \A c \in Caller : pc[c] = "idle"
    /\ \A c \in opening.by : pc[c] = "opening"
    /\ opening.by = {} => opening = NotOpening

\* How far the reset is: the stores are dropped before the first file is removed
Staged ==
    /\ \A s \in Store : store[s].open \/ store[s] = Closed
    /\ \A s \in Store : op[s] = "drop" => reset.step = s
    /\ reset.step \in {"groups", "unset"} \cup Removing => ~store["keys"].open
    /\ reset.step \in {"unset"} \cup Removing => ~store["groups"].open
    /\ reset.step \in Removing \ {"rmKeysDb"} => db["keys"] = AbsentDb
    /\ reset.step \in {"rmGroupsDb", "rmGroupsMaster"} => master["keys"] = AbsentMaster
    /\ reset.step = "rmGroupsMaster" => db["groups"] = AbsentDb

\* Whatever the device holds was drawn after the last reset
Young(entries) == \A n \in Name : entries[n] = None \/ entries[n] > erased

AllYoung ==
    /\ erased <= draws
    /\ \A s \in Store : master[s].state = "ok" => master[s].mk > erased
    /\ \A s \in Store : store[s].open => store[s].mk > erased
    /\ opening.step # "open" => opening.mk > erased
    /\ \A s \in Store : Young(db[s].keys) /\ Young(store[s].keys)
    /\ Young(opening.keys)

EInv == TInv /\ Apart /\ Staged /\ AllYoung

--------------------------------------------------------------------------------
(* Callers of which none replaced what another one stored *)

\* There is one passphrase, under the one key of the Android Keystore: it is in
\* memory before anything is sealed under it, and on flash or not yet.  Every
\* caller that is past the preferences has it.
OnePassphrase ==
    /\ prefs.mem.pass = None => prefs.mem = NoSlot
    /\ prefs.mem.pass # None => prefs.mem.alias = alias /\ alias # None
    /\ prefs.disk = prefs.mem \/ prefs.disk = NoSlot
    /\ \A c \in Caller :
          /\ pc[c] = "put" => mine[c].alias = alias /\ alias # None
          /\ pc[c] \in {"native", "opening"} => mine[c] = prefs.mem /\ prefs.mem.pass # None

\* The stores are in use when both are installed, and not while they are opened
InTurn ==
    /\ opening.by # {} => ~initialized
    /\ \A c \in Caller : pc[c] = "done" => initialized
    /\ isReady => initialized \/ reset.step # "idle"
    /\ reset.step # "idle" => (reset.ready <=> isReady)
    /\ \A s \in Store : op[s] \in {"save", "rotate", "seal", "sealing"} => isReady
    /\ \A s \in Store : op[s] = "swap" <=> opening.step = "swap" /\ opening.at = s

\* The files of a store against what is in memory
FitsStore(s) ==
    /\ op[s] \in {"save", "drop", "swap", "rotate"} => db[s].state = "empty"
    /\ op[s] = "sealing" => master[s].state = "torn"
    /\ store[s].open => store[s].wrap = prefs.mem.pass /\ prefs.mem.pass # None
    /\ store[s].open /\ op[s] # "sealing" =>
          master[s].state = "ok" /\ master[s].wrap = prefs.mem.pass
    /\ store[s].open /\ op[s] \in {"idle", "save", "drop", "swap"} => master[s].mk = store[s].mk

FitsOpening ==
    /\ opening.step = "write" => master[opening.at].state = "torn"
    /\ opening.step \in {"load", "discard", "install", "swap"} =>
          /\ master[opening.at].state = "ok"
          /\ master[opening.at].mk = opening.mk
          /\ master[opening.at].wrap = prefs.mem.pass

\* Where a key is that has to be kept, at every step of a write
Kept(s, n) ==
    /\ op[s] = "idle" /\ ~(opening.at = s /\ opening.step = "write") =>
          /\ db[s].state = "ok" /\ master[s].state = "ok"
          /\ db[s].keys[n] = master[s].mk
          /\ master[s].wrap \in {Legacy, prefs.mem.pass}
    /\ store[s].open => store[s].keys[n] = store[s].mk
    /\ op[s] \in {"seal", "sealing"} => db[s].state = "ok" /\ db[s].keys[n] = store[s].mk
    /\ opening.at = s /\ opening.step = "write" =>
          db[s].state = "ok" /\ db[s].keys[n] = opening.mk
    /\ opening.at = s /\ opening.step \in {"install", "swap"} => opening.keys[n] = opening.mk
    /\ ~(opening.at = s /\ opening.step = "discard")

AllKept == reset.step = "idle" => \A s \in Store : \A n \in kept[s] : Kept(s, n)

KeepInv == InTurn /\ (\A s \in Store : FitsStore(s)) /\ FitsOpening /\ AllKept

KInv == EInv /\ OnePassphrase /\ KeepInv

\* What holds of every launch, and what holds until a first launch is raced
RInv == EInv /\ (~raced => KInv)

(* Type correctness *)

LEMMA Constants ==
    /\ None \in Value /\ Legacy \in Value
    /\ NoEntries \in Entries /\ NoSlot \in Slot
    /\ {AbsentDb, EmptyDb, TornDb} \subseteq DbFile
    /\ {AbsentMaster, TornMaster} \subseteq MasterFile
    /\ Closed \in KeyStore /\ ~Closed.open
    /\ NotOpening \in Opening
    /\ \A k \in Entries : DbOf(k) \in DbFile
    /\ \A m, w \in Value : MasterOf(m, w) \in MasterFile
  BY DEF None, Legacy, Value, NoEntries, Entries, NoSlot, Slot, AbsentDb, EmptyDb, TornDb, DbFile,
     AbsentMaster, TornMaster, MasterFile, Closed, KeyStore, NotOpening, Opening, DbOf, MasterOf, Store

LEMMA Drawn ==
    TypeOK /\ Draw => /\ draws' \in 0..MaxDraws /\ draws' \in Random /\ draws' # None
                      /\ draws' = draws + 1 /\ draws \in Nat
  BY BoundsAssumption DEF TypeOK, Draw, Random, None

LEMMA TypeInit == Init => TInv
  <1> SUFFICES ASSUME Init PROVE TInv
    OBVIOUS
  <1> USE Constants, BoundsAssumption
  <1>1. {1, 2} \subseteq Value
    BY DEF Value, Random
  <1>2. [n \in Name |-> 1] \in Entries /\ [n \in Name |-> 2] \in Entries
    BY <1>1 DEF Entries
  <1>3. db \in [Store -> DbFile]
    <2>1. CASE db = [s \in Store |-> AbsentDb]
      BY <2>1
    <2>2. CASE db = [s \in Store |-> DbOf([n \in Name |-> IF s = "keys" THEN 1 ELSE 2])]
      BY <2>2, <1>2 DEF Store
    <2> QED
      BY <2>1, <2>2 DEF Init
  <1>4. master \in [Store -> MasterFile]
    BY <1>1 DEF Init, Store
  <1>5. store \in [Store -> KeyStore] /\ \A s \in Store : ~store[s].open
    BY DEF Init, Closed
  <1>6. reset \in [step : {"idle", "keys", "groups", "unset", "rmKeysDb", "rmKeysMaster",
                          "rmGroupsDb", "rmGroupsMaster"}, ready : BOOLEAN]
    BY DEF Init
  <1>7. draws \in 0..MaxDraws /\ erased \in 0..MaxDraws /\ deaths \in 0..MaxDeaths
    BY DEF Init
  <1>8. kept \in [Store -> SUBSET Name]
    BY DEF Init
  <1>9. prefs \in [mem : Slot, disk : Slot] /\ mine \in [Caller -> Slot] /\ opening \in Opening
    BY DEF Init
  <1>10. TypeOK
    BY <1>3, <1>4, <1>5, <1>6, <1>7, <1>8, <1>9 DEF Init, TypeOK
  <1>11. KeysDrawn
    BY DEF Init, KeysDrawn, None, AbsentMaster, MasterOf, NotOpening, Store
  <1> QED
    BY <1>10, <1>11 DEF TInv

LEMMA TypeBeginInitialize ==
    ASSUME TInv, NEW c \in Caller, BeginInitialize(c) PROVE TInv'
  BY Constants, Drawn DEF TInv, TypeOK, KeysDrawn, BeginInitialize, provider, files

LEMMA TypeReadPassphrase ==
    ASSUME TInv, NEW c \in Caller, ReadPassphrase(c) PROVE TInv'
  BY Constants, Drawn DEF TInv, TypeOK, KeysDrawn, ReadPassphrase, provider, files

LEMMA TypeLoadMasterKey ==
    ASSUME TInv, NEW c \in Caller, LoadMasterKey(c) PROVE TInv'
  BY Constants, Drawn DEF TInv, TypeOK, KeysDrawn, LoadMasterKey, provider, files, Slot

LEMMA TypeGenerateMasterKey ==
    ASSUME TInv, NEW c \in Caller, GenerateMasterKey(c) PROVE TInv'
  <1>1. raced' \in BOOLEAN
    BY Zenon DEF TInv, TypeOK, GenerateMasterKey
  <1> QED
    BY <1>1, Constants, Drawn DEF TInv, TypeOK, KeysDrawn, GenerateMasterKey, files, Slot, Value

LEMMA TypePutPassphrase ==
    ASSUME TInv, NEW c \in Caller, PutPassphrase(c) PROVE TInv'
  <1> USE Constants, Drawn DEF TInv
  <1>1. draws' \in Value /\ draws' \in 0..MaxDraws
    BY DEF PutPassphrase, Value
  <1>2. mine' \in [Caller -> Slot]
    BY <1>1 DEF PutPassphrase, TypeOK, Slot
  <1>3. prefs' \in [mem : Slot, disk : Slot]
    BY <1>2 DEF PutPassphrase, TypeOK
  <1>4. raced' \in BOOLEAN
    BY Zenon DEF TypeOK, PutPassphrase
  <1>5. TypeOK'
    BY <1>1, <1>2, <1>3, <1>4 DEF PutPassphrase, TypeOK, files
  <1>6. KeysDrawn'
    BY DEF PutPassphrase, KeysDrawn, files
  <1> QED
    BY <1>5, <1>6

LEMMA TypeTakeInitialized ==
    ASSUME TInv, NEW c \in Caller, TakeInitialized(c) PROVE TInv'
  <1> USE Constants, Drawn DEF TInv
  <1>1. opening' \in Opening /\ (opening'.step # "open" => opening'.mk # None)
    BY DEF TakeInitialized, TypeOK, KeysDrawn, Opening, NotOpening
  <1>2. TypeOK'
    BY <1>1 DEF TakeInitialized, TypeOK, provider, files
  <1>3. KeysDrawn'
    BY <1>1, <1>2 DEF TakeInitialized, TypeOK, KeysDrawn, files
  <1> QED
    BY <1>2, <1>3

LEMMA TypeOpenMaster ==
    ASSUME TInv, NEW c \in Caller, OpenMaster(c) PROVE TInv'
  <1> USE Constants, Drawn DEF TInv
  <1>1. opening' \in Opening /\ (opening'.step # "open" => opening'.mk # None)
    <2>1. opening \in Opening /\ opening.at \in Store /\ master[opening.at] \in MasterFile
      BY DEF TypeOK, Opening
    <2>2. master[opening.at].mk \in Value
      BY <2>1 DEF MasterFile
    <2>3. CASE opening' = [opening EXCEPT !.step = "write", !.mk = draws'] /\ Draw
      BY <2>1, <2>3 DEF Opening, Value
    <2>4. CASE /\ master[opening.at].state = "ok"
               /\ \E t \in {"load", "write"} :
                     opening' = [opening EXCEPT !.step = t, !.mk = master[opening.at].mk]
      BY <2>1, <2>2, <2>4 DEF Opening, KeysDrawn
    <2>5. CASE opening' = NotOpening
      BY <2>5 DEF NotOpening
    <2> QED
      BY <2>3, <2>4, <2>5 DEF OpenMaster, FailOpening
  <1>2. master' \in [Store -> MasterFile]
    BY <1>1 DEF OpenMaster, FailOpening, TypeOK
  <1>3. \A s \in Store : master'[s].state = "ok" => master'[s].mk # None
    BY <1>1, <1>2 DEF OpenMaster, FailOpening, TypeOK, KeysDrawn, TornMaster
  <1>4. TypeOK'
    BY <1>1, <1>2, <1>3 DEF OpenMaster, FailOpening, TypeOK, provider
  <1>5. KeysDrawn'
    BY <1>1, <1>2, <1>3, <1>4 DEF OpenMaster, TypeOK, KeysDrawn
  <1> QED
    BY <1>4, <1>5

LEMMA TypeWriteMaster ==
    ASSUME TInv, NEW c \in Caller, WriteMaster(c) PROVE TInv'
  <1> USE Constants, Drawn DEF TInv
  <1>1. /\ opening' \in Opening
        /\ opening'.mk = opening.mk
        /\ opening.mk # None
        /\ opening.mk \in Value
        /\ opening.at \in Store
    BY DEF WriteMaster, TypeOK, KeysDrawn, Opening
  <1>2. mine[c].pass \in Value
    BY <1>1 DEF TypeOK, Slot
  <1>3. master' \in [Store -> MasterFile]
    BY <1>1, <1>2 DEF WriteMaster, Filled, TypeOK
  <1>4. \A s \in Store : master'[s].state = "ok" => master'[s].mk # None
    BY <1>1, <1>2, <1>3 DEF WriteMaster, Filled, TypeOK, KeysDrawn, MasterOf
  <1>5. TypeOK'
    BY <1>1, <1>2, <1>3, <1>4 DEF WriteMaster, TypeOK, provider, calls
  <1>6. KeysDrawn'
    BY <1>1, <1>2, <1>3, <1>4, <1>5 DEF WriteMaster, TypeOK, KeysDrawn
  <1> QED
    BY <1>5, <1>6

LEMMA TypeLoadKeys ==
    ASSUME TInv, NEW c \in Caller, LoadKeys(c) PROVE TInv'
  <1> USE Constants, Drawn DEF TInv
  <1>1. opening' \in Opening /\ (opening'.step # "open" => opening'.mk # None)
    <2>1. opening \in Opening /\ opening.at \in Store /\ db[opening.at].keys \in Entries
      BY DEF TypeOK, Opening, DbFile
    <2>2. CASE opening' = [opening EXCEPT !.step = "install", !.keys = db[opening.at].keys]
      BY <2>1, <2>2 DEF LoadKeys, Opening, KeysDrawn
    <2>3. CASE opening' = [opening EXCEPT !.step = "discard"]
      BY <2>1, <2>3 DEF LoadKeys, Opening, KeysDrawn
    <2> QED
      BY <2>2, <2>3 DEF LoadKeys
  <1>2. db' \in [Store -> DbFile]
    BY DEF LoadKeys, TypeOK
  <1>3. TypeOK'
    BY <1>1, <1>2 DEF LoadKeys, TypeOK, provider, calls
  <1>4. KeysDrawn'
    BY <1>1 DEF LoadKeys, KeysDrawn
  <1> QED
    BY <1>3, <1>4

LEMMA TypeDiscardStore ==
    ASSUME TInv, NEW c \in Caller, DiscardStore(c) PROVE TInv'
  <1> USE Constants, Drawn DEF TInv
  <1>1. opening' \in Opening /\ opening'.step = "open"
    BY DEF DiscardStore, FailOpening, NotOpening
  <1>2. db' \in [Store -> DbFile]
    BY DEF DiscardStore, Filled, TypeOK
  <1>3. TypeOK'
    BY <1>1, <1>2 DEF DiscardStore, FailOpening, TypeOK, provider
  <1>4. KeysDrawn'
    BY <1>1 DEF DiscardStore, FailOpening, KeysDrawn
  <1> QED
    BY <1>3, <1>4

LEMMA Installed ==
    ASSUME TInv, NEW c \in Caller, opening.step # "open"
    PROVE  NewStore(c) \in KeyStore /\ NewStore(c).open /\ NewStore(c).mk \in Random
  <1>1. mine[c].pass \in Value /\ opening.mk \in Value /\ opening.keys \in Entries /\ opening.mk # None
    BY DEF TInv, TypeOK, KeysDrawn, Slot, Opening
  <1> QED
    BY <1>1 DEF NewStore, KeyStore, Value

LEMMA TypeAfterInstall ==
    ASSUME TInv, AfterInstall
    PROVE  /\ opening' \in Opening
           /\ opening'.step = "open"
           /\ initialized' \in BOOLEAN
           /\ pc' \in [Caller -> {"idle", "read", "load", "generate", "put", "native", "opening", "done"}]
  <1>1. opening' \in Opening /\ opening'.step = "open"
    <2>1. CASE opening.at = "keys"
      <3>1. opening' = [NotOpening EXCEPT !.by = opening.by, !.at = "groups"]
        BY <2>1 DEF AfterInstall
      <3>2. opening.by \in SUBSET Caller
        BY DEF TInv, TypeOK, Opening
      <3> QED
        BY <3>1, <3>2, Constants DEF Opening, NotOpening, Store
    <2>2. CASE opening.at # "keys"
      <3>1. opening' = NotOpening
        BY <2>2 DEF AfterInstall
      <3>2. NotOpening.step = "open"
        BY DEF NotOpening
      <3> QED
        BY <3>1, <3>2, Constants
    <2> QED
      BY <2>1, <2>2
  <1> QED
    BY <1>1 DEF TInv, TypeOK, AfterInstall

LEMMA TypeInstallStore ==
    ASSUME TInv, NEW c \in Caller, InstallStore(c) PROVE TInv'
  <1> USE Constants, Drawn DEF TInv
  <1>1. opening.at \in Store /\ opening.step # "open"
    BY DEF InstallStore, TypeOK, Opening
  <1>2. /\ opening' \in Opening
        /\ (opening'.step # "open" => opening'.mk # None)
        /\ initialized' \in BOOLEAN
        /\ pc' \in [Caller -> {"idle", "read", "load", "generate", "put", "native", "opening", "done"}]
    BY <1>1, TypeAfterInstall DEF InstallStore, TypeOK, KeysDrawn, Opening
  <1>3. /\ store' \in [Store -> KeyStore]
        /\ db' \in [Store -> DbFile]
        /\ op' \in [Store -> {"idle", "save", "drop", "swap", "rotate", "seal", "sealing"}]
    BY <1>1, <1>2, Installed DEF InstallStore, TypeOK
  <1>4. \A s \in Store : (store'[s].open => store'[s].mk \in Random) /\ (op'[s] # "idle" => store'[s].open)
    BY <1>1, <1>2, <1>3, Installed DEF InstallStore, TypeOK, KeysDrawn
  <1>5. TypeOK'
    BY <1>1, <1>2, <1>3, <1>4 DEF InstallStore, TypeOK, provider
  <1>6. KeysDrawn'
    BY <1>1, <1>2, <1>3, <1>4, <1>5 DEF InstallStore, TypeOK, KeysDrawn
  <1> QED
    BY <1>5, <1>6

LEMMA TypeSwapStore ==
    ASSUME TInv, NEW c \in Caller, SwapStore(c) PROVE TInv'
  <1> USE Constants, Drawn DEF TInv
  <1>1. opening.at \in Store /\ opening.step # "open"
    BY DEF SwapStore, TypeOK, Opening
  <1>2. /\ opening' \in Opening
        /\ opening'.step = "open"
        /\ initialized' \in BOOLEAN
        /\ pc' \in [Caller -> {"idle", "read", "load", "generate", "put", "native", "opening", "done"}]
    BY <1>1, TypeAfterInstall DEF SwapStore
  <1>3. store[opening.at].keys \in Entries
    BY <1>1, <1>2 DEF TypeOK, KeyStore
  <1>4. /\ store' \in [Store -> KeyStore]
        /\ db' \in [Store -> DbFile]
        /\ op' \in [Store -> {"idle", "save", "drop", "swap", "rotate", "seal", "sealing"}]
    BY <1>1, <1>2, <1>3, Installed DEF SwapStore, Filled, TypeOK
  <1>5. \A s \in Store : (store'[s].open => store'[s].mk \in Random) /\ (op'[s] # "idle" => store'[s].open)
    BY <1>1, <1>2, <1>3, <1>4, Installed DEF SwapStore, TypeOK, KeysDrawn
  <1>6. TypeOK'
    BY <1>1, <1>2, <1>3, <1>4, <1>5 DEF SwapStore, TypeOK, provider
  <1>7. KeysDrawn'
    BY <1>1, <1>2, <1>3, <1>4, <1>5, <1>6 DEF SwapStore, TypeOK, KeysDrawn
  <1> QED
    BY <1>6, <1>7

LEMMA TypeEndInitialize ==
    ASSUME TInv, NEW c \in Caller, EndInitialize(c) PROVE TInv'
  BY Constants, Drawn DEF TInv, TypeOK, KeysDrawn, EndInitialize, provider, files

(* The operations on an open store *)

LEMMA TypeStoreKey ==
    ASSUME TInv, NEW s \in Store, NEW m \in Name, StoreKey(s, m) PROVE TInv'
  <1> USE Constants, Drawn DEF TInv
  <1>1. /\ store[s] \in KeyStore
        /\ store[s].open
        /\ store[s].mk \in Random
        /\ store[s].mk \in Value
        /\ store[s].keys \in Entries
    BY DEF StoreKey, Usable, TypeOK, KeyStore
  <1>2. store'[s] \in KeyStore /\ store'[s].open /\ store'[s].mk \in Random
    BY <1>1 DEF StoreKey, TypeOK, KeyStore, Entries
  <1>3. store' \in [Store -> KeyStore] /\ \A t \in Store : store'[t].open => store'[t].mk \in Random
    BY <1>1, <1>2 DEF StoreKey, TypeOK
  <1>4. \A t \in Store : op'[t] # "idle" => store'[t].open
    BY <1>1, <1>2, <1>3 DEF StoreKey, BeginSave, TypeOK, KeysDrawn
  <1>5. TypeOK'
    BY <1>1, <1>2, <1>3, <1>4 DEF StoreKey, BeginSave, TypeOK, provider, calls, files
  <1>6. KeysDrawn'
    BY <1>1, <1>2, <1>3, <1>4, <1>5 DEF StoreKey, TypeOK, KeysDrawn, files
  <1> QED
    BY <1>5, <1>6

LEMMA TypeDeleteKey ==
    ASSUME TInv, NEW s \in Store, NEW m \in Name, DeleteKey(s, m) PROVE TInv'
  <1> USE Constants, Drawn DEF TInv
  <1>1. /\ store[s] \in KeyStore
        /\ store[s].open
        /\ store[s].mk \in Random
        /\ store[s].mk \in Value
        /\ store[s].keys \in Entries
    BY DEF DeleteKey, Usable, TypeOK, KeyStore
  <1>2. store'[s] \in KeyStore /\ store'[s].open /\ store'[s].mk \in Random
    BY <1>1 DEF DeleteKey, TypeOK, KeyStore, Entries
  <1>3. store' \in [Store -> KeyStore] /\ \A t \in Store : store'[t].open => store'[t].mk \in Random
    BY <1>1, <1>2 DEF DeleteKey, TypeOK
  <1>4. \A t \in Store : op'[t] # "idle" => store'[t].open
    BY <1>1, <1>2, <1>3 DEF DeleteKey, BeginSave, TypeOK, KeysDrawn
  <1>5. TypeOK'
    BY <1>1, <1>2, <1>3, <1>4 DEF DeleteKey, BeginSave, TypeOK, provider, calls, files
  <1>6. KeysDrawn'
    BY <1>1, <1>2, <1>3, <1>4, <1>5 DEF DeleteKey, TypeOK, KeysDrawn, files
  <1> QED
    BY <1>5, <1>6

LEMMA TypeCleanupExpiredKeys ==
    ASSUME TInv, NEW s \in Store, NEW gone \in SUBSET Name, CleanupExpiredKeys(s, gone) PROVE TInv'
  <1> USE Constants, Drawn DEF TInv
  <1>1. /\ store[s] \in KeyStore
        /\ store[s].open
        /\ store[s].mk \in Random
        /\ store[s].mk \in Value
        /\ store[s].keys \in Entries
    BY DEF CleanupExpiredKeys, Usable, TypeOK, KeyStore
  <1>2. [n \in Name |-> IF n \in gone THEN None ELSE store[s].keys[n]] \in Entries
    BY <1>1 DEF Entries
  <1>3. store'[s] \in KeyStore /\ store'[s].open /\ store'[s].mk \in Random
    BY <1>1, <1>2 DEF CleanupExpiredKeys, TypeOK, KeyStore
  <1>4. store' \in [Store -> KeyStore] /\ \A t \in Store : store'[t].open => store'[t].mk \in Random
    BY <1>1, <1>2, <1>3 DEF CleanupExpiredKeys, TypeOK
  <1>5. \A t \in Store : op'[t] # "idle" => store'[t].open
    BY <1>1, <1>2, <1>3, <1>4 DEF CleanupExpiredKeys, BeginSave, TypeOK, KeysDrawn
  <1>6. TypeOK'
    BY <1>1, <1>2, <1>3, <1>4, <1>5 DEF CleanupExpiredKeys, BeginSave, TypeOK, provider, calls, files
  <1>7. KeysDrawn'
    BY <1>1, <1>2, <1>3, <1>4, <1>5, <1>6 DEF CleanupExpiredKeys, TypeOK, KeysDrawn, files
  <1> QED
    BY <1>6, <1>7

LEMMA TypeResealed ==
    ASSUME TypeOK, NEW s \in Store, NEW names, NEW mk \in Value PROVE Resealed(s, names, mk) \in Entries
  BY DEF TypeOK, Resealed, KeyStore, Entries

LEMMA TypeRotateMasterKey ==
    ASSUME TInv, NEW s \in Store, RotateMasterKey(s) PROVE TInv'
  <1> USE Constants, Drawn DEF TInv
  <1>1. /\ store[s] \in KeyStore
        /\ store[s].open
        /\ store[s].mk \in Random
        /\ store[s].mk \in Value
        /\ store[s].keys \in Entries
    BY DEF RotateMasterKey, Usable, TypeOK, KeyStore
  <1>2. draws' \in Value /\ Resealed(s, Opens(s), draws') \in Entries
    BY <1>1, TypeResealed DEF RotateMasterKey, Value
  <1>3. store'[s] \in KeyStore /\ store'[s].open /\ store'[s].mk \in Random
    BY <1>1, <1>2 DEF RotateMasterKey, TypeOK, KeyStore
  <1>4. store' \in [Store -> KeyStore] /\ \A t \in Store : store'[t].open => store'[t].mk \in Random
    BY <1>1, <1>2, <1>3 DEF RotateMasterKey, TypeOK
  <1>5. \A t \in Store : op'[t] # "idle" => store'[t].open
    BY <1>1, <1>2, <1>3, <1>4 DEF RotateMasterKey, BeginSave, TypeOK, KeysDrawn
  <1>6. TypeOK'
    BY <1>1, <1>2, <1>3, <1>4, <1>5 DEF RotateMasterKey, BeginSave, TypeOK, provider, calls, files
  <1>7. KeysDrawn'
    BY <1>1, <1>2, <1>3, <1>4, <1>5, <1>6 DEF RotateMasterKey, TypeOK, KeysDrawn, files
  <1> QED
    BY <1>6, <1>7

LEMMA TypeFailRotation ==
    ASSUME TInv, NEW s \in Store, NEW before \in SUBSET Name, FailRotation(s, before) PROVE TInv'
  <1> USE Constants, Drawn DEF TInv
  <1>1. /\ store[s] \in KeyStore
        /\ store[s].open
        /\ store[s].mk \in Random
        /\ store[s].mk \in Value
        /\ store[s].keys \in Entries
    BY DEF FailRotation, Usable, TypeOK, KeyStore
  <1>2. draws' \in Value /\ Resealed(s, before, draws') \in Entries
    BY <1>1, TypeResealed DEF FailRotation, Value
  <1>3. store'[s] \in KeyStore /\ store'[s].open /\ store'[s].mk \in Random
    BY <1>1, <1>2 DEF FailRotation, TypeOK, KeyStore
  <1>4. store' \in [Store -> KeyStore] /\ \A t \in Store : store'[t].open => store'[t].mk \in Random
    BY <1>1, <1>2, <1>3 DEF FailRotation, TypeOK
  <1>5. \A t \in Store : op'[t] # "idle" => store'[t].open
    BY <1>1, <1>2, <1>3, <1>4 DEF FailRotation, BeginSave, TypeOK, KeysDrawn
  <1>6. TypeOK'
    BY <1>1, <1>2, <1>3, <1>4, <1>5 DEF FailRotation, BeginSave, TypeOK, provider, calls, files
  <1>7. KeysDrawn'
    BY <1>1, <1>2, <1>3, <1>4, <1>5, <1>6 DEF FailRotation, TypeOK, KeysDrawn, files
  <1> QED
    BY <1>6, <1>7

LEMMA TypeBeginSeal ==
    ASSUME TInv, NEW s \in Store, BeginSeal(s) PROVE TInv'
  <1> USE Constants, Drawn DEF TInv
  <1>1. \A t \in Store : master'[t].state = "ok" => master'[t].mk # None
    BY DEF BeginSeal, TypeOK, KeysDrawn, TornMaster
  <1>2. TypeOK'
    BY <1>1 DEF BeginSeal, TypeOK, provider, calls
  <1>3. KeysDrawn'
    BY <1>1, <1>2 DEF BeginSeal, TypeOK, KeysDrawn
  <1> QED
    BY <1>2, <1>3

LEMMA TypeEndSeal ==
    ASSUME TInv, NEW s \in Store, EndSeal(s) PROVE TInv'
  <1> USE Constants, Drawn DEF TInv
  <1>1. store[s].open /\ store[s].mk \in Value /\ store[s].mk # None /\ store[s].wrap \in Value
    BY DEF EndSeal, TypeOK, KeysDrawn, KeyStore, Random, None
  <1>2. \A t \in Store : master'[t].state = "ok" => master'[t].mk # None
    BY <1>1 DEF EndSeal, Filled, TypeOK, KeysDrawn, MasterOf
  <1>3. TypeOK'
    BY <1>1, <1>2 DEF EndSeal, Filled, TypeOK, provider, calls
  <1>4. KeysDrawn'
    BY <1>1, <1>2, <1>3 DEF EndSeal, TypeOK, KeysDrawn
  <1> QED
    BY <1>3, <1>4

LEMMA TypeEndSave ==
    ASSUME TInv, NEW s \in Store, EndSave(s) PROVE TInv'
  <1> USE Constants, Drawn DEF TInv
  <1>1. store[s].keys \in Entries
    BY DEF TypeOK, KeyStore
  <1>2. TypeOK'
    BY <1>1 DEF EndSave, Filled, TypeOK, provider, calls
  <1>3. KeysDrawn'
    BY <1>1, <1>2 DEF EndSave, TypeOK, KeysDrawn
  <1> QED
    BY <1>2, <1>3

(* The reset, the flash and the death of the process *)

LEMMA TypeBeginReset ==
    ASSUME TInv, BeginReset PROVE TInv'
  BY Constants, Drawn DEF TInv, TypeOK, KeysDrawn, BeginReset, provider, calls, files

LEMMA TypeDropStore ==
    ASSUME TInv, NEW s \in Store, DropStore(s) PROVE TInv'
  <1> USE Constants, Drawn DEF TInv
  <1>1. AfterDrop(s) \in {"groups", "unset"}
    BY DEF AfterDrop, Store
  <1>2. TypeOK'
    BY <1>1 DEF DropStore, BeginSave, ResetAt, TypeOK, provider, calls
  <1>3. KeysDrawn'
    BY <1>1, <1>2 DEF DropStore, BeginSave, TypeOK, KeysDrawn
  <1> QED
    BY <1>2, <1>3

LEMMA TypeEndDrop ==
    ASSUME TInv, NEW s \in Store, EndDrop(s) PROVE TInv'
  <1> USE Constants, Drawn DEF TInv
  <1>1. AfterDrop(s) \in {"groups", "unset"}
    BY DEF AfterDrop, Store
  <1>2. store[s].keys \in Entries
    BY <1>1 DEF TypeOK, KeyStore
  <1>3. store' \in [Store -> KeyStore] /\ \A t \in Store : store'[t].open => store'[t].mk \in Random
    BY <1>1, <1>2 DEF EndDrop, TypeOK
  <1>4. TypeOK'
    BY <1>1, <1>2, <1>3 DEF EndDrop, Filled, ResetAt, TypeOK, provider, calls
  <1>5. KeysDrawn'
    BY <1>1, <1>2, <1>3, <1>4 DEF EndDrop, TypeOK, KeysDrawn
  <1> QED
    BY <1>4, <1>5

LEMMA TypeUnsetInitialized ==
    ASSUME TInv, UnsetInitialized PROVE TInv'
  BY Constants, Drawn DEF TInv, TypeOK, KeysDrawn, UnsetInitialized, ResetAt, provider, calls, files

LEMMA TypeRemoveFile ==
    ASSUME TInv, RemoveFile PROVE TInv'
  <1> USE Constants, Drawn DEF TInv
  <1>1. master' \in [Store -> MasterFile] /\ \A t \in Store : master'[t].state = "ok" => master'[t].mk # None
    BY DEF RemoveFile, TypeOK, KeysDrawn, AbsentMaster, Store
  <1>2. db' \in [Store -> DbFile] /\ isReady' \in BOOLEAN
    <2>1. isReady' \in BOOLEAN
      BY Zenon DEF RemoveFile, TypeOK
    <2> QED
      BY <2>1 DEF RemoveFile, TypeOK, Store
  <1>3. TypeOK'
    BY <1>1, <1>2 DEF RemoveFile, ResetAt, TypeOK, provider
  <1>4. KeysDrawn'
    BY <1>1, <1>2, <1>3 DEF RemoveFile, TypeOK, KeysDrawn
  <1> QED
    BY <1>3, <1>4

LEMMA TypeFlushPrefs ==
    ASSUME TInv, FlushPrefs PROVE TInv'
  BY Constants, Drawn DEF TInv, TypeOK, KeysDrawn, FlushPrefs, calls, files

LEMMA TypeDie ==
    ASSUME TInv, Die PROVE TInv'
  <1> USE Constants, Drawn DEF TInv
  <1>1. db' \in [Store -> DbFile]
    BY DEF Die, TypeOK
  <1>2. store' \in [Store -> KeyStore] /\ \A t \in Store : ~store'[t].open
    <2>1. \A t \in Store : store'[t] = Closed
      BY DEF Die
    <2>2. store' \in [Store -> KeyStore]
      BY DEF Die
    <2>3. \A t \in Store : ~store'[t].open
      BY <2>1 DEF Closed
    <2> QED
      BY <2>2, <2>3
  <1>3. TypeOK'
    <2>1. reset' \in [step : {"idle", "keys", "groups", "unset", "rmKeysDb", "rmKeysMaster",
                             "rmGroupsDb", "rmGroupsMaster"}, ready : BOOLEAN]
      BY DEF Die
    <2>2. kept' \in [Store -> SUBSET Name]
      BY DEF Die, TypeOK
    <2>3. deaths' \in 0..MaxDeaths
      BY BoundsAssumption DEF Die, TypeOK
    <2>4. prefs' \in [mem : Slot, disk : Slot] /\ mine' \in [Caller -> Slot] /\ opening' \in Opening
      BY DEF Die, TypeOK
    <2> QED
      BY <1>1, <1>2, <2>1, <2>2, <2>3, <2>4 DEF Die, TypeOK
  <1>4. KeysDrawn'
    BY <1>1, <1>2, <1>3 DEF Die, TypeOK, KeysDrawn, NotOpening
  <1> QED
    BY <1>3, <1>4

LEMMA TypeStep == TInv /\ [Next]_vars => TInv'
  <1> SUFFICES ASSUME TInv, [Next]_vars PROVE TInv'
    OBVIOUS
  <1>1. ASSUME NEW c \in Caller, Initialize(c) PROVE TInv'
    BY <1>1, TypeBeginInitialize, TypeReadPassphrase, TypeLoadMasterKey, TypeGenerateMasterKey,
       TypePutPassphrase,
       TypeTakeInitialized, TypeOpenMaster, TypeWriteMaster, TypeLoadKeys, TypeDiscardStore, TypeInstallStore,
       TypeSwapStore, TypeEndInitialize DEF Initialize
  <1>2. ASSUME NEW s \in Store, Operate(s) PROVE TInv'
    BY <1>2, TypeStoreKey, TypeDeleteKey, TypeCleanupExpiredKeys, TypeFailRotation, TypeEndSave,
       TypeRotateMasterKey, TypeBeginSeal, TypeEndSeal DEF Operate
  <1>3. CASE ResetIdentity
    BY <1>3, TypeBeginReset, TypeUnsetInitialized, TypeRemoveFile, TypeDropStore, TypeEndDrop
       DEF ResetIdentity
  <1>4. CASE UNCHANGED vars
    BY <1>4 DEF TInv, TypeOK, KeysDrawn, vars
  <1> QED
    BY <1>1, <1>2, <1>3, <1>4, TypeFlushPrefs, TypeDie DEF Next

\* Every variable keeps its type, and a store in memory always has a master key.
THEOREM TypeCorrect == Spec => []TypeOK
  <1>1. Spec => []TInv
    BY TypeInit, TypeStep, PTL DEF Spec
  <1>2. TInv => TypeOK
    BY DEF TInv
  <1> QED
    BY <1>1, <1>2, PTL

--------------------------------------------------------------------------------
(* What a reset erases *)

\* A caller that is inside initialize, or holds INITIALIZED, meets no reset
LEMMA NoResetBeside ==
    ASSUME EInv, NEW c \in Caller, pc[c] # "idle" \/ opening.by = {c} PROVE reset.step = "idle"
  BY DEF EInv, Apart

\* During a reset nothing is being opened
LEMMA NotOpeningInReset ==
    ASSUME EInv, reset.step # "idle" PROVE opening = NotOpening
  BY DEF EInv, TInv, TypeOK, Opening, Apart

\* What is drawn now is younger than the last reset
LEMMA DrawnIsYoung == ASSUME EInv, Draw PROVE draws' > erased /\ erased <= draws' /\ erased \in Nat
  BY BoundsAssumption DEF EInv, TInv, TypeOK, AllYoung, Draw

LEMMA NothingIsYoung == Young(NoEntries)
  BY DEF Young, NoEntries

\* Steps that leave the stores and their files alone
LEMMA EraseQuiet ==
    ASSUME EInv, UNCHANGED <<files, store, op, reset, opening, erased>>, draws' = draws \/ Draw
    PROVE  Staged' /\ AllYoung'
  <1>1. Staged'
    BY DEF EInv, Staged, files
  <1>2. AllYoung'
    BY DrawnIsYoung DEF EInv, AllYoung, Young, files
  <1> QED
    BY <1>1, <1>2

LEMMA EraseInit == Init => EInv
  <1> SUFFICES ASSUME Init PROVE EInv
    OBVIOUS
  <1>1. Apart
    BY DEF Init, Apart, NotOpening
  <1>2. Staged
    BY DEF Init, Staged, Removing
  <1>3. \A s \in Store : Young(db[s].keys)
    BY NothingIsYoung DEF Init, Young, AbsentDb, DbOf
  <1>4. AllYoung
    BY <1>3, NothingIsYoung DEF Init, AllYoung, NotOpening, Closed, AbsentMaster, MasterOf, Store
  <1> QED
    BY <1>1, <1>2, <1>4, TypeInit DEF EInv

LEMMA EraseBeginInitialize ==
    ASSUME ~Overlap, EInv, NEW c \in Caller, BeginInitialize(c) PROVE Apart' /\ Staged' /\ AllYoung'
  <1>1. Apart'
    BY NoResetBeside DEF EInv, TInv, TypeOK, Apart, BeginInitialize
  <1> QED
    BY <1>1, EraseQuiet DEF BeginInitialize

LEMMA EraseReadPassphrase ==
    ASSUME ~Overlap, EInv, NEW c \in Caller, ReadPassphrase(c) PROVE Apart' /\ Staged' /\ AllYoung'
  <1>1. reset.step = "idle" /\ c \notin opening.by
    BY NoResetBeside DEF EInv, Apart, ReadPassphrase
  <1>2. \A d \in Caller \ {c} : pc'[d] = pc[d]
    BY DEF EInv, TInv, TypeOK, ReadPassphrase
  <1>3. opening' = opening /\ reset' = reset /\ opening.by \subseteq Caller
    BY DEF EInv, TInv, TypeOK, Opening, ReadPassphrase
  <1>4. Apart'
    BY <1>1, <1>2, <1>3 DEF EInv, Apart
  <1> QED
    BY <1>4, EraseQuiet DEF ReadPassphrase

LEMMA EraseLoadMasterKey ==
    ASSUME ~Overlap, EInv, NEW c \in Caller, LoadMasterKey(c) PROVE Apart' /\ Staged' /\ AllYoung'
  <1>1. Apart'
    BY NoResetBeside DEF EInv, TInv, TypeOK, Apart, LoadMasterKey
  <1> QED
    BY <1>1, EraseQuiet DEF LoadMasterKey

LEMMA EraseGenerateMasterKey ==
    ASSUME ~Overlap, EInv, NEW c \in Caller, GenerateMasterKey(c) PROVE Apart' /\ Staged' /\ AllYoung'
  <1>1. Apart'
    BY NoResetBeside DEF EInv, TInv, TypeOK, Apart, GenerateMasterKey
  <1> QED
    BY <1>1, EraseQuiet DEF GenerateMasterKey

LEMMA ErasePutPassphrase ==
    ASSUME ~Overlap, EInv, NEW c \in Caller, PutPassphrase(c) PROVE Apart' /\ Staged' /\ AllYoung'
  <1>1. Apart'
    BY NoResetBeside DEF EInv, TInv, TypeOK, Apart, PutPassphrase
  <1> QED
    BY <1>1, EraseQuiet DEF PutPassphrase

LEMMA EraseEndInitialize ==
    ASSUME ~Overlap, EInv, NEW c \in Caller, EndInitialize(c) PROVE Apart' /\ Staged' /\ AllYoung'
  <1>1. Apart'
    BY NoResetBeside DEF EInv, TInv, TypeOK, Apart, EndInitialize
  <1> QED
    BY <1>1, EraseQuiet DEF EndInitialize

LEMMA EraseFlushPrefs ==
    ASSUME ~Overlap, EInv, FlushPrefs PROVE Apart' /\ Staged' /\ AllYoung'
  <1>1. Apart'
    BY DEF EInv, Apart, FlushPrefs, calls
  <1> QED
    BY <1>1, EraseQuiet DEF FlushPrefs

LEMMA EraseTakeInitialized ==
    ASSUME ~Overlap, EInv, NEW c \in Caller, TakeInitialized(c) PROVE Apart' /\ Staged' /\ AllYoung'
  <1>1. Apart'
    BY NoResetBeside DEF EInv, TInv, TypeOK, Apart, Unlocked, TakeInitialized, NotOpening
  <1>2. Staged'
    BY DEF EInv, TInv, TypeOK, Staged, Removing, TakeInitialized, files
  <1>3. AllYoung'
    BY NothingIsYoung DEF EInv, TInv, TypeOK, AllYoung, Young, TakeInitialized, files, NotOpening
  <1> QED
    BY <1>1, <1>2, <1>3

LEMMA EraseFailOpening ==
    ASSUME EInv, NEW c \in Caller, opening.by = {c}, FailOpening(c), UNCHANGED <<db, store, op, reset, erased>>
    PROVE  Apart' /\ Staged' /\ AllYoung'
  <1>1. reset.step = "idle"
    BY NoResetBeside
  <1>2. Apart'
    BY <1>1 DEF Apart, FailOpening, NotOpening
  <1>3. Staged'
    BY DEF EInv, Staged, FailOpening
  <1>4. AllYoung'
    BY NothingIsYoung DEF EInv, AllYoung, Young, FailOpening, NotOpening
  <1> QED
    BY <1>2, <1>3, <1>4

LEMMA EraseOpenMaster ==
    ASSUME ~Overlap, EInv, NEW c \in Caller, OpenMaster(c) PROVE Apart' /\ Staged' /\ AllYoung'
  <1>1. reset.step = "idle" /\ opening.by = {c} /\ pc[c] = "opening"
    BY NoResetBeside DEF EInv, Apart, OpenMaster
  <1>2. opening \in Opening /\ opening.at \in Store /\ master \in [Store -> MasterFile]
    BY DEF EInv, TInv, TypeOK, Opening
  <1>3. CASE FailOpening(c)
    BY <1>1, <1>3, EraseFailOpening DEF OpenMaster
  <1>4. ASSUME NEW m, NEW t, t # "open", m > erased,
               opening' = [opening EXCEPT !.step = t, !.mk = m],
               master' = [master EXCEPT ![opening.at] = TornMaster] \/ master' = master,
               pc' = pc, draws' = draws \/ Draw
        PROVE  Apart' /\ Staged' /\ AllYoung'
    <2>1. opening'.by = opening.by /\ opening'.mk = m /\ opening'.keys = opening.keys
      BY <1>2, <1>4 DEF Opening
    <2>2. Apart'
      BY <1>1, <1>4, <2>1 DEF EInv, Apart, OpenMaster
    <2>3. Staged'
      BY <1>1, <1>2, <1>4 DEF EInv, Staged, Removing, OpenMaster
    <2>4. AllYoung'
      BY <1>2, <1>4, <2>1, DrawnIsYoung DEF EInv, AllYoung, Young, OpenMaster, TornMaster
    <2> QED
      BY <2>2, <2>3, <2>4
  <1>5. CASE /\ Draw
             /\ master' = [master EXCEPT ![opening.at] = TornMaster]
             /\ opening' = [opening EXCEPT !.step = "write", !.mk = draws']
             /\ pc' = pc
    BY <1>4, <1>5, DrawnIsYoung
  <1>6. CASE /\ master[opening.at].state = "ok"
             /\ opening' = [opening EXCEPT !.step = "load", !.mk = master[opening.at].mk]
             /\ UNCHANGED <<master, draws, pc>>
    BY <1>2, <1>4, <1>6 DEF EInv, AllYoung
  <1>7. CASE /\ master[opening.at].state = "ok"
             /\ master' = [master EXCEPT ![opening.at] = TornMaster]
             /\ opening' = [opening EXCEPT !.step = "write", !.mk = master[opening.at].mk]
             /\ UNCHANGED <<draws, pc>>
    BY <1>2, <1>4, <1>7 DEF EInv, AllYoung
  <1> QED
    BY <1>3, <1>5, <1>6, <1>7 DEF OpenMaster

LEMMA EraseWriteMaster ==
    ASSUME ~Overlap, EInv, NEW c \in Caller, WriteMaster(c) PROVE Apart' /\ Staged' /\ AllYoung'
  <1>1. reset.step = "idle" /\ c \in opening.by /\ pc[c] = "opening"
    BY NoResetBeside DEF EInv, Apart, WriteMaster
  <1>2. opening.at \in Store
    BY <1>1 DEF EInv, TInv, TypeOK, Opening
  <1>3. Apart'
    BY <1>1, <1>2 DEF EInv, TInv, TypeOK, Apart, WriteMaster, calls, Opening
  <1>4. Staged'
    BY <1>1, <1>2 DEF EInv, TInv, TypeOK, Staged, Removing, WriteMaster
  <1>5. AllYoung'
    BY <1>1, <1>2 DEF EInv, TInv, TypeOK, AllYoung, Young, WriteMaster, Filled, MasterOf, Opening
  <1> QED
    BY <1>3, <1>4, <1>5

LEMMA EraseLoadKeys ==
    ASSUME ~Overlap, EInv, NEW c \in Caller, LoadKeys(c) PROVE Apart' /\ Staged' /\ AllYoung'
  <1>1. reset.step = "idle" /\ opening.by = {c} /\ pc[c] = "opening" /\ opening.step # "open"
    BY NoResetBeside DEF EInv, Apart, LoadKeys
  <1>2. opening \in Opening /\ opening.at \in Store /\ db \in [Store -> DbFile]
    BY DEF EInv, TInv, TypeOK, Opening
  <1>3. UNCHANGED <<pc, reset, master, store, op, draws, erased>>
    BY DEF LoadKeys, calls
  <1>4. /\ opening'.by = opening.by /\ opening'.mk = opening.mk
        /\ opening'.keys \in {opening.keys, db[opening.at].keys}
    BY <1>2 DEF LoadKeys, Opening
  <1>5. \A s \in Store : db'[s] = db[s] \/ db'[s] = EmptyDb
    BY <1>2 DEF LoadKeys
  <1>6. Apart'
    BY <1>1, <1>3, <1>4 DEF EInv, Apart
  <1>7. Staged'
    BY <1>1, <1>3 DEF EInv, Staged, Removing
  <1>8. AllYoung'
    BY <1>1, <1>2, <1>3, <1>4, <1>5, NothingIsYoung DEF EInv, AllYoung, Young, EmptyDb
  <1> QED
    BY <1>6, <1>7, <1>8

LEMMA EraseDiscardStore ==
    ASSUME ~Overlap, EInv, NEW c \in Caller, DiscardStore(c) PROVE Apart' /\ Staged' /\ AllYoung'
  <1>1. reset.step = "idle"
    BY NoResetBeside DEF DiscardStore
  <1>2. opening' = NotOpening /\ UNCHANGED <<reset, master, store, op, draws, erased>>
    BY DEF DiscardStore, FailOpening
  <1>3. \A s \in Store : db'[s] = db[s] \/ db'[s] = DbOf(NoEntries)
    BY DEF DiscardStore, Filled, EInv, TInv, TypeOK
  <1>4. Apart'
    BY <1>1, <1>2 DEF Apart, NotOpening
  <1>5. Staged'
    BY <1>1, <1>2 DEF EInv, Staged, Removing
  <1>6. AllYoung'
    BY <1>2, <1>3, NothingIsYoung DEF EInv, AllYoung, Young, NotOpening, DbOf
  <1> QED
    BY <1>4, <1>5, <1>6

LEMMA EraseAfterInstall ==
    ASSUME EInv, NEW c \in Caller, opening.by = {c}, AfterInstall, UNCHANGED reset
    PROVE  Apart' /\ opening'.step = "open" /\ opening'.keys = NoEntries /\ reset.step = "idle"
  <1>1. reset.step = "idle" /\ pc[c] = "opening"
    BY NoResetBeside DEF EInv, Apart
  <1>2. CASE opening.at = "keys"
    <2>1. /\ opening' = [by |-> {c}, at |-> "groups", step |-> "open", mk |-> None, keys |-> NoEntries]
          /\ pc' = pc
      BY <1>2 DEF AfterInstall, NotOpening
    <2> QED
      BY <1>1, <2>1 DEF Apart
  <1>3. CASE opening.at # "keys"
    <2>1. opening' = NotOpening
      BY <1>3 DEF AfterInstall
    <2> QED
      BY <1>1, <2>1 DEF Apart, NotOpening
  <1> QED
    BY <1>2, <1>3

LEMMA NewStoreIsYoung ==
    ASSUME EInv, NEW c \in Caller, opening.step # "open"
    PROVE  NewStore(c).open /\ NewStore(c).mk > erased /\ Young(NewStore(c).keys)
  BY DEF EInv, AllYoung, Young, NewStore

LEMMA EraseInstallStore ==
    ASSUME ~Overlap, EInv, NEW c \in Caller, InstallStore(c) PROVE Apart' /\ Staged' /\ AllYoung'
  <1>1. reset.step = "idle" /\ opening.by = {c} /\ pc[c] = "opening" /\ opening.step # "open"
    BY NoResetBeside DEF EInv, Apart, InstallStore
  <1>2. opening \in Opening /\ opening.at \in Store
    BY DEF EInv, TInv, TypeOK, Opening
  <1>3. CASE ~store[opening.at].open
    <2>1. Apart' /\ opening'.step = "open" /\ opening'.keys = NoEntries
      BY <1>1, <1>3, EraseAfterInstall DEF InstallStore
    <2>2. Staged'
      BY <1>1, <1>2, <1>3, NewStoreIsYoung DEF EInv, TInv, TypeOK, Staged, Removing, InstallStore
    <2>3. /\ store'[opening.at] = NewStore(c)
          /\ \A s \in Store : s # opening.at => store'[s] = store[s]
          /\ UNCHANGED <<master, db, draws, erased>>
      BY <1>2, <1>3 DEF EInv, TInv, TypeOK, InstallStore
    <2>4. NewStore(c).mk > erased /\ Young(NewStore(c).keys) /\ Young(NoEntries)
      BY <1>1, NewStoreIsYoung, NothingIsYoung
    <2>5. \A s \in Store : store'[s].open => store'[s].mk > erased
      BY <2>3, <2>4 DEF EInv, AllYoung
    <2>6. \A s \in Store : Young(store'[s].keys) /\ Young(db[s].keys)
      BY <2>3, <2>4 DEF EInv, AllYoung
    <2>7. AllYoung'
      BY <2>1, <2>3, <2>4, <2>5, <2>6 DEF EInv, AllYoung, Young
    <2> QED
      BY <2>1, <2>2, <2>7
  <1>4. CASE store[opening.at].open
    <2>1. /\ opening'.by = opening.by
          /\ opening'.mk = opening.mk
          /\ opening'.keys = opening.keys
          /\ opening'.step = "swap"
      BY <1>2, <1>4 DEF Opening, InstallStore
    <2>2. Apart'
      BY <1>1, <1>4, <2>1 DEF Apart, InstallStore
    <2>3. Staged'
      BY <1>1, <1>2, <1>4 DEF EInv, TInv, TypeOK, Staged, Removing, InstallStore
    <2>4. AllYoung'
      BY <1>1, <1>2, <1>4, <2>1, NothingIsYoung DEF EInv, TInv, TypeOK, AllYoung, Young, InstallStore, EmptyDb
    <2> QED
      BY <2>2, <2>3, <2>4
  <1> QED
    BY <1>3, <1>4

LEMMA EraseSwapStore ==
    ASSUME ~Overlap, EInv, NEW c \in Caller, SwapStore(c) PROVE Apart' /\ Staged' /\ AllYoung'
  <1>1. reset.step = "idle" /\ opening.by = {c} /\ opening.step # "open" /\ opening.at \in Store
    BY NoResetBeside DEF EInv, TInv, TypeOK, Opening, SwapStore
  <1>2. Apart' /\ opening'.step = "open" /\ opening'.keys = NoEntries
    BY <1>1, EraseAfterInstall DEF SwapStore
  <1>3. Staged'
    BY <1>1, NewStoreIsYoung DEF EInv, TInv, TypeOK, Staged, Removing, SwapStore
  <1>4. AllYoung'
    BY <1>1, <1>2, NewStoreIsYoung, NothingIsYoung DEF EInv, TInv, TypeOK, AllYoung, Young,
       SwapStore, Filled, DbOf
  <1> QED
    BY <1>2, <1>3, <1>4

\* A step of an operation on an open store leaves reset, opening and pc alone
LEMMA EraseOperate ==
    ASSUME EInv, UNCHANGED <<calls, opening, reset, erased>>, draws' = draws \/ Draw,
           NEW s \in Store, store[s].open, store'[s].open, store'[s].mk > erased, Young(store'[s].keys),
           \A t \in Store \ {s} : /\ store'[t] = store[t] /\ op'[t] = op[t]
                                 /\ db'[t] = db[t] /\ master'[t] = master[t],
           Young(db'[s].keys), master'[s].state = "ok" => master'[s].mk > erased,
           op'[s] = "drop" => reset.step = s
    PROVE  Apart' /\ Staged' /\ AllYoung'
  <1>1. Apart'
    BY DEF EInv, Apart, calls
  <1>2. Staged'
    BY DEF EInv, Staged, Removing, Store
  <1>3. AllYoung'
    BY DrawnIsYoung DEF EInv, AllYoung, Young
  <1> QED
    BY <1>1, <1>2, <1>3

LEMMA EraseStoreKey ==
    ASSUME ~Overlap, EInv, NEW s \in Store, NEW m \in Name, StoreKey(s, m) PROVE Apart' /\ Staged' /\ AllYoung'
  <1>1. /\ store[s].open
        /\ store[s].mk > erased
        /\ Young(store[s].keys)
        /\ Young(db[s].keys)
        /\ store[s].keys \in Entries
    BY DEF EInv, TInv, TypeOK, KeyStore, AllYoung, KeysDrawn, StoreKey, Usable
  <1>2. store'[s].open /\ store'[s].mk > erased /\ Young(store'[s].keys)
    BY <1>1, Constants DEF EInv, TInv, TypeOK, StoreKey, KeyStore, Entries, Young
  <1>3. Young(db'[s].keys) /\ (master'[s].state = "ok" => master'[s].mk > erased)
    BY <1>1, NothingIsYoung DEF EInv, TInv, TypeOK, AllYoung, Young, StoreKey, BeginSave, EmptyDb, files
  <1>4. \A t \in Store \ {s} : /\ store'[t] = store[t] /\ op'[t] = op[t]
                              /\ db'[t] = db[t] /\ master'[t] = master[t]
    BY DEF EInv, TInv, TypeOK, StoreKey, BeginSave, EmptyDb, files
  <1>5. op'[s] = "drop" => reset.step = s
    BY DEF EInv, TInv, TypeOK, Staged, StoreKey, BeginSave, EmptyDb, files
  <1> QED
    BY <1>1, <1>2, <1>3, <1>4, <1>5, EraseOperate DEF StoreKey

LEMMA EraseDeleteKey ==
    ASSUME ~Overlap, EInv, NEW s \in Store, NEW m \in Name, DeleteKey(s, m) PROVE Apart' /\ Staged' /\ AllYoung'
  <1>1. /\ store[s].open
        /\ store[s].mk > erased
        /\ Young(store[s].keys)
        /\ Young(db[s].keys)
        /\ store[s].keys \in Entries
    BY DEF EInv, TInv, TypeOK, KeyStore, AllYoung, KeysDrawn, DeleteKey, Usable
  <1>2. store'[s].open /\ store'[s].mk > erased /\ Young(store'[s].keys)
    BY <1>1, Constants DEF EInv, TInv, TypeOK, DeleteKey, KeyStore, Entries, Young
  <1>3. Young(db'[s].keys) /\ (master'[s].state = "ok" => master'[s].mk > erased)
    BY <1>1, NothingIsYoung DEF EInv, TInv, TypeOK, AllYoung, Young, DeleteKey, BeginSave, EmptyDb, files
  <1>4. \A t \in Store \ {s} : /\ store'[t] = store[t] /\ op'[t] = op[t]
                              /\ db'[t] = db[t] /\ master'[t] = master[t]
    BY DEF EInv, TInv, TypeOK, DeleteKey, BeginSave, EmptyDb, files
  <1>5. op'[s] = "drop" => reset.step = s
    BY DEF EInv, TInv, TypeOK, Staged, DeleteKey, BeginSave, EmptyDb, files
  <1> QED
    BY <1>1, <1>2, <1>3, <1>4, <1>5, EraseOperate DEF DeleteKey

LEMMA EraseCleanupExpiredKeys ==
    ASSUME ~Overlap, EInv, NEW s \in Store, NEW gone \in SUBSET Name, CleanupExpiredKeys(s, gone)
    PROVE  Apart' /\ Staged' /\ AllYoung'
  <1>1. /\ store[s].open
        /\ store[s].mk > erased
        /\ Young(store[s].keys)
        /\ Young(db[s].keys)
        /\ store[s].keys \in Entries
    BY DEF EInv, TInv, TypeOK, KeyStore, AllYoung, KeysDrawn, CleanupExpiredKeys, Usable
  <1>2. store'[s].open /\ store'[s].mk > erased /\ Young(store'[s].keys)
    BY <1>1, Constants DEF EInv, TInv, TypeOK, CleanupExpiredKeys, KeyStore, Entries, Young
  <1>3. Young(db'[s].keys) /\ (master'[s].state = "ok" => master'[s].mk > erased)
    BY <1>1, NothingIsYoung DEF EInv, TInv, TypeOK, AllYoung, Young, CleanupExpiredKeys, BeginSave,
       EmptyDb, files
  <1>4. \A t \in Store \ {s} : /\ store'[t] = store[t] /\ op'[t] = op[t]
                              /\ db'[t] = db[t] /\ master'[t] = master[t]
    BY DEF EInv, TInv, TypeOK, CleanupExpiredKeys, BeginSave, EmptyDb, files
  <1>5. op'[s] = "drop" => reset.step = s
    BY DEF EInv, TInv, TypeOK, Staged, CleanupExpiredKeys, BeginSave, EmptyDb, files
  <1> QED
    BY <1>1, <1>2, <1>3, <1>4, <1>5, EraseOperate DEF CleanupExpiredKeys

LEMMA EraseRotateMasterKey ==
    ASSUME ~Overlap, EInv, NEW s \in Store, RotateMasterKey(s) PROVE Apart' /\ Staged' /\ AllYoung'
  <1>1. /\ store[s].open
        /\ store[s].mk > erased
        /\ Young(store[s].keys)
        /\ Young(db[s].keys)
        /\ store[s].keys \in Entries
    BY DEF EInv, TInv, TypeOK, KeyStore, AllYoung, KeysDrawn, RotateMasterKey, Usable
  <1>2. store'[s].open /\ store'[s].mk > erased /\ Young(store'[s].keys)
    BY <1>1, DrawnIsYoung DEF EInv, TInv, TypeOK, RotateMasterKey, KeyStore, Entries, Young, Resealed
  <1>3. Young(db'[s].keys) /\ (master'[s].state = "ok" => master'[s].mk > erased)
    BY <1>1, NothingIsYoung DEF EInv, TInv, TypeOK, AllYoung, Young, RotateMasterKey, BeginSave, EmptyDb, files
  <1>4. \A t \in Store \ {s} : /\ store'[t] = store[t] /\ op'[t] = op[t]
                              /\ db'[t] = db[t] /\ master'[t] = master[t]
    BY DEF EInv, TInv, TypeOK, RotateMasterKey, BeginSave, EmptyDb, files
  <1>5. op'[s] = "drop" => reset.step = s
    BY DEF EInv, TInv, TypeOK, Staged, RotateMasterKey, BeginSave, EmptyDb, files
  <1> QED
    BY <1>1, <1>2, <1>3, <1>4, <1>5, EraseOperate DEF RotateMasterKey

LEMMA EraseFailRotation ==
    ASSUME ~Overlap, EInv, NEW s \in Store, NEW before \in SUBSET Name, FailRotation(s, before)
    PROVE  Apart' /\ Staged' /\ AllYoung'
  <1>1. /\ store[s].open
        /\ store[s].mk > erased
        /\ Young(store[s].keys)
        /\ Young(db[s].keys)
        /\ store[s].keys \in Entries
    BY DEF EInv, TInv, TypeOK, KeyStore, AllYoung, KeysDrawn, FailRotation, Usable
  <1>2. store'[s].open /\ store'[s].mk > erased /\ Young(store'[s].keys)
    BY <1>1, DrawnIsYoung DEF EInv, TInv, TypeOK, FailRotation, KeyStore, Entries, Young, Resealed
  <1>3. Young(db'[s].keys) /\ (master'[s].state = "ok" => master'[s].mk > erased)
    BY <1>1, NothingIsYoung DEF EInv, TInv, TypeOK, AllYoung, Young, FailRotation, files
  <1>4. \A t \in Store \ {s} : /\ store'[t] = store[t] /\ op'[t] = op[t]
                              /\ db'[t] = db[t] /\ master'[t] = master[t]
    BY DEF EInv, TInv, TypeOK, FailRotation, files
  <1>5. op'[s] = "drop" => reset.step = s
    BY DEF EInv, TInv, TypeOK, Staged, FailRotation, files
  <1> QED
    BY <1>1, <1>2, <1>3, <1>4, <1>5, EraseOperate DEF FailRotation

LEMMA EraseEndSave ==
    ASSUME ~Overlap, EInv, NEW s \in Store, EndSave(s) PROVE Apart' /\ Staged' /\ AllYoung'
  <1>1. /\ store[s].open
        /\ store[s].mk > erased
        /\ Young(store[s].keys)
        /\ Young(db[s].keys)
        /\ store[s].keys \in Entries
    BY DEF EInv, TInv, TypeOK, KeyStore, AllYoung, KeysDrawn, EndSave, Usable
  <1>2. store'[s].open /\ store'[s].mk > erased /\ Young(store'[s].keys)
    BY <1>1 DEF EndSave
  <1>3. Young(db'[s].keys) /\ (master'[s].state = "ok" => master'[s].mk > erased)
    BY <1>1, NothingIsYoung DEF EInv, TInv, TypeOK, AllYoung, Young, EndSave, Filled, DbOf
  <1>4. \A t \in Store \ {s} : /\ store'[t] = store[t] /\ op'[t] = op[t]
                              /\ db'[t] = db[t] /\ master'[t] = master[t]
    BY DEF EInv, TInv, TypeOK, EndSave, Filled, DbOf
  <1>5. op'[s] = "drop" => reset.step = s
    BY DEF EInv, TInv, TypeOK, Staged, EndSave, Filled, DbOf
  <1> QED
    BY <1>1, <1>2, <1>3, <1>4, <1>5, EraseOperate DEF EndSave

LEMMA EraseBeginSeal ==
    ASSUME ~Overlap, EInv, NEW s \in Store, BeginSeal(s) PROVE Apart' /\ Staged' /\ AllYoung'
  <1>1. /\ store[s].open
        /\ store[s].mk > erased
        /\ Young(store[s].keys)
        /\ Young(db[s].keys)
        /\ store[s].keys \in Entries
    BY DEF EInv, TInv, TypeOK, KeyStore, AllYoung, KeysDrawn, BeginSeal, Usable
  <1>2. store'[s].open /\ store'[s].mk > erased /\ Young(store'[s].keys)
    BY <1>1 DEF BeginSeal
  <1>3. Young(db'[s].keys) /\ (master'[s].state = "ok" => master'[s].mk > erased)
    BY <1>1, NothingIsYoung DEF EInv, TInv, TypeOK, AllYoung, Young, BeginSeal, TornMaster
  <1>4. \A t \in Store \ {s} : /\ store'[t] = store[t] /\ op'[t] = op[t]
                              /\ db'[t] = db[t] /\ master'[t] = master[t]
    BY DEF EInv, TInv, TypeOK, BeginSeal, TornMaster
  <1>5. op'[s] = "drop" => reset.step = s
    BY DEF EInv, TInv, TypeOK, Staged, BeginSeal, TornMaster
  <1> QED
    BY <1>1, <1>2, <1>3, <1>4, <1>5, EraseOperate DEF BeginSeal

LEMMA EraseEndSeal ==
    ASSUME ~Overlap, EInv, NEW s \in Store, EndSeal(s) PROVE Apart' /\ Staged' /\ AllYoung'
  <1>1. /\ store[s].open
        /\ store[s].mk > erased
        /\ Young(store[s].keys)
        /\ Young(db[s].keys)
        /\ store[s].keys \in Entries
    BY DEF EInv, TInv, TypeOK, KeyStore, AllYoung, KeysDrawn, EndSeal, Usable
  <1>2. store'[s].open /\ store'[s].mk > erased /\ Young(store'[s].keys)
    BY <1>1 DEF EndSeal
  <1>3. Young(db'[s].keys) /\ (master'[s].state = "ok" => master'[s].mk > erased)
    BY <1>1, NothingIsYoung DEF EInv, TInv, TypeOK, AllYoung, Young, EndSeal, Filled, MasterOf
  <1>4. \A t \in Store \ {s} : /\ store'[t] = store[t] /\ op'[t] = op[t]
                              /\ db'[t] = db[t] /\ master'[t] = master[t]
    BY DEF EInv, TInv, TypeOK, EndSeal, Filled, MasterOf
  <1>5. op'[s] = "drop" => reset.step = s
    BY DEF EInv, TInv, TypeOK, Staged, EndSeal, Filled, MasterOf
  <1> QED
    BY <1>1, <1>2, <1>3, <1>4, <1>5, EraseOperate DEF EndSeal

LEMMA EraseBeginReset ==
    ASSUME ~Overlap, EInv, BeginReset PROVE Apart' /\ Staged' /\ AllYoung'
  <1>1. Apart'
    BY DEF EInv, Apart, BeginReset, calls
  <1>2. \A s \in Store : op[s] # "drop"
    BY DEF EInv, Staged, BeginReset, Store
  <1>3. reset'.step = "keys"
    BY DEF BeginReset
  <1>4. Staged'
    BY <1>2, <1>3 DEF EInv, Staged, Removing, BeginReset, files
  <1>5. AllYoung'
    BY DEF EInv, AllYoung, Young, BeginReset, files
  <1> QED
    BY <1>1, <1>4, <1>5

LEMMA EraseDropStore ==
    ASSUME ~Overlap, EInv, NEW s \in Store, DropStore(s) PROVE Apart' /\ Staged' /\ AllYoung'
  <1>1. CASE store[s].open
    <2>1. Young(db'[s].keys) /\ op'[s] = "drop" /\ store[s].mk > erased /\ Young(store[s].keys)
      BY <1>1, NothingIsYoung DEF EInv, TInv, TypeOK, AllYoung, DropStore, BeginSave, EmptyDb
    <2>2. \A t \in Store \ {s} : op'[t] = op[t] /\ db'[t] = db[t]
      BY <1>1 DEF EInv, TInv, TypeOK, DropStore, BeginSave
    <2>3. master'[s].state = "ok" => master'[s].mk > erased
      BY DEF EInv, AllYoung, DropStore
    <2> QED
      BY <1>1, <2>1, <2>2, <2>3, EraseOperate DEF DropStore
  <1>2. CASE ~store[s].open
    <2>1. /\ UNCHANGED <<calls, opening, files, store, op, erased, draws>>
          /\ reset.step = s /\ reset'.step = AfterDrop(s)
      BY <1>2 DEF EInv, TInv, TypeOK, DropStore, ResetAt, files
    <2>2. Apart'
      BY <2>1 DEF EInv, Apart, Store, calls
    <2>3. \A t \in Store : op[t] # "drop"
      BY <1>2, <2>1 DEF EInv, TInv, KeysDrawn, Staged
    <2>4. Staged'
      BY <1>2, <2>1, <2>3 DEF EInv, Staged, Removing, AfterDrop, Store, files
    <2>5. AllYoung'
      BY <2>1 DEF EInv, AllYoung, Young, files
    <2> QED
      BY <2>2, <2>4, <2>5
  <1> QED
    BY <1>1, <1>2

LEMMA EraseEndDrop ==
    ASSUME ~Overlap, EInv, NEW s \in Store, EndDrop(s) PROVE Apart' /\ Staged' /\ AllYoung'
  <1>1. reset.step = s /\ reset'.step = AfterDrop(s)
    BY DEF EInv, TInv, TypeOK, Staged, EndDrop, ResetAt
  <1>2. Apart'
    BY <1>1 DEF EInv, Apart, EndDrop, calls, Store
  <1>3. /\ store'[s] = Closed /\ op'[s] = "idle"
        /\ \A t \in Store \ {s} : store'[t] = store[t] /\ op'[t] = op[t] /\ op[t] # "drop"
    BY <1>1 DEF EInv, TInv, TypeOK, Staged, EndDrop
  <1>4. Staged'
    BY <1>1, <1>3 DEF EInv, Staged, Removing, EndDrop, AfterDrop, Store, Closed
  <1>5. AllYoung'
    BY <1>3, NothingIsYoung DEF EInv, TInv, TypeOK, AllYoung, Young, EndDrop, Filled, DbOf, Closed
  <1> QED
    BY <1>2, <1>4, <1>5

LEMMA EraseUnsetInitialized ==
    ASSUME ~Overlap, EInv, UnsetInitialized PROVE Apart' /\ Staged' /\ AllYoung'
  <1>1. reset.step = "unset" /\ reset'.step = "rmKeysDb"
    BY DEF EInv, TInv, TypeOK, UnsetInitialized, ResetAt
  <1>2. Apart'
    BY <1>1 DEF EInv, Apart, UnsetInitialized, calls
  <1>3. Staged'
    BY <1>1 DEF EInv, Staged, Removing, UnsetInitialized, files, Store
  <1>4. AllYoung'
    BY DEF EInv, AllYoung, Young, UnsetInitialized, files
  <1> QED
    BY <1>2, <1>3, <1>4

\* The last file goes when the stores are closed and the other files are gone:
\* nothing is left that an earlier value could be in.
LEMMA EraseRemoveFile ==
    ASSUME ~Overlap, EInv, RemoveFile PROVE Apart' /\ Staged' /\ AllYoung'
  <1>1. reset.step \in Removing /\ reset.step # "idle"
    BY DEF RemoveFile, Removing
  <1>2. opening = NotOpening /\ \A c \in Caller : pc[c] = "idle"
    BY <1>1, NotOpeningInReset DEF EInv, Apart
  <1>3. Apart'
    BY <1>2 DEF Apart, RemoveFile, NotOpening
  <1>4. \A s \in Store : store[s] = Closed /\ op[s] # "drop"
    BY <1>1 DEF EInv, Staged, Removing, Store
  <1>5. CASE reset.step = "rmKeysDb"
    <2>1. /\ reset'.step = "rmKeysMaster" /\ db'["keys"] = AbsentDb /\ db'["groups"] = db["groups"]
          /\ UNCHANGED <<master, erased>>
      BY <1>5 DEF EInv, TInv, TypeOK, RemoveFile, ResetAt, Store
    <2>2. Staged'
      BY <1>4, <2>1, Constants DEF Staged, Removing, RemoveFile, Store
    <2>3. AllYoung'
      BY <1>4, <2>1, NothingIsYoung DEF EInv, AllYoung, Young, RemoveFile, AbsentDb, Store
    <2> QED
      BY <1>3, <2>2, <2>3
  <1>6. CASE reset.step = "rmKeysMaster"
    <2>1. /\ /\ reset'.step = "rmGroupsDb"
          /\ master'["keys"] = AbsentMaster
          /\ master'["groups"] = master["groups"]
          /\ UNCHANGED <<db, erased>>
      BY <1>6 DEF EInv, TInv, TypeOK, RemoveFile, ResetAt, Store
    <2>2. Staged'
      BY <1>4, <1>6, <2>1 DEF EInv, Staged, Removing, RemoveFile, Closed
    <2>3. AllYoung'
      BY <1>4, <2>1 DEF EInv, AllYoung, Young, RemoveFile, AbsentMaster, Store
    <2> QED
      BY <1>3, <2>2, <2>3
  <1>7. CASE reset.step = "rmGroupsDb"
    <2>1. /\ reset'.step = "rmGroupsMaster" /\ db'["groups"] = AbsentDb /\ db'["keys"] = db["keys"]
          /\ UNCHANGED <<master, erased>>
      BY <1>7 DEF EInv, TInv, TypeOK, RemoveFile, ResetAt, Store
    <2>2. Staged'
      BY <1>4, <1>7, <2>1 DEF EInv, Staged, Removing, RemoveFile, Closed
    <2>3. AllYoung'
      BY <1>4, <2>1, NothingIsYoung DEF EInv, AllYoung, Young, RemoveFile, AbsentDb, Store
    <2> QED
      BY <1>3, <2>2, <2>3
  <1>8. CASE reset.step = "rmGroupsMaster"
    <2>1. /\ reset'.step = "idle" /\ master'["groups"] = AbsentMaster /\ master'["keys"] = AbsentMaster
          /\ UNCHANGED db /\ erased' = draws
      BY <1>8 DEF EInv, TInv, TypeOK, Staged, RemoveFile, ResetAt, Store
    <2>2. db["keys"] = AbsentDb /\ db["groups"] = AbsentDb
      BY <1>8 DEF EInv, Staged, Removing
    <2>3. Staged'
      BY <1>4, <2>1 DEF Staged, Removing, RemoveFile
    <2>4. AllYoung'
      <3>1. \A s \in Store : ~store'[s].open /\ store'[s].keys = NoEntries /\ db'[s].keys = NoEntries
        BY <1>4, <2>1, <2>2 DEF RemoveFile, Closed, AbsentDb, Store
      <3>2. \A s \in Store : master'[s].state # "ok"
        BY <2>1 DEF AbsentMaster, Store
      <3>3. opening'.step = "open" /\ opening'.keys = NoEntries
        BY <1>2 DEF RemoveFile, NotOpening
      <3>4. erased' <= draws'
        BY <2>1 DEF EInv, TInv, TypeOK, RemoveFile
      <3>5. \A n \in Name : NoEntries[n] = None
        BY DEF NoEntries
      <3> QED
        BY <3>1, <3>2, <3>3, <3>4, <3>5 DEF AllYoung, Young
    <2> QED
      BY <1>3, <2>3, <2>4
  <1> QED
    BY <1>1, <1>5, <1>6, <1>7, <1>8 DEF Removing

LEMMA EraseDie ==
    ASSUME ~Overlap, EInv, Die PROVE Apart' /\ Staged' /\ AllYoung'
  <1>1. reset'.step = "idle" /\ opening' = NotOpening
    BY DEF Die
  <1>2. \A s \in Store : store'[s] = Closed /\ op'[s] = "idle"
    BY DEF Die
  <1>3. Apart'
    BY <1>1 DEF Apart, NotOpening
  <1>4. Staged'
    BY <1>1, <1>2 DEF Staged, Removing
  <1>5. \A s \in Store : db'[s] = TornDb \/ db'[s] = db[s]
    BY DEF Die
  <1>6. AllYoung'
    BY <1>1, <1>2, <1>5, NothingIsYoung DEF EInv, AllYoung, Young, Die, NotOpening, Closed, TornDb
  <1> QED
    BY <1>3, <1>4, <1>6

LEMMA EraseStep == ASSUME ~Overlap PROVE EInv /\ [Next]_vars => EInv'
  <1> SUFFICES ASSUME EInv, [Next]_vars PROVE EInv'
    OBVIOUS
  <1>1. SUFFICES Apart' /\ Staged' /\ AllYoung'
    BY TypeStep DEF EInv
  <1>2. ASSUME NEW c \in Caller, Initialize(c) PROVE Apart' /\ Staged' /\ AllYoung'
    BY <1>2, EraseBeginInitialize, EraseReadPassphrase, EraseLoadMasterKey, EraseGenerateMasterKey,
       ErasePutPassphrase, EraseTakeInitialized, EraseOpenMaster, EraseWriteMaster, EraseLoadKeys, EraseDiscardStore,
       EraseInstallStore, EraseSwapStore, EraseEndInitialize DEF Initialize
  <1>3. ASSUME NEW s \in Store, Operate(s) PROVE Apart' /\ Staged' /\ AllYoung'
    BY <1>3, EraseStoreKey, EraseDeleteKey, EraseCleanupExpiredKeys, EraseFailRotation, EraseEndSave,
       EraseRotateMasterKey, EraseBeginSeal, EraseEndSeal DEF Operate
  <1>4. CASE ResetIdentity
    <2>1. CASE BeginReset \/ UnsetInitialized \/ RemoveFile
      BY <2>1, EraseBeginReset, EraseUnsetInitialized, EraseRemoveFile
    <2>2. ASSUME NEW s \in Store, DropStore(s) \/ EndDrop(s) PROVE Apart' /\ Staged' /\ AllYoung'
      BY <2>2, EraseDropStore, EraseEndDrop
    <2> QED
      BY <1>4, <2>1, <2>2 DEF ResetIdentity
  <1>5. CASE UNCHANGED vars
    <2>1. UNCHANGED <<files, store, op, reset, opening, erased>> /\ draws' = draws /\ pc' = pc
      BY <1>5 DEF vars, files
    <2>2. Apart'
      BY <2>1 DEF EInv, Apart
    <2> QED
      BY <2>1, <2>2, EraseQuiet
  <1> QED
    BY <1>2, <1>3, <1>4, <1>5, EraseFlushPrefs, EraseDie DEF Next

\* After nativeResetIdentity returned, no master key and no entry from before is on
\* disk or in memory, whatever the number of coroutines that initialise the core
\* and wherever the process dies, provided no initialisation overlaps the reset.
THEOREM ResetForgets == ASSUME ~Overlap PROVE Spec => []ResetErases
  <1>1. EInv /\ [Next]_vars => EInv'
    BY EraseStep
  <1>2. Spec => []EInv
    BY <1>1, EraseInit, PTL DEF Spec
  <1>3. EInv => ResetErases
    BY DEF EInv, AllYoung, Young, ResetErases
  <1> QED
    BY <1>2, <1>3, PTL

--------------------------------------------------------------------------------
(* The passphrase *)

LEMMA PassInit == Init => OnePassphrase
  BY DEF Init, OnePassphrase, NoSlot, None

\* Steps that neither read nor write the preferences
LEMMA PassQuiet ==
    ASSUME EInv, OnePassphrase, UNCHANGED <<alias, prefs, mine>>,
           \A d \in Caller : \/ pc'[d] = pc[d]
                             \/ pc'[d] \in {"idle", "read", "done"}
                             \/ pc'[d] = "opening" /\ pc[d] = "native"
    PROVE  OnePassphrase'
  BY DEF EInv, TInv, TypeOK, OnePassphrase

LEMMA PassReadPassphrase ==
    ASSUME EInv, OnePassphrase, NEW c \in Caller, ReadPassphrase(c) PROVE OnePassphrase'
  <1>1. pc'[c] \in {"native", "idle", "load"} /\ UNCHANGED <<alias, prefs>>
    BY DEF EInv, TInv, TypeOK, ReadPassphrase, provider
  <1>2. pc'[c] = "native" => mine'[c] = prefs.mem /\ prefs.mem.pass # None
    BY DEF EInv, TInv, TypeOK, ReadPassphrase
  <1>3. \A d \in Caller \ {c} : pc'[d] = pc[d] /\ mine'[d] = mine[d]
    BY DEF EInv, TInv, TypeOK, ReadPassphrase
  <1> QED
    BY <1>1, <1>2, <1>3 DEF OnePassphrase

LEMMA PassLoadMasterKey ==
    ASSUME EInv, OnePassphrase, NEW c \in Caller, LoadMasterKey(c) PROVE OnePassphrase'
  <1>1. UNCHANGED <<alias, prefs>>
    BY DEF LoadMasterKey, provider
  <1>2. /\ pc'[c] \in {"generate", "put"}
        /\ pc'[c] = "put" => alias # None
        /\ mine'[c].alias = alias
    BY DEF EInv, TInv, TypeOK, Slot, LoadMasterKey
  <1>3. \A d \in Caller \ {c} : pc'[d] = pc[d] /\ mine'[d] = mine[d]
    BY DEF EInv, TInv, TypeOK, LoadMasterKey
  <1> QED
    BY <1>1, <1>2, <1>3 DEF OnePassphrase

\* While there is no alias, nobody is past the generation of one
LEMMA PassGenerateMasterKey ==
    ASSUME EInv, OnePassphrase, NEW c \in Caller, GenerateMasterKey(c), ~raced' PROVE OnePassphrase'
  <1>1. alias = None /\ prefs' = prefs /\ prefs.mem.pass = None
    BY DEF OnePassphrase, GenerateMasterKey
  <1>2. pc'[c] = "put" /\ mine'[c].alias = alias' /\ alias' # None
    BY Drawn DEF EInv, TInv, TypeOK, Slot, GenerateMasterKey
  <1>3. \A d \in Caller \ {c} : pc'[d] = pc[d]
    BY DEF EInv, TInv, TypeOK, GenerateMasterKey
  <1>4. \A d \in Caller \ {c} : pc'[d] \notin {"put", "native", "opening"}
    BY <1>1, <1>3 DEF OnePassphrase
  <1> QED
    BY <1>1, <1>2, <1>4 DEF OnePassphrase

\* While there is no passphrase, nobody works with one
LEMMA PassPutPassphrase ==
    ASSUME EInv, OnePassphrase, NEW c \in Caller, PutPassphrase(c), ~raced' PROVE OnePassphrase'
  <1>1. /\ prefs.mem = NoSlot /\ prefs.mem.pass = None /\ prefs.disk = NoSlot
        /\ mine[c].alias = alias /\ alias # None /\ alias' = alias
    BY DEF OnePassphrase, PutPassphrase
  <1>2. prefs'.mem = mine'[c] /\ prefs'.disk = prefs.disk
    BY DEF EInv, TInv, TypeOK, PutPassphrase
  <1>3. mine'[c].pass # None /\ mine'[c].alias = alias
    BY <1>1, Drawn DEF EInv, TInv, TypeOK, Slot, PutPassphrase
  <1>4. pc'[c] = "native" /\ \A d \in Caller \ {c} : pc'[d] = pc[d] /\ mine'[d] = mine[d]
    BY DEF EInv, TInv, TypeOK, PutPassphrase
  <1>5. \A d \in Caller \ {c} : /\ pc'[d] \notin {"native", "opening"}
                               /\ pc'[d] = "put" => mine'[d].alias = alias
    BY <1>1, <1>4 DEF OnePassphrase
  <1> QED
    BY <1>1, <1>2, <1>3, <1>4, <1>5 DEF OnePassphrase

LEMMA PassFlushPrefs == ASSUME EInv, OnePassphrase, FlushPrefs PROVE OnePassphrase'
  <1>1. prefs'.mem = prefs.mem /\ prefs'.disk = prefs.mem
    BY DEF EInv, TInv, TypeOK, FlushPrefs
  <1> QED
    BY <1>1 DEF OnePassphrase, FlushPrefs, calls

LEMMA PassDie == ASSUME EInv, OnePassphrase, Die PROVE OnePassphrase'
  <1>1. prefs'.mem = prefs.disk /\ prefs'.disk = prefs.disk
    BY DEF EInv, TInv, TypeOK, Die
  <1>2. prefs.disk.pass = None => prefs.disk = NoSlot
    BY DEF OnePassphrase
  <1>3. prefs.disk.pass # None => prefs.disk.alias = alias
    BY DEF OnePassphrase, NoSlot
  <1>4. \A d \in Caller : pc'[d] = "idle"
    BY DEF Die
  <1> QED
    BY <1>1, <1>2, <1>3, <1>4 DEF OnePassphrase, Die

LEMMA PassInitialize ==
    ASSUME EInv, OnePassphrase, NEW c \in Caller, Initialize(c), ~raced' PROVE OnePassphrase'
  <1>1. CASE BeginInitialize(c) \/ EndInitialize(c)
    BY <1>1, PassQuiet DEF EInv, TInv, TypeOK, BeginInitialize, EndInitialize, provider
  <1>2. CASE TakeInitialized(c)
    BY <1>2, PassQuiet DEF EInv, TInv, TypeOK, TakeInitialized, provider
  <1>3. CASE OpenMaster(c)
    BY <1>3, PassQuiet DEF EInv, TInv, TypeOK, OpenMaster, FailOpening, provider
  <1>4. CASE LoadKeys(c)
    BY <1>4, PassQuiet DEF LoadKeys, provider, calls
  <1>5. CASE WriteMaster(c)
    BY <1>5, PassQuiet DEF WriteMaster, provider, calls
  <1>6. CASE InstallStore(c) \/ SwapStore(c)
    <2>1. AfterInstall => \A d \in Caller : pc'[d] = pc[d] \/ pc'[d] = "done"
      BY DEF AfterInstall
    <2> QED
      BY <1>6, <2>1, PassQuiet DEF InstallStore, SwapStore, provider
  <1>7. CASE DiscardStore(c)
    BY <1>7, PassQuiet DEF EInv, TInv, TypeOK, DiscardStore, FailOpening, provider
  <1> QED
    BY <1>1, <1>2, <1>3, <1>4, <1>5, <1>6, <1>7, PassReadPassphrase, PassLoadMasterKey, PassGenerateMasterKey,
       PassPutPassphrase DEF Initialize

LEMMA PassStep == ASSUME EInv, OnePassphrase, [Next]_vars, ~raced' PROVE OnePassphrase'
  <1>1. ASSUME NEW s \in Store, Operate(s) PROVE UNCHANGED <<alias, prefs, mine, pc>>
    BY <1>1 DEF Operate, StoreKey, DeleteKey, CleanupExpiredKeys, FailRotation, EndSave, RotateMasterKey,
       BeginSeal, EndSeal, provider, calls
  <1>2. CASE ResetIdentity
    <2>1. UNCHANGED <<alias, prefs, mine, pc>>
      BY <1>2 DEF ResetIdentity, BeginReset, UnsetInitialized, RemoveFile, DropStore, EndDrop, provider, calls
    <2> QED
      BY <2>1, PassQuiet
  <1>3. CASE UNCHANGED vars
    BY <1>3, PassQuiet DEF vars
  <1> QED
    BY <1>1, <1>2, <1>3, PassQuiet, PassInitialize, PassFlushPrefs, PassDie DEF Next

--------------------------------------------------------------------------------
(* What survives *)

LEMMA KeepInit == Init => KeepInv
  <1> SUFFICES ASSUME Init PROVE KeepInv
    OBVIOUS
  <1>1. opening = NotOpening /\ opening.by = {} /\ opening.step = "open"
    BY DEF Init, NotOpening
  <1>2. \A s \in Store : ~store[s].open /\ op[s] = "idle"
    BY DEF Init, Closed
  <1>3. InTurn
    BY <1>1, <1>2 DEF Init, InTurn
  <1>4. FitsOpening /\ \A s \in Store : FitsStore(s)
    BY <1>1, <1>2 DEF FitsOpening, FitsStore
  <1>5. AllKept
    <2> SUFFICES ASSUME NEW s \in Store, NEW n \in kept[s] PROVE Kept(s, n)
      BY DEF AllKept
    <2>1. /\ db = [t \in Store |-> DbOf([m \in Name |-> IF t = "keys" THEN 1 ELSE 2])]
          /\ master = [t \in Store |-> MasterOf(IF t = "keys" THEN 1 ELSE 2, Legacy)]
          /\ n \in Name
      BY DEF Init
    <2>2. /\ db[s].state = "ok" /\ db[s].keys[n] = IF s = "keys" THEN 1 ELSE 2
          /\ master[s].state = "ok" /\ master[s].wrap = Legacy /\ master[s].mk = IF s = "keys" THEN 1 ELSE 2
      BY <2>1 DEF DbOf, MasterOf
    <2> QED
      BY <1>1, <1>2, <2>2 DEF Kept
  <1> QED
    BY <1>3, <1>4, <1>5 DEF KeepInv

\* The holder of INITIALIZED opens the stores alone: nobody uses one, nobody
\* resets, and it works with the passphrase of the preferences.
LEMMA OpensAlone ==
    ASSUME KInv, NEW c \in Caller, opening.by = {c}
    PROVE  /\ reset.step = "idle" /\ ~isReady /\ ~initialized
           /\ pc[c] = "opening" /\ mine[c] = prefs.mem /\ prefs.mem.pass # None
           /\ opening \in Opening /\ opening.at \in Store
           /\ \A s \in Store : op[s] \in {"idle", "swap"}
  <1>1. reset.step = "idle" /\ pc[c] = "opening"
    BY NoResetBeside DEF KInv, EInv, Apart
  <1>2. ~isReady /\ ~initialized
    BY <1>1 DEF KInv, KeepInv, InTurn
  <1>3. \A s \in Store : op[s] \in {"idle", "swap"}
    BY <1>1, <1>2 DEF KInv, KeepInv, InTurn, EInv, TInv, TypeOK, Staged, Store
  <1>4. opening \in Opening /\ opening.at \in Store
    BY DEF KInv, EInv, TInv, TypeOK, Opening
  <1> QED
    BY <1>1, <1>2, <1>3, <1>4 DEF KInv, OnePassphrase

\* A store that is used, or being reset, is not being opened
LEMMA NotOpeningInUse ==
    ASSUME KInv, isReady \/ reset.step # "idle"
    PROVE  opening = NotOpening /\ opening.by = {} /\ opening.step = "open" /\ \A s \in Store : op[s] # "swap"
  <1>1. opening = NotOpening
    BY NotOpeningInReset DEF KInv, KeepInv, InTurn, EInv, Apart
  <1> QED
    BY <1>1 DEF NotOpening, KInv, KeepInv, InTurn

\* Kept and FitsStore are about one store only
LEMMA KeptElsewhere ==
    ASSUME KInv, NEW t \in Store, UNCHANGED <<opening, prefs>>, reset'.step = "idle" => reset.step = "idle",
           store'[t] = store[t], op'[t] = op[t], db'[t] = db[t], master'[t] = master[t], kept'[t] \subseteq kept[t]
    PROVE  FitsStore(t)' /\ (reset'.step = "idle" => \A n \in kept'[t] : Kept(t, n)')
  <1>1. FitsStore(t)'
    BY DEF KInv, KeepInv, FitsStore
  <1>2. ASSUME reset'.step = "idle", NEW n \in kept'[t] PROVE Kept(t, n)'
    <2>1. Kept(t, n)
      BY <1>2 DEF KInv, KeepInv, AllKept
    <2> QED
      BY <2>1 DEF Kept
  <1> QED
    BY <1>1, <1>2

\* Steps of initialize before and after the stores are opened
LEMMA KeepQuiet ==
    ASSUME KInv, UNCHANGED <<files, store, op, opening, reset, kept, initialized>>,
           prefs'.mem.pass = prefs.mem.pass, isReady' => isReady \/ initialized,
           reset.step # "idle" => isReady' = isReady, isReady => isReady',
           \A d \in Caller : pc'[d] = "done" => pc[d] = "done"
    PROVE  KeepInv'
  <1>1. InTurn'
    BY DEF KInv, KeepInv, InTurn
  <1>2. FitsOpening' /\ \A s \in Store : FitsStore(s)'
    BY DEF KInv, KeepInv, FitsStore, FitsOpening, files
  <1>3. AllKept'
    BY DEF KInv, KeepInv, AllKept, Kept, files
  <1> QED
    BY <1>1, <1>2, <1>3 DEF KeepInv

LEMMA KeepBeginInitialize == ASSUME KInv, NEW c \in Caller, BeginInitialize(c) PROVE KeepInv'
  BY KeepQuiet DEF KInv, EInv, TInv, TypeOK, BeginInitialize, provider

LEMMA KeepReadPassphrase == ASSUME KInv, NEW c \in Caller, ReadPassphrase(c) PROVE KeepInv'
  BY KeepQuiet DEF KInv, EInv, TInv, TypeOK, ReadPassphrase, provider

LEMMA KeepLoadMasterKey == ASSUME KInv, NEW c \in Caller, LoadMasterKey(c) PROVE KeepInv'
  BY KeepQuiet DEF KInv, EInv, TInv, TypeOK, LoadMasterKey, provider

LEMMA KeepGenerateMasterKey == ASSUME KInv, NEW c \in Caller, GenerateMasterKey(c) PROVE KeepInv'
  BY KeepQuiet DEF KInv, EInv, TInv, TypeOK, GenerateMasterKey

LEMMA KeepEndInitialize == ASSUME KInv, NEW c \in Caller, EndInitialize(c) PROVE KeepInv'
  <1>1. initialized /\ reset.step = "idle"
    BY NoResetBeside DEF KInv, KeepInv, InTurn, EndInitialize
  <1> QED
    BY <1>1, KeepQuiet DEF KInv, EInv, TInv, TypeOK, EndInitialize, provider

LEMMA KeepFlushPrefs == ASSUME KInv, FlushPrefs PROVE KeepInv'
  <1>1. prefs'.mem = prefs.mem
    BY DEF KInv, EInv, TInv, TypeOK, FlushPrefs
  <1> QED
    BY <1>1, KeepQuiet DEF FlushPrefs, calls

\* A new passphrase is drawn when there is none: no store is open then, and what
\* is on disk is wrapped under the legacy passphrase.
LEMMA KeepPutPassphrase == ASSUME KInv, NEW c \in Caller, PutPassphrase(c), ~raced' PROVE KeepInv'
  <1>1. prefs.mem.pass = None
    BY DEF PutPassphrase
  <1>2. \A s \in Store : ~store[s].open /\ op[s] = "idle"
    BY <1>1 DEF KInv, KeepInv, FitsStore, EInv, TInv, KeysDrawn
  <1>3. opening.by = {}
    BY <1>1 DEF KInv, OnePassphrase, EInv, TInv, TypeOK, Opening, Apart
  <1>4. opening = NotOpening /\ opening.step = "open"
    BY <1>3 DEF KInv, EInv, Apart, NotOpening
  <1>5. InTurn'
    BY <1>2 DEF KInv, KeepInv, InTurn, EInv, TInv, TypeOK, PutPassphrase
  <1>6. FitsOpening' /\ \A s \in Store : FitsStore(s)'
    BY <1>2, <1>4 DEF FitsStore, FitsOpening, PutPassphrase, files
  <1>7. AllKept'
    <2> SUFFICES ASSUME reset'.step = "idle", NEW s \in Store, NEW n \in kept'[s] PROVE Kept(s, n)'
      BY DEF AllKept
    <2>1. Kept(s, n)
      BY DEF KInv, KeepInv, AllKept, PutPassphrase
    <2> QED
      BY <1>1, <1>2, <1>4, <2>1 DEF Kept, PutPassphrase, files, Legacy, None
  <1> QED
    BY <1>5, <1>6, <1>7 DEF KeepInv

LEMMA KeepTakeInitialized == ASSUME KInv, NEW c \in Caller, TakeInitialized(c) PROVE KeepInv'
  <1>1. opening = NotOpening /\ opening.step = "open"
    BY DEF KInv, EInv, Apart, Unlocked, TakeInitialized, NotOpening
  <1>2. opening'.at = opening.at /\ opening'.step = "open"
    BY <1>1 DEF TakeInitialized, NotOpening
  <1>3. InTurn'
    BY <1>1, <1>2 DEF KInv, KeepInv, InTurn, EInv, TInv, TypeOK, TakeInitialized
  <1>4. FitsOpening' /\ \A s \in Store : FitsStore(s)'
    BY <1>2 DEF KInv, KeepInv, FitsStore, FitsOpening, TakeInitialized, provider, files
  <1>5. AllKept'
    BY <1>1, <1>2 DEF KInv, KeepInv, AllKept, Kept, TakeInitialized, provider, files
  <1> QED
    BY <1>3, <1>4, <1>5 DEF KeepInv

LEMMA KeepFailOpening ==
    ASSUME KInv, NEW c \in Caller, opening.by = {c}, FailOpening(c), opening.step = "open",
           UNCHANGED <<provider, isReady, initialized, db, store, op, reset, kept>>
    PROVE  KeepInv'
  <1>1. reset.step = "idle" /\ ~isReady /\ ~initialized
    BY OpensAlone
  <1>2. opening'.by = {} /\ opening'.step = "open" /\ master' = master
    BY DEF FailOpening, NotOpening
  <1>3. InTurn'
    BY <1>1, <1>2 DEF KInv, KeepInv, InTurn, EInv, TInv, TypeOK, FailOpening
  <1>4. FitsOpening' /\ \A s \in Store : FitsStore(s)'
    BY <1>2 DEF KInv, KeepInv, FitsStore, FitsOpening, provider
  <1>5. AllKept'
    BY <1>1, <1>2 DEF KInv, KeepInv, AllKept, Kept, provider
  <1> QED
    BY <1>3, <1>4, <1>5 DEF KeepInv

\* A step of the opening of a store that leaves the store itself and the file of
\* entries alone
LEMMA KeepOpening ==
    ASSUME KInv, NEW c \in Caller, opening.by = {c}, opening'.by = {c}, opening'.at = opening.at,
           opening.step # "swap", opening'.step # "swap", FitsOpening',
           UNCHANGED <<provider, pc, isReady, initialized, db, store, op, reset, kept>>,
           \A t \in Store \ {opening.at} : master'[t] = master[t],
           FitsStore(opening.at)', \A n \in kept[opening.at] : Kept(opening.at, n)'
    PROVE  KeepInv'
  <1>1. reset.step = "idle" /\ opening.at \in Store
    BY OpensAlone
  <1>2. InTurn'
    BY DEF KInv, KeepInv, InTurn
  <1>3. ASSUME NEW t \in Store, t # opening.at
        PROVE  FitsStore(t)' /\ \A n \in kept[t] : Kept(t, n)'
    BY <1>1, <1>3 DEF KInv, KeepInv, FitsStore, AllKept, Kept, provider
  <1>4. \A t \in Store : FitsStore(t)' /\ \A n \in kept[t] : Kept(t, n)'
    BY <1>3
  <1>5. AllKept'
    BY <1>4 DEF AllKept
  <1> QED
    BY <1>2, <1>4, <1>5 DEF KeepInv

LEMMA KeepOpenMaster == ASSUME KInv, NEW c \in Caller, OpenMaster(c) PROVE KeepInv'
  <1> DEFINE s == opening.at
  <1>1. opening.by = {c} /\ opening.step = "open"
    BY DEF OpenMaster
  <1>2. /\ reset.step = "idle" /\ mine[c] = prefs.mem /\ prefs.mem.pass # None
        /\ opening \in Opening /\ s \in Store /\ op[s] = "idle"
    BY <1>1, OpensAlone DEF KInv, KeepInv, InTurn
  <1>3. CASE FailOpening(c)
    BY <1>1, <1>3, KeepFailOpening DEF OpenMaster
  <1>4. master \in [Store -> MasterFile]
    BY DEF KInv, EInv, TInv, TypeOK
  <1>5. UNCHANGED <<provider, isReady, initialized, db, store, op, reset, kept>>
    BY DEF OpenMaster
  <1>6. ASSUME NEW m, opening' = [opening EXCEPT !.step = "write", !.mk = m],
               master' = [master EXCEPT ![s] = TornMaster], pc' = pc,
               ~store[s].open, \A n \in kept[s] : db[s].state = "ok" /\ db[s].keys[n] = m
        PROVE  KeepInv'
    <2>1. opening'.by = {c} /\ opening'.at = opening.at /\ opening'.step = "write" /\ opening'.mk = m
      BY <1>1, <1>2, <1>6 DEF Opening
    <2>2. master'[s].state = "torn" /\ \A t \in Store \ {s} : master'[t] = master[t]
      BY <1>2, <1>4, <1>6 DEF TornMaster
    <2>3. FitsOpening'
      BY <2>1, <2>2 DEF FitsOpening
    <2>4. FitsStore(opening.at)'
      BY <1>2, <1>5, <1>6 DEF FitsStore
    <2>5. \A n \in kept[opening.at] : Kept(opening.at, n)'
      BY <1>2, <1>5, <1>6, <2>1 DEF Kept
    <2> QED
      BY <1>1, <1>5, <1>6, <2>1, <2>2, <2>3, <2>4, <2>5, KeepOpening
  <1>7. ASSUME NEW n \in kept[s]
        PROVE  /\ master[s].state = "ok" /\ db[s].state = "ok" /\ db[s].keys[n] = master[s].mk
    BY <1>1, <1>2 DEF KInv, KeepInv, AllKept, Kept
  <1>8. store[s].open => master[s].state = "ok" /\ master[s].wrap # Legacy
    BY <1>2 DEF KInv, KeepInv, FitsStore, Legacy, None
  <1>9. CASE /\ master[s].state = "absent"
             /\ master' = [master EXCEPT ![s] = TornMaster]
             /\ opening' = [opening EXCEPT !.step = "write", !.mk = draws']
             /\ UNCHANGED pc
    BY <1>6, <1>7, <1>8, <1>9
  <1>10. CASE /\ master[s].state = "ok" /\ master[s].wrap = Legacy
              /\ master' = [master EXCEPT ![s] = TornMaster]
              /\ opening' = [opening EXCEPT !.step = "write", !.mk = master[s].mk]
              /\ UNCHANGED pc
    BY <1>6, <1>7, <1>8, <1>10
  <1>11. CASE /\ master[s].state = "ok" /\ master[s].wrap = mine[c].pass
              /\ opening' = [opening EXCEPT !.step = "load", !.mk = master[s].mk]
              /\ UNCHANGED <<master, draws, pc>>
    <2>1. opening'.by = {c} /\ opening'.at = opening.at /\ opening'.step = "load" /\ opening'.mk = master[s].mk
      BY <1>1, <1>2, <1>11 DEF Opening
    <2>2. FitsOpening'
      BY <1>2, <1>5, <1>11, <2>1 DEF FitsOpening, provider
    <2>3. FitsStore(opening.at)'
      BY <1>2, <1>5, <1>11 DEF KInv, KeepInv, FitsStore, provider
    <2>4. \A n \in kept[opening.at] : Kept(opening.at, n)'
      BY <1>1, <1>2, <1>5, <1>11, <2>1 DEF KInv, KeepInv, AllKept, Kept, provider
    <2> QED
      BY <1>1, <1>5, <1>11, <2>1, <2>2, <2>3, <2>4, KeepOpening
  <1> QED
    BY <1>3, <1>9, <1>10, <1>11 DEF OpenMaster

LEMMA KeepWriteMaster == ASSUME KInv, NEW c \in Caller, WriteMaster(c) PROVE KeepInv'
  <1> DEFINE s == opening.at
  <1>1. opening.by = {c} /\ opening.step = "write"
    BY DEF WriteMaster
  <1>2. /\ reset.step = "idle" /\ mine[c] = prefs.mem
        /\ opening \in Opening /\ s \in Store /\ op[s] = "idle" /\ master[s].state = "torn"
    BY <1>1, OpensAlone DEF KInv, KeepInv, InTurn, FitsOpening
  <1>3. ~store[s].open
    BY <1>2 DEF KInv, KeepInv, FitsStore
  <1>4. UNCHANGED <<provider, pc, isReady, initialized, db, store, op, reset, kept>>
    BY DEF WriteMaster, calls
  <1>5. opening'.by = {c} /\ opening'.at = opening.at /\ opening'.step = "load" /\ opening'.mk = opening.mk
    BY <1>1, <1>2 DEF Opening, WriteMaster
  <1>6. /\ master'[s].state = "ok" /\ master'[s].mk = opening.mk /\ master'[s].wrap = prefs.mem.pass
        /\ \A t \in Store \ {s} : master'[t] = master[t]
    BY <1>2 DEF KInv, EInv, TInv, TypeOK, WriteMaster, Filled, MasterOf
  <1>7. FitsOpening'
    BY <1>4, <1>5, <1>6 DEF FitsOpening, provider
  <1>8. FitsStore(opening.at)'
    BY <1>2, <1>3, <1>4, <1>5 DEF FitsStore
  <1>9. ASSUME NEW n \in kept[opening.at] PROVE Kept(opening.at, n)'
    <2>1. db[s].state = "ok" /\ db[s].keys[n] = opening.mk
      BY <1>1, <1>2 DEF KInv, KeepInv, AllKept, Kept
    <2> QED
      BY <1>2, <1>3, <1>4, <1>5, <1>6, <2>1 DEF Kept, provider
  <1> QED
    BY <1>1, <1>4, <1>5, <1>6, <1>7, <1>8, <1>9, KeepOpening

\* A torn file has no key that has to be kept
LEMMA KeepLoadKeys == ASSUME KInv, NEW c \in Caller, LoadKeys(c) PROVE KeepInv'
  <1> DEFINE s == opening.at
  <1>1. opening.by = {c} /\ opening.step = "load"
    BY DEF LoadKeys
  <1>2. reset.step = "idle" /\ opening \in Opening /\ s \in Store /\ op[s] = "idle" /\ master[s].mk = opening.mk
    BY <1>1, OpensAlone DEF KInv, KeepInv, InTurn, FitsOpening
  <1>3. UNCHANGED <<provider, pc, isReady, initialized, store, op, reset, kept, master>>
    BY DEF LoadKeys, calls
  <1>4. CASE opening' = [opening EXCEPT !.step = "discard"] /\ db[s].state = "torn"
    <2>1. /\ opening'.by = {c} /\ opening'.at = opening.at /\ opening'.step = "discard"
          /\ opening'.mk = opening.mk
      BY <1>1, <1>2, <1>4 DEF Opening
    <2>2. kept[s] = {}
      BY <1>1, <1>2, <1>4 DEF KInv, KeepInv, AllKept, Kept
    <2>3. \A t \in Store \ {s} : db'[t] = db[t]
      BY DEF LoadKeys, KInv, EInv, TInv, TypeOK
    <2>4. InTurn'
      BY <1>1, <1>3, <2>1 DEF KInv, KeepInv, InTurn
    <2>5. FitsOpening'
      BY <1>1, <1>3, <2>1 DEF KInv, KeepInv, FitsOpening, provider
    <2>6. \A t \in Store : FitsStore(t)'
      BY <1>2, <1>3, <2>3 DEF KInv, KeepInv, FitsStore, provider
    <2>7. ASSUME NEW t \in Store, NEW n \in kept'[t] PROVE Kept(t, n)'
      <3>1. t # s /\ Kept(t, n) /\ db'[t] = db[t]
        BY <1>2, <1>3, <2>2, <2>3, <2>7 DEF KInv, KeepInv, AllKept
      <3> QED
        BY <1>3, <2>1, <3>1 DEF Kept, provider
    <2>8. AllKept'
      BY <2>7 DEF AllKept
    <2> QED
      BY <2>4, <2>5, <2>6, <2>8 DEF KeepInv
  <1>5. CASE opening' = [opening EXCEPT !.step = "install", !.keys = db[s].keys] /\ UNCHANGED db
    <2>1. /\ opening'.by = {c} /\ opening'.at = opening.at /\ opening'.step = "install"
          /\ opening'.mk = opening.mk /\ opening'.keys = db[s].keys
      BY <1>1, <1>2, <1>5 DEF Opening
    <2>2. FitsOpening'
      BY <1>1, <1>3, <2>1 DEF KInv, KeepInv, FitsOpening, provider
    <2>3. FitsStore(opening.at)'
      BY <1>2, <1>3, <1>5, <2>1 DEF KInv, KeepInv, FitsStore, provider
    <2>4. \A n \in kept[opening.at] : Kept(opening.at, n)'
      BY <1>1, <1>2, <1>3, <1>5, <2>1 DEF KInv, KeepInv, AllKept, Kept, provider
    <2> QED
      BY <1>1, <1>3, <1>5, <2>1, <2>2, <2>3, <2>4, KeepOpening
  <1> QED
    BY <1>4, <1>5 DEF LoadKeys

\* The store that new() drops overwrites a file that keeps nothing
LEMMA KeepDiscardStore == ASSUME KInv, NEW c \in Caller, DiscardStore(c) PROVE KeepInv'
  <1> DEFINE s == opening.at
  <1>1. opening.by = {c} /\ opening.step = "discard"
    BY DEF DiscardStore
  <1>2. reset.step = "idle" /\ s \in Store /\ op[s] = "idle" /\ ~isReady /\ ~initialized
    BY <1>1, OpensAlone DEF KInv, KeepInv, InTurn
  <1>3. UNCHANGED <<provider, isReady, initialized, store, op, reset, kept, master>>
    BY DEF DiscardStore, FailOpening
  <1>4. opening'.by = {} /\ opening'.step = "open"
    BY DEF DiscardStore, FailOpening, NotOpening
  <1>5. kept[s] = {}
    BY <1>1, <1>2 DEF KInv, KeepInv, AllKept, Kept
  <1>6. \A t \in Store \ {s} : db'[t] = db[t]
    BY DEF DiscardStore, KInv, EInv, TInv, TypeOK
  <1>7. \A d \in Caller : pc'[d] = "done" => pc[d] = "done"
    BY DEF DiscardStore, FailOpening, KInv, EInv, TInv, TypeOK
  <1>8. InTurn'
    BY <1>1, <1>2, <1>3, <1>4, <1>7 DEF KInv, KeepInv, InTurn
  <1>9. FitsOpening' /\ \A t \in Store : FitsStore(t)'
    BY <1>2, <1>3, <1>4, <1>6 DEF KInv, KeepInv, FitsStore, FitsOpening, provider
  <1>10. ASSUME NEW t \in Store, NEW n \in kept'[t] PROVE Kept(t, n)'
    <2>1. t # s /\ Kept(t, n) /\ db'[t] = db[t]
      BY <1>2, <1>3, <1>5, <1>6, <1>10 DEF KInv, KeepInv, AllKept
    <2> QED
      BY <1>3, <1>4, <2>1 DEF Kept, provider
  <1>11. AllKept'
    BY <1>10 DEF AllKept
  <1> QED
    BY <1>8, <1>9, <1>11 DEF KeepInv

\* Once a store is in place, the other one is opened or both are in use
LEMMA KeepAfterInstall ==
    ASSUME KInv, NEW c \in Caller, opening.by = {c}, AfterInstall, UNCHANGED <<isReady, reset>>,
           \A s \in Store : op'[s] = "idle"
    PROVE  InTurn' /\ FitsOpening' /\ opening'.step = "open"
  <1>1. reset.step = "idle" /\ ~isReady /\ ~initialized
    BY OpensAlone
  <1>2. CASE opening.at = "keys"
    <2>1. /\ opening' = [by |-> {c}, at |-> "groups", step |-> "open", mk |-> None, keys |-> NoEntries]
          /\ UNCHANGED <<initialized, pc>>
      BY <1>2 DEF AfterInstall, NotOpening
    <2> QED
      BY <1>1, <2>1 DEF KInv, KeepInv, InTurn, FitsOpening
  <1>3. CASE opening.at # "keys"
    <2>1. opening' = NotOpening /\ initialized'
      BY <1>3 DEF AfterInstall
    <2> QED
      BY <1>1, <2>1 DEF InTurn, FitsOpening, NotOpening
  <1> QED
    BY <1>2, <1>3

LEMMA KeepInstallStore == ASSUME KInv, NEW c \in Caller, InstallStore(c) PROVE KeepInv'
  <1>1. opening.by = {c} /\ opening.step = "install"
    BY DEF InstallStore
  <1>2. /\ reset.step = "idle" /\ mine[c] = prefs.mem /\ prefs.mem.pass # None
        /\ opening \in Opening /\ opening.at \in Store /\ \A t \in Store : op[t] = "idle"
    BY <1>1, OpensAlone DEF KInv, KeepInv, InTurn
  <1>3. PICK s \in Store : s = opening.at
    BY <1>2
  <1>4. master[s].state = "ok" /\ master[s].mk = opening.mk /\ master[s].wrap = prefs.mem.pass
    BY <1>1, <1>3 DEF KInv, KeepInv, FitsOpening
  <1>5. UNCHANGED <<provider, isReady, master, reset, kept>>
    BY DEF InstallStore
  <1>6. CASE ~store[s].open
    <2>1. UNCHANGED <<db, op>> /\ AfterInstall /\ store' = [store EXCEPT ![s] = NewStore(c)]
      BY <1>3, <1>6 DEF InstallStore
    <2>2. InTurn' /\ FitsOpening' /\ opening'.step = "open"
      BY <1>1, <1>2, <1>5, <2>1, KeepAfterInstall
    <2>3. /\ store'[s].open /\ store'[s].mk = opening.mk /\ store'[s].wrap = prefs.mem.pass
          /\ store'[s].keys = opening.keys
          /\ \A t \in Store \ {s} : store'[t] = store[t]
      BY <1>2, <2>1 DEF KInv, EInv, TInv, TypeOK, NewStore
    <2>4. FitsStore(s)'
      BY <1>2, <1>4, <1>5, <2>1, <2>3 DEF FitsStore, provider
    <2>5. \A t \in Store \ {s} : FitsStore(t)'
      BY <1>5, <2>1, <2>3 DEF KInv, KeepInv, FitsStore, provider
    <2>6. ASSUME NEW t \in Store, NEW n \in kept[t] PROVE Kept(t, n)'
      <3>1. Kept(t, n)
        BY <1>2 DEF KInv, KeepInv, AllKept
      <3> QED
        BY <1>1, <1>2, <1>3, <1>5, <2>1, <2>2, <2>3, <3>1 DEF Kept, provider
    <2>7. AllKept'
      BY <1>5, <2>6 DEF AllKept
    <2> QED
      BY <2>2, <2>4, <2>5, <2>7 DEF KeepInv
  <1>7. CASE store[s].open
    <2>1. /\ UNCHANGED <<store, initialized, pc>>
          /\ op'[s] = "swap" /\ db'[s] = EmptyDb
          /\ \A t \in Store \ {s} : op'[t] = op[t] /\ db'[t] = db[t]
      BY <1>3, <1>7 DEF InstallStore, KInv, EInv, TInv, TypeOK
    <2>2. /\ opening'.by = opening.by /\ opening'.at = s /\ opening'.step = "swap"
          /\ opening'.mk = opening.mk /\ opening'.keys = opening.keys
      BY <1>2, <1>3, <1>7 DEF InstallStore, Opening
    <2>3. InTurn'
      BY <1>2, <1>3, <1>5, <2>1, <2>2 DEF KInv, KeepInv, InTurn
    <2>4. FitsOpening'
      BY <1>4, <1>5, <2>2 DEF FitsOpening, provider
    <2>5. \A t \in Store : FitsStore(t)'
      BY <1>2, <1>5, <2>1 DEF KInv, KeepInv, FitsStore, provider, EmptyDb
    <2>6. ASSUME NEW t \in Store, NEW n \in kept[t] PROVE Kept(t, n)'
      <3>1. Kept(t, n)
        BY <1>2 DEF KInv, KeepInv, AllKept
      <3> QED
        BY <1>1, <1>2, <1>3, <1>5, <2>1, <2>2, <3>1 DEF Kept, provider
    <2>7. AllKept'
      BY <1>5, <2>6 DEF AllKept
    <2> QED
      BY <2>3, <2>4, <2>5, <2>7 DEF KeepInv
  <1> QED
    BY <1>6, <1>7

\* The store that is replaced saves itself over the file; what is kept has the
\* same entries in both.
LEMMA KeepSwapStore == ASSUME KInv, NEW c \in Caller, SwapStore(c) PROVE KeepInv'
  <1>1. opening.by = {c} /\ opening.step = "swap"
    BY DEF SwapStore
  <1>2. /\ reset.step = "idle" /\ mine[c] = prefs.mem /\ prefs.mem.pass # None /\ opening.at \in Store
        /\ \A t \in Store : op[t] = "swap" <=> t = opening.at
        /\ \A t \in Store : t # opening.at => op[t] = "idle"
    BY <1>1, OpensAlone DEF KInv, KeepInv, InTurn
  <1>3. PICK s \in Store : s = opening.at
    BY <1>2
  <1>4. /\ master[s].state = "ok" /\ master[s].mk = opening.mk /\ master[s].wrap = prefs.mem.pass
        /\ db[s].state = "empty" /\ op[s] = "swap" /\ store[s].open /\ store[s].mk = master[s].mk
    BY <1>1, <1>2, <1>3 DEF KInv, KeepInv, FitsOpening, FitsStore, EInv, TInv, KeysDrawn
  <1>5. UNCHANGED <<provider, isReady, master, reset, kept>>
    BY DEF SwapStore
  <1>6. /\ db'[s].state = "ok" /\ db'[s].keys = store[s].keys /\ op'[s] = "idle"
        /\ store'[s].open /\ store'[s].mk = opening.mk /\ store'[s].wrap = prefs.mem.pass
        /\ store'[s].keys = opening.keys
    BY <1>2, <1>3, <1>4 DEF KInv, EInv, TInv, TypeOK, SwapStore, NewStore, Filled, DbOf
  <1>7. \A t \in Store \ {s} : store'[t] = store[t] /\ db'[t] = db[t] /\ op'[t] = op[t]
    BY <1>3 DEF KInv, EInv, TInv, TypeOK, SwapStore
  <1>8. InTurn' /\ FitsOpening' /\ opening'.step = "open"
    BY <1>1, <1>2, <1>3, <1>5, <1>6, <1>7, KeepAfterInstall DEF SwapStore
  <1>9. FitsStore(s)'
    BY <1>2, <1>4, <1>5, <1>6 DEF FitsStore, provider
  <1>10. \A t \in Store \ {s} : FitsStore(t)'
    BY <1>5, <1>7 DEF KInv, KeepInv, FitsStore, provider
  <1>11. ASSUME NEW t \in Store, NEW n \in kept[t] PROVE Kept(t, n)'
    <2>1. Kept(t, n)
      BY <1>2 DEF KInv, KeepInv, AllKept
    <2> QED
      BY <1>1, <1>2, <1>3, <1>4, <1>5, <1>6, <1>7, <1>8, <2>1 DEF Kept, provider
  <1>12. AllKept'
    BY <1>5, <1>11 DEF AllKept
  <1> QED
    BY <1>8, <1>9, <1>10, <1>12 DEF KeepInv

(* The operations on a store in use *)

LEMMA KeepOperate ==
    ASSUME KInv, NEW s \in Store, isReady, UNCHANGED <<provider, calls, initialized, opening, reset>>,
           op'[s] \notin {"swap", "drop"}, FitsStore(s)',
           reset.step = "idle" => \A n \in kept'[s] : Kept(s, n)',
           \A t \in Store \ {s} : /\ store'[t] = store[t] /\ op'[t] = op[t] /\ db'[t] = db[t]
                                 /\ master'[t] = master[t] /\ kept'[t] = kept[t]
    PROVE  KeepInv'
  <1>1. opening = NotOpening /\ opening.step = "open" /\ \A t \in Store : op[t] # "swap"
    BY NotOpeningInUse
  <1>2. InTurn'
    BY <1>1 DEF KInv, KeepInv, InTurn, calls
  <1>3. FitsOpening'
    BY <1>1 DEF FitsOpening
  <1>4. \A t \in Store : FitsStore(t)' /\ (reset'.step = "idle" => \A n \in kept'[t] : Kept(t, n)')
    BY KeptElsewhere DEF provider
  <1>5. AllKept'
    BY <1>4 DEF AllKept
  <1> QED
    BY <1>2, <1>3, <1>4, <1>5 DEF KeepInv

\* What a store in use is like before an operation on it
LEMMA UsableFits ==
    ASSUME KInv, NEW s \in Store, Usable(s)
    PROVE  /\ isReady /\ op[s] = "idle" /\ store[s].open
           /\ store[s].wrap = prefs.mem.pass /\ prefs.mem.pass # None
           /\ master[s].state = "ok" /\ master[s].wrap = prefs.mem.pass /\ master[s].mk = store[s].mk
           /\ store[s] \in KeyStore /\ store[s].keys \in Entries
           /\ opening.step = "open"
           /\ reset.step = "idle" => \A n \in kept[s] : /\ n \in Name /\ store[s].keys[n] = store[s].mk
                                                      /\ db[s].state = "ok" /\ db[s].keys[n] = master[s].mk
  <1>1. isReady /\ op[s] = "idle" /\ store[s].open
    BY DEF Usable
  <1>2. opening.step = "open"
    BY <1>1, NotOpeningInUse
  <1>3. store[s] \in KeyStore /\ store[s].keys \in Entries /\ kept[s] \subseteq Name
    BY DEF KInv, EInv, TInv, TypeOK, KeyStore
  <1>4. FitsStore(s)
    BY DEF KInv, KeepInv
  <1>5. ASSUME reset.step = "idle", NEW n \in kept[s] PROVE Kept(s, n)
    BY <1>5 DEF KInv, KeepInv, AllKept
  <1>6. ASSUME reset.step = "idle", NEW n \in kept[s]
        PROVE  store[s].keys[n] = store[s].mk /\ db[s].state = "ok" /\ db[s].keys[n] = master[s].mk
    BY <1>1, <1>2, <1>5, <1>6 DEF Kept
  <1> QED
    BY <1>1, <1>2, <1>3, <1>4, <1>6 DEF FitsStore

LEMMA KeepStoreKey ==
    ASSUME KInv, NEW s \in Store, NEW m \in Name, StoreKey(s, m) PROVE KeepInv'
  <1>1. Usable(s) /\ UNCHANGED <<provider, calls, initialized, opening, reset, master>>
    BY DEF StoreKey
  <1>2. op'[s] = "save" /\ db'[s].state = "empty" /\ kept'[s] = kept[s] \cup {m}
    BY DEF StoreKey, BeginSave, EmptyDb, KInv, EInv, TInv, TypeOK
  <1>3. /\ store'[s].open /\ store'[s].wrap = store[s].wrap
        /\ store'[s].mk = store[s].mk /\ store'[s].keys[m] = store[s].mk
        /\ \A n \in Name \ {m} : store'[s].keys[n] = store[s].keys[n]
    BY <1>1, UsableFits DEF StoreKey, KInv, EInv, TInv, TypeOK, KeyStore, Entries
  <1>4. \A t \in Store \ {s} : /\ store'[t] = store[t] /\ op'[t] = op[t] /\ db'[t] = db[t]
                              /\ kept'[t] = kept[t]
    BY DEF StoreKey, BeginSave, KInv, EInv, TInv, TypeOK
  <1>5. FitsStore(s)'
    BY <1>1, <1>2, <1>3, UsableFits DEF FitsStore, provider
  <1>6. reset.step = "idle" => \A n \in kept'[s] : Kept(s, n)'
    BY <1>1, <1>2, <1>3, UsableFits DEF Kept
  <1> QED
    BY <1>1, <1>2, <1>4, <1>5, <1>6, UsableFits, KeepOperate

LEMMA KeepDeleteKey ==
    ASSUME KInv, NEW s \in Store, NEW m \in Name, DeleteKey(s, m) PROVE KeepInv'
  <1>1. Usable(s) /\ UNCHANGED <<provider, calls, initialized, opening, reset, master>>
    BY DEF DeleteKey
  <1>2. op'[s] = "save" /\ db'[s].state = "empty" /\ kept'[s] = kept[s] \ {m}
    BY DEF DeleteKey, BeginSave, EmptyDb, KInv, EInv, TInv, TypeOK
  <1>3. /\ store'[s].open /\ store'[s].wrap = store[s].wrap
        /\ store'[s].mk = store[s].mk
        /\ \A n \in Name \ {m} : store'[s].keys[n] = store[s].keys[n]
    BY <1>1, UsableFits DEF DeleteKey, KInv, EInv, TInv, TypeOK, KeyStore, Entries
  <1>4. \A t \in Store \ {s} : /\ store'[t] = store[t] /\ op'[t] = op[t] /\ db'[t] = db[t]
                              /\ kept'[t] = kept[t]
    BY DEF DeleteKey, BeginSave, KInv, EInv, TInv, TypeOK
  <1>5. FitsStore(s)'
    BY <1>1, <1>2, <1>3, UsableFits DEF FitsStore, provider
  <1>6. reset.step = "idle" => \A n \in kept'[s] : Kept(s, n)'
    BY <1>1, <1>2, <1>3, UsableFits DEF Kept
  <1> QED
    BY <1>1, <1>2, <1>4, <1>5, <1>6, UsableFits, KeepOperate

LEMMA KeepCleanupExpiredKeys ==
    ASSUME KInv, NEW s \in Store, NEW gone \in SUBSET Name, CleanupExpiredKeys(s, gone) PROVE KeepInv'
  <1>1. Usable(s) /\ UNCHANGED <<provider, calls, initialized, opening, reset, master>>
    BY DEF CleanupExpiredKeys
  <1>2. op'[s] = "save" /\ db'[s].state = "empty" /\ kept'[s] = kept[s] \ gone
    BY DEF CleanupExpiredKeys, BeginSave, EmptyDb, KInv, EInv, TInv, TypeOK
  <1>3. /\ store'[s].open /\ store'[s].wrap = store[s].wrap
        /\ store'[s].mk = store[s].mk
        /\ \A n \in Name \ gone : store'[s].keys[n] = store[s].keys[n]
    BY <1>1, UsableFits DEF CleanupExpiredKeys, KInv, EInv, TInv, TypeOK, KeyStore, Entries
  <1>4. \A t \in Store \ {s} : /\ store'[t] = store[t] /\ op'[t] = op[t] /\ db'[t] = db[t]
                              /\ kept'[t] = kept[t]
    BY DEF CleanupExpiredKeys, BeginSave, KInv, EInv, TInv, TypeOK
  <1>5. FitsStore(s)'
    BY <1>1, <1>2, <1>3, UsableFits DEF FitsStore, provider
  <1>6. reset.step = "idle" => \A n \in kept'[s] : Kept(s, n)'
    BY <1>1, <1>2, <1>3, UsableFits DEF Kept
  <1> QED
    BY <1>1, <1>2, <1>4, <1>5, <1>6, UsableFits, KeepOperate

LEMMA KeepRotateMasterKey ==
    ASSUME KInv, NEW s \in Store, RotateMasterKey(s) PROVE KeepInv'
  <1>1. Usable(s) /\ UNCHANGED <<provider, calls, initialized, opening, reset, master>>
    BY DEF RotateMasterKey
  <1>2. op'[s] = "rotate" /\ db'[s].state = "empty" /\ kept'[s] = kept[s]
    BY DEF RotateMasterKey, BeginSave, EmptyDb, KInv, EInv, TInv, TypeOK
  <1>3. /\ store'[s].open /\ store'[s].wrap = store[s].wrap
        /\ \A n \in Opens(s) : store'[s].keys[n] = store'[s].mk
    BY <1>1, UsableFits DEF RotateMasterKey, Resealed, Opens, KInv, EInv, TInv, TypeOK, KeyStore, Entries
  <1>4. \A t \in Store \ {s} : /\ store'[t] = store[t] /\ op'[t] = op[t] /\ db'[t] = db[t]
                              /\ kept'[t] = kept[t]
    BY DEF RotateMasterKey, BeginSave, KInv, EInv, TInv, TypeOK
  <1>5. FitsStore(s)'
    BY <1>1, <1>2, <1>3, UsableFits DEF FitsStore, provider
  <1>6. reset.step = "idle" => \A n \in kept'[s] : Kept(s, n)'
    BY <1>1, <1>2, <1>3, UsableFits DEF Kept, Opens
  <1> QED
    BY <1>1, <1>2, <1>4, <1>5, <1>6, UsableFits, KeepOperate

LEMMA KeepFailRotation ==
    ASSUME KInv, NEW s \in Store, NEW before \in SUBSET Name, FailRotation(s, before) PROVE KeepInv'
  <1>1. Usable(s) /\ UNCHANGED <<provider, calls, initialized, opening, reset, db, master, op>>
    BY DEF FailRotation, files
  <1>2. kept'[s] = kept[s] \ before
    BY DEF FailRotation, KInv, EInv, TInv, TypeOK
  <1>3. /\ store'[s].open /\ store'[s].wrap = store[s].wrap /\ store'[s].mk = store[s].mk
        /\ \A n \in Name \ before : store'[s].keys[n] = store[s].keys[n]
    BY <1>1, UsableFits DEF FailRotation, Resealed, KInv, EInv, TInv, TypeOK, KeyStore, Entries
  <1>4. \A t \in Store \ {s} : store'[t] = store[t] /\ kept'[t] = kept[t]
    BY DEF FailRotation, KInv, EInv, TInv, TypeOK
  <1>5. FitsStore(s)'
    BY <1>1, <1>3, UsableFits DEF FitsStore, provider
  <1>6. reset.step = "idle" => \A n \in kept'[s] : Kept(s, n)'
    BY <1>1, <1>2, <1>3, UsableFits DEF Kept, provider
  <1> QED
    BY <1>1, <1>4, <1>5, <1>6, UsableFits, KeepOperate

\* A write under way belongs to a store that is in use and open
LEMMA WritingFits ==
    ASSUME KInv, NEW s \in Store, op[s] \in {"save", "rotate", "seal", "sealing"}
    PROVE  /\ isReady /\ store[s].open /\ opening.step = "open" /\ FitsStore(s)
           /\ reset.step = "idle" => \A n \in kept[s] : Kept(s, n)
  <1>1. isReady
    BY DEF KInv, KeepInv, InTurn
  <1>2. store[s].open /\ opening.step = "open"
    BY <1>1, NotOpeningInUse DEF KInv, EInv, TInv, KeysDrawn
  <1> QED
    BY <1>1, <1>2 DEF KInv, KeepInv, AllKept

LEMMA KeepEndSave == ASSUME KInv, NEW s \in Store, EndSave(s) PROVE KeepInv'
  <1>1. /\ op[s] \in {"save", "rotate"} /\ db[s].state = "empty"
        /\ UNCHANGED <<provider, calls, initialized, opening, reset, master, store, kept>>
    BY WritingFits DEF EndSave, FitsStore
  <1>2. /\ db'[s].state = "ok" /\ db'[s].keys = store[s].keys
        /\ op'[s] = IF op[s] = "save" THEN "idle" ELSE "seal"
    BY <1>1 DEF EndSave, Filled, DbOf, KInv, EInv, TInv, TypeOK
  <1>3. \A t \in Store \ {s} : op'[t] = op[t] /\ db'[t] = db[t]
    BY DEF EndSave, KInv, EInv, TInv, TypeOK
  <1>4. FitsStore(s)'
    BY <1>1, <1>2, WritingFits DEF FitsStore, provider
  <1>5. reset.step = "idle" => \A n \in kept'[s] : Kept(s, n)'
    BY <1>1, <1>2, WritingFits DEF Kept, FitsStore, provider
  <1> QED
    BY <1>1, <1>2, <1>3, <1>4, <1>5, WritingFits, KeepOperate

LEMMA KeepBeginSeal == ASSUME KInv, NEW s \in Store, BeginSeal(s) PROVE KeepInv'
  <1>1. op[s] = "seal" /\ UNCHANGED <<provider, calls, initialized, opening, reset, db, store, kept>>
    BY DEF BeginSeal
  <1>2. op'[s] = "sealing" /\ master'[s].state = "torn"
    BY DEF BeginSeal, TornMaster, KInv, EInv, TInv, TypeOK
  <1>3. \A t \in Store \ {s} : op'[t] = op[t] /\ master'[t] = master[t]
    BY DEF BeginSeal, KInv, EInv, TInv, TypeOK
  <1>4. FitsStore(s)'
    BY <1>1, <1>2, WritingFits DEF FitsStore, provider
  <1>5. reset.step = "idle" => \A n \in kept'[s] : Kept(s, n)'
    BY <1>1, <1>2, WritingFits DEF Kept, provider
  <1> QED
    BY <1>1, <1>2, <1>3, <1>4, <1>5, WritingFits, KeepOperate

LEMMA KeepEndSeal == ASSUME KInv, NEW s \in Store, EndSeal(s) PROVE KeepInv'
  <1>1. /\ op[s] = "sealing" /\ master[s].state = "torn"
        /\ UNCHANGED <<provider, calls, initialized, opening, reset, db, store, kept>>
    BY WritingFits DEF EndSeal, FitsStore
  <1>2. /\ op'[s] = "idle" /\ master'[s].state = "ok" /\ master'[s].mk = store[s].mk
        /\ master'[s].wrap = store[s].wrap
    BY <1>1 DEF EndSeal, Filled, MasterOf, KInv, EInv, TInv, TypeOK
  <1>3. \A t \in Store \ {s} : op'[t] = op[t] /\ master'[t] = master[t]
    BY DEF EndSeal, KInv, EInv, TInv, TypeOK
  <1>4. FitsStore(s)'
    BY <1>1, <1>2, WritingFits DEF FitsStore, provider
  <1>5. reset.step = "idle" => \A n \in kept'[s] : Kept(s, n)'
    BY <1>1, <1>2, WritingFits DEF Kept, FitsStore, provider
  <1> QED
    BY <1>1, <1>2, <1>3, <1>4, <1>5, WritingFits, KeepOperate

(* The reset: what it drops need not be kept any more *)

LEMMA KeepBeginReset == ASSUME KInv, BeginReset PROVE KeepInv'
  <1>1. reset'.step = "keys" /\ (reset'.ready <=> isReady)
    BY DEF BeginReset
  <1>2. InTurn'
    BY <1>1 DEF KInv, KeepInv, InTurn, BeginReset, calls
  <1>3. FitsOpening' /\ \A s \in Store : FitsStore(s)'
    BY DEF KInv, KeepInv, FitsStore, FitsOpening, BeginReset, provider, files
  <1>4. AllKept'
    BY <1>1 DEF AllKept
  <1> QED
    BY <1>2, <1>3, <1>4 DEF KeepInv

\* Steps of the reset before its end
LEMMA KeepInReset ==
    ASSUME KInv, reset.step # "idle", reset'.step # "idle", reset'.ready = reset.ready,
           UNCHANGED <<provider, calls, opening>>,
           \A s \in Store : op'[s] \in {op[s], "idle", "drop"} /\ FitsStore(s)'
    PROVE  KeepInv'
  <1>1. opening.by = {} /\ opening.step = "open" /\ \A s \in Store : op[s] # "swap"
    BY NotOpeningInUse
  <1>2. InTurn'
    <2>1. opening'.by = {} /\ opening'.step = "open"
      BY <1>1
    <2>2. \A c \in Caller : pc'[c] # "done"
      BY DEF KInv, EInv, Apart, calls
    <2>3. isReady' = isReady /\ (reset'.ready <=> isReady')
      BY DEF KInv, KeepInv, InTurn, calls
    <2>4. \A s \in Store : op'[s] \in {"save", "rotate", "seal", "sealing"} => isReady'
      BY <2>3 DEF KInv, KeepInv, InTurn
    <2> QED
      BY <1>1, <2>1, <2>2, <2>3, <2>4 DEF InTurn
  <1>3. FitsOpening' /\ AllKept'
    BY <1>1 DEF FitsOpening, AllKept
  <1> QED
    BY <1>2, <1>3 DEF KeepInv

LEMMA KeepDropStore == ASSUME KInv, NEW s \in Store, DropStore(s) PROVE KeepInv'
  <1>1. /\ reset.step = s /\ reset'.step # "idle" /\ reset'.ready = reset.ready
        /\ UNCHANGED <<provider, calls, opening, master, store>>
    BY DEF DropStore, ResetAt, AfterDrop, Store, KInv, EInv, TInv, TypeOK
  <1>2. \A t \in Store \ {s} : op'[t] = op[t] /\ db'[t] = db[t]
    BY DEF DropStore, BeginSave, KInv, EInv, TInv, TypeOK
  <1>3. op[s] = "idle" /\ (op'[s] = "idle" \/ (op'[s] = "drop" /\ db'[s].state = "empty"))
    BY DEF DropStore, BeginSave, EmptyDb, KInv, EInv, TInv, TypeOK
  <1>4. \A t \in Store : FitsStore(t)'
    BY <1>1, <1>2, <1>3 DEF KInv, KeepInv, FitsStore, provider
  <1>5. reset.step # "idle"
    BY <1>1 DEF Store
  <1> QED
    BY <1>1, <1>2, <1>3, <1>4, <1>5, KeepInReset

LEMMA KeepEndDrop == ASSUME KInv, NEW s \in Store, EndDrop(s) PROVE KeepInv'
  <1>1. /\ reset.step = s /\ reset'.step # "idle" /\ reset'.ready = reset.ready
        /\ UNCHANGED <<provider, calls, opening, master>>
    BY DEF EndDrop, ResetAt, AfterDrop, Store, KInv, EInv, TInv, TypeOK, Staged
  <1>2. \A t \in Store \ {s} : op'[t] = op[t] /\ db'[t] = db[t] /\ store'[t] = store[t]
    BY DEF EndDrop, KInv, EInv, TInv, TypeOK
  <1>3. op'[s] = "idle" /\ ~store'[s].open
    BY DEF EndDrop, Closed, KInv, EInv, TInv, TypeOK
  <1>4. \A t \in Store : FitsStore(t)'
    BY <1>1, <1>2, <1>3 DEF KInv, KeepInv, FitsStore, provider
  <1>5. reset.step # "idle"
    BY <1>1 DEF Store
  <1> QED
    BY <1>1, <1>2, <1>3, <1>4, <1>5, KeepInReset

LEMMA KeepUnsetInitialized == ASSUME KInv, UnsetInitialized PROVE KeepInv'
  <1>1. /\ reset.step # "idle" /\ reset'.step # "idle" /\ reset'.ready = reset.ready
        /\ UNCHANGED <<provider, calls, opening, files, store, op>>
    BY DEF UnsetInitialized, ResetAt, KInv, EInv, TInv, TypeOK
  <1>2. \A s \in Store : FitsStore(s)'
    BY <1>1 DEF KInv, KeepInv, FitsStore, provider, files
  <1> QED
    BY <1>1, <1>2, KeepInReset

LEMMA KeepRemoveFile == ASSUME KInv, RemoveFile PROVE KeepInv'
  <1>1. reset.step \in Removing /\ reset.step # "idle"
    BY DEF RemoveFile, Removing
  <1>2. \A s \in Store : ~store[s].open /\ op[s] = "idle"
    BY <1>1 DEF KInv, EInv, TInv, KeysDrawn, Staged, Store
  <1>3. \A s \in Store : FitsStore(s)'
    BY <1>2 DEF FitsStore, RemoveFile
  <1>4. CASE reset.step # "rmGroupsMaster"
    <2>1. /\ reset'.step # "idle" /\ reset'.ready = reset.ready
          /\ UNCHANGED <<provider, calls, opening, op>>
      BY <1>1, <1>4 DEF RemoveFile, ResetAt, Removing, calls, KInv, EInv, TInv, TypeOK
    <2> QED
      BY <1>1, <1>3, <2>1, KeepInReset
  <1>5. CASE reset.step = "rmGroupsMaster"
    <2>1. ~isReady' /\ reset'.step = "idle" /\ \A s \in Store : kept'[s] = {}
      BY <1>1, <1>5 DEF RemoveFile, ResetAt, KInv, KeepInv, InTurn, EInv, TInv, TypeOK
    <2>2. opening.by = {} /\ opening.step = "open" /\ UNCHANGED <<opening, op, pc, initialized>>
      BY <1>1, NotOpeningInUse DEF RemoveFile
    <2>3. \A c \in Caller : pc[c] # "done"
      BY <1>1 DEF KInv, EInv, Apart
    <2>4. InTurn'
      BY <1>2, <2>1, <2>2, <2>3 DEF InTurn
    <2>5. FitsOpening' /\ AllKept'
      BY <2>1, <2>2 DEF FitsOpening, AllKept
    <2> QED
      BY <1>3, <2>4, <2>5 DEF KeepInv
  <1> QED
    BY <1>4, <1>5

\* A death spares what is not exposed: its files are complete, and the passphrase
\* they are wrapped under is on flash or the legacy one.
LEMMA KeepDie == ASSUME KInv, Die PROVE KeepInv'
  <1>1. /\ opening' = NotOpening /\ opening'.by = {} /\ opening'.step = "open"
        /\ ~isReady' /\ reset'.step = "idle" /\ master' = master
        /\ \A c \in Caller : pc'[c] = "idle"
    BY DEF Die, NotOpening
  <1>2. \A s \in Store : ~store'[s].open /\ op'[s] = "idle"
    BY DEF Die, Closed
  <1>3. InTurn'
    BY <1>1, <1>2 DEF InTurn
  <1>4. FitsOpening' /\ \A s \in Store : FitsStore(s)'
    BY <1>1, <1>2 DEF FitsOpening, FitsStore
  <1>5. prefs'.mem = prefs.disk
    BY DEF KInv, EInv, TInv, TypeOK, Die
  <1>6. ASSUME NEW s \in Store, NEW n \in kept'[s] PROVE Kept(s, n)'
    <2>1. n \in kept[s] /\ ~Exposed(s)
      BY <1>6 DEF Die
    <2>2. /\ op[s] = "idle" /\ reset.step = "idle"
          /\ ~(opening.at = s /\ opening.step \in {"write", "discard"})
          /\ prefs.disk = prefs.mem \/ master[s].wrap # prefs.mem.pass
      BY <2>1 DEF Exposed
    <2>3. db'[s] = db[s]
      BY <2>2 DEF Die, SavingKeys
    <2>4. /\ db[s].state = "ok" /\ master[s].state = "ok" /\ db[s].keys[n] = master[s].mk
          /\ master[s].wrap \in {Legacy, prefs.mem.pass}
      BY <2>1, <2>2 DEF KInv, KeepInv, AllKept, Kept
    <2>5. master[s].wrap \in {Legacy, prefs'.mem.pass}
      BY <1>5, <2>2, <2>4
    <2> QED
      BY <1>1, <1>2, <2>3, <2>4, <2>5 DEF Kept
  <1>7. AllKept'
    BY <1>6 DEF AllKept
  <1> QED
    BY <1>3, <1>4, <1>7 DEF KeepInv

\* What raced says never becomes untrue
LEMMA RacedStays == ASSUME [Next]_vars, raced PROVE raced'
  <1>1. CASE \E c \in Caller : Initialize(c)
    BY <1>1 DEF Initialize, BeginInitialize, ReadPassphrase, LoadMasterKey, GenerateMasterKey, PutPassphrase,
       TakeInitialized, OpenMaster, WriteMaster, LoadKeys, DiscardStore, InstallStore, SwapStore, EndInitialize
  <1>2. CASE \E s \in Store : Operate(s)
    BY <1>2 DEF Operate, StoreKey, DeleteKey, CleanupExpiredKeys, FailRotation, EndSave, RotateMasterKey,
       BeginSeal, EndSeal
  <1>3. CASE ResetIdentity
    BY <1>3 DEF ResetIdentity, BeginReset, UnsetInitialized, RemoveFile, DropStore, EndDrop
  <1>4. CASE FlushPrefs \/ Die \/ UNCHANGED vars
    BY <1>4 DEF FlushPrefs, Die, vars
  <1> QED
    BY <1>1, <1>2, <1>3, <1>4 DEF Next

LEMMA KeepStep == ASSUME ~Overlap, KInv, [Next]_vars, ~raced' PROVE KInv'
  <1>1. EInv' /\ OnePassphrase'
    BY EraseStep, PassStep DEF KInv
  <1>2. SUFFICES KeepInv'
    BY <1>1 DEF KInv
  <1>3. ASSUME NEW c \in Caller, Initialize(c) PROVE KeepInv'
    BY <1>3, KeepBeginInitialize, KeepReadPassphrase, KeepLoadMasterKey, KeepGenerateMasterKey,
       KeepPutPassphrase, KeepTakeInitialized, KeepOpenMaster, KeepWriteMaster, KeepLoadKeys,
       KeepDiscardStore, KeepInstallStore, KeepSwapStore, KeepEndInitialize DEF Initialize
  <1>4. ASSUME NEW s \in Store, Operate(s) PROVE KeepInv'
    BY <1>4, KeepStoreKey, KeepDeleteKey, KeepCleanupExpiredKeys, KeepFailRotation, KeepEndSave,
       KeepRotateMasterKey, KeepBeginSeal, KeepEndSeal DEF Operate
  <1>5. CASE ResetIdentity
    <2>1. CASE BeginReset \/ UnsetInitialized \/ RemoveFile
      BY <2>1, KeepBeginReset, KeepUnsetInitialized, KeepRemoveFile
    <2>2. ASSUME NEW s \in Store, DropStore(s) \/ EndDrop(s) PROVE KeepInv'
      BY <2>2, KeepDropStore, KeepEndDrop
    <2> QED
      BY <1>5, <2>1, <2>2 DEF ResetIdentity
  <1>6. CASE UNCHANGED vars
    BY <1>6, KeepQuiet DEF vars, files
  <1> QED
    BY <1>3, <1>4, <1>5, <1>6, KeepFlushPrefs, KeepDie DEF Next

\* A key whose store_key returned, or that an earlier build left, can be read by the
\* next launch, for every number of callers, keys, draws and deaths: opening,
\* migrating, storing, expiring, rotating, dying and overwriting a torn file lose
\* none but those KeysReadable names, unless a first launch replaced the alias or
\* the passphrase of another one, which FirstLaunchRace shows to lose the keys.
\* The hypothesis is what the code leaves to its callers: no reset beside an
\* initialisation.
THEOREM KeysDoSurvive == ASSUME ~Overlap PROVE Spec => []KeysSurvive
  <1>1. Init => RInv
    BY EraseInit, PassInit, KeepInit DEF KInv, RInv
  <1>2. RInv /\ [Next]_vars => RInv'
    <2> SUFFICES ASSUME RInv, [Next]_vars PROVE RInv'
      OBVIOUS
    <2>1. EInv'
      BY EraseStep DEF RInv
    <2>2. ASSUME ~raced' PROVE KInv'
      <3>1. ~raced
        BY <2>2, RacedStays, Zenon
      <3>2. KInv
        BY <3>1, Zenon DEF RInv
      <3> QED
        BY <2>2, <3>2, KeepStep, Zenon
    <2> QED
      BY <2>1, <2>2, Zenon DEF RInv
  <1>3. Spec => []RInv
    BY <1>1, <1>2, PTL DEF Spec
  <1>4. RInv => KeysSurvive
    <2> SUFFICES ASSUME KInv, NEW s \in Store, Settled(s), NEW n \in kept[s] PROVE n \in Recoverable(s)
      BY DEF RInv, KeysSurvive, KeysReadable
    <2>1. Kept(s, n) /\ n \in Name
      BY DEF KInv, KeepInv, AllKept, Settled, EInv, TInv, TypeOK
    <2>2. PassphraseNow = prefs.mem.pass
      BY DEF KInv, OnePassphrase, PassphraseNow, NoSlot
    <2> QED
      BY <2>1, <2>2 DEF Kept, Settled, Recoverable
  <1> QED
    BY <1>3, <1>4, PTL
================================================================================
