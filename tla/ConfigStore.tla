----------------------------- MODULE ConfigStore -----------------------------
(***************************************************************************)
(* The configuration store: PostgreSQL holds the draft and the snapshots,  *)
(* of which the last committed is active; Redis holds a copy of one        *)
(* snapshot.  SaveActive is one transaction under an advisory lock, then a *)
(* write of the copy that may be late or lost.  LoadActive reads the       *)
(* active version, then the copy, then the payload, and repairs the copy.  *)
(* When the database fails it takes the copy whatever its version;         *)
(* Scheduler meets such a load as one of any version.                      *)
(*                                                                         *)
(* A configuration gives a value to every key: an instrument with its      *)
(* markets, or the global part.  NormalizeStrategySizing and the full      *)
(* validation are left out: the values are valid ones.                     *)
(***************************************************************************)
EXTENDS Integers

CONSTANTS
  Keys,        \* instruments and the global part
  Values,
  Loaders,     \* callers of LoadActive: the engine, handlers of the console
  MaxVersion,  \* bound on snapshots
  StoreFaults  \* which of "db", "redis" may fail

ASSUME StoreAssumption == MaxVersion \in Nat \ {0} /\ Keys # {} /\ Values # {}

VARIABLES
  latest,   \* config_snapshots: the last version
  active,   \* its payload; earlier ones are never read again but by version
  draft,    \* draft_configs
  cache,    \* Redis: the version of the copy, 0 if none
  loading,  \* LoadActive of each loader: the version it read, 0 outside a call
  loaded    \* the version its last call returned, 0 if none

storeVars == <<latest, active, draft, cache, loading, loaded>>

Content == [Keys -> Values]

\* The transaction of SaveActive.
Commit(cfg) ==
  /\ latest' = latest + 1
  /\ active' = cfg
  /\ draft' = cfg

\* A write of the copy, best effort.
Cache(v) == cache' \in {v} \cup (IF "redis" \in StoreFaults THEN {cache} ELSE {})

\* LoadActive begins with the active version.
ReadActiveVersion(l) ==
  /\ loading[l] = 0
  /\ loading' = [loading EXCEPT ![l] = latest]
  /\ UNCHANGED <<latest, active, draft, cache, loaded>>

\* Altered form for mutation: any copy serves.
LoadCachedAny(l) ==
  /\ loading[l] > 0
  /\ cache > 0
  /\ loading' = [loading EXCEPT ![l] = 0]
  /\ loaded' = [loaded EXCEPT ![l] = cache]
  /\ UNCHANGED <<latest, active, draft, cache>>

\* The copy of the version just read.
LoadCached(l) ==
  /\ loading[l] > 0
  /\ cache = loading[l]
  /\ loading' = [loading EXCEPT ![l] = 0]
  /\ loaded' = [loaded EXCEPT ![l] = loading[l]]
  /\ UNCHANGED <<latest, active, draft, cache>>

\* Altered form for mutation: the copy is not repaired.
LoadPayloadOnly(l) ==
  /\ loading[l] > 0
  /\ cache # loading[l]
  /\ loading' = [loading EXCEPT ![l] = 0]
  /\ loaded' = [loaded EXCEPT ![l] = loading[l]]
  /\ UNCHANGED <<latest, active, draft, cache>>

(* Otherwise the payload, which then becomes the copy.  A newer snapshot   *)
(* may have been committed, and copied, in between.                        *)
LoadPayload(l) ==
  /\ loading[l] > 0
  /\ cache # loading[l]
  /\ Cache(loading[l])
  /\ loading' = [loading EXCEPT ![l] = 0]
  /\ loaded' = [loaded EXCEPT ![l] = loading[l]]
  /\ UNCHANGED <<latest, active, draft>>

\* The payload does not come.
LoadFails(l) ==
  /\ "db" \in StoreFaults
  /\ loading[l] > 0
  /\ loading' = [loading EXCEPT ![l] = 0]
  /\ UNCHANGED <<latest, active, draft, cache, loaded>>

\* The version does not come: the copy, if there is one, is returned.
LoadFallback(l) ==
  /\ "db" \in StoreFaults
  /\ loading[l] = 0
  /\ cache > 0
  /\ loaded' = [loaded EXCEPT ![l] = cache]
  /\ UNCHANGED <<latest, active, draft, cache, loading>>

\* Redis drops the copy after a day.
Expire ==
  /\ cache > 0
  /\ cache' = 0
  /\ UNCHANGED <<latest, active, draft, loading, loaded>>

StoreInit ==
  /\ latest = 1
  /\ active = [k \in Keys |-> CHOOSE v \in Values : TRUE]
  /\ draft = active
  /\ cache \in {0, 1}
  /\ loading = [l \in Loaders |-> 0]
  /\ loaded = [l \in Loaders |-> 0]

Load(l) == ReadActiveVersion(l) \/ LoadCached(l) \/ LoadPayload(l)
           \/ LoadFails(l) \/ LoadFallback(l)

StoreTypeOK ==
  /\ latest \in 1 .. MaxVersion
  /\ active \in Content /\ draft \in Content
  /\ cache \in 0 .. latest
  /\ loading \in [Loaders -> 0 .. latest]
  /\ loaded \in [Loaders -> 0 .. latest]
=============================================================================
