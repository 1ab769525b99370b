---------------------------- MODULE ConfigEditing ----------------------------
(***************************************************************************)
(* The console over the configuration store: editors open the draft,       *)
(* change what they may and save it (putDraft), each in a handler of its   *)
(* own, while the engine and the console load the active snapshot.         *)
(*                                                                         *)
(* An editor's scope is the set of keys of its data scope; an editor of    *)
(* all instruments has every key, the global part included, and saves its  *)
(* page as it is.                                                          *)
(***************************************************************************)
EXTENDS ConfigStore

CONSTANTS
  Editors,
  Scope     \* the keys each editor may change

ASSUME ScopeAssumption == Scope \in [Editors -> SUBSET Keys]

VARIABLES
  page,     \* the configuration the editor's browser shows
  save,     \* the handler of its save: "none", "merged", "cache"
  merged,   \* the configuration the handler is about to commit
  version   \* the version the handler merged into, then the one it committed

editVars == <<page, save, merged, version>>
vars == <<storeVars, editVars>>

-----------------------------------------------------------------------------
(* Editing.                                                                *)

\* getDraft: the browser shows the draft, as far as the editor's scope goes.
GetDraft(e) ==
  /\ save[e] = "none"
  /\ page' = [page EXCEPT ![e] = [k \in Scope[e] |-> draft[k]]]
  /\ UNCHANGED <<storeVars, save, merged, version>>

\* Altered form for mutation: what the page does not show is reset.
MergeAll(existing, incoming, scope) ==
  [k \in Keys |-> IF k \in scope THEN incoming[k] ELSE CHOOSE v \in Values : TRUE]

\* mergeScopedConfig
Merge(existing, incoming, scope) ==
  [k \in Keys |-> IF k \in scope THEN incoming[k] ELSE existing[k]]

\* putDraft up to SaveActive: one key of the page is changed and merged.
PutDraft(e, k, v) ==
  /\ save[e] = "none"
  /\ latest < MaxVersion
  /\ k \in Scope[e] /\ page[e][k] # v
  /\ page' = [page EXCEPT ![e][k] = v]
  /\ merged' = [merged EXCEPT ![e] = Merge(draft, page'[e], Scope[e])]
  /\ version' = [version EXCEPT ![e] = latest]
  /\ save' = [save EXCEPT ![e] = "merged"]
  /\ UNCHANGED storeVars

SaveActive(e) ==
  /\ save[e] = "merged"
  /\ latest < MaxVersion
  /\ Commit(merged[e])
  /\ version' = [version EXCEPT ![e] = latest + 1]
  /\ merged' = [merged EXCEPT ![e] = <<>>]
  /\ save' = [save EXCEPT ![e] = "cache"]
  /\ UNCHANGED <<cache, loading, loaded, page>>

\* The transaction fails, or the credentials of a market are refused.
SaveFails(e) ==
  /\ save[e] = "merged"
  /\ merged' = [merged EXCEPT ![e] = <<>>]
  /\ version' = [version EXCEPT ![e] = 0]
  /\ save' = [save EXCEPT ![e] = "none"]
  /\ UNCHANGED <<storeVars, page>>

(* The copy of the saved snapshot, written after the commit: another save  *)
(* or a load may have copied a newer one.                                  *)
CacheSaved(e) ==
  /\ save[e] = "cache"
  /\ Cache(version[e])
  /\ version' = [version EXCEPT ![e] = 0]
  /\ save' = [save EXCEPT ![e] = "none"]
  /\ UNCHANGED <<latest, active, draft, loading, loaded, page, merged>>

-----------------------------------------------------------------------------
Init ==
  /\ StoreInit
  /\ page = [e \in Editors |-> [k \in Scope[e] |-> draft[k]]]
  /\ save = [e \in Editors |-> "none"]
  /\ merged = [e \in Editors |-> <<>>]
  /\ version = [e \in Editors |-> 0]

LoadActive(l) == Load(l) /\ UNCHANGED editVars

Next ==
  \/ \E l \in Loaders : LoadActive(l)
  \/ Expire /\ UNCHANGED editVars
  \/ \E e \in Editors : GetDraft(e) \/ SaveActive(e) \/ SaveFails(e) \/ CacheSaved(e)
  \/ \E e \in Editors, k \in Keys, v \in Values : PutDraft(e, k, v)

(* Handlers finish, loads are repeated for ever (the engine polls), and    *)
(* neither the database nor Redis fails for ever.                          *)
Fairness ==
  /\ \A l \in Loaders :
       /\ WF_vars(ReadActiveVersion(l) /\ UNCHANGED editVars)
       /\ WF_vars(LoadCached(l) /\ UNCHANGED editVars)
       /\ SF_vars(LoadPayload(l) /\ cache' = loading[l] /\ UNCHANGED editVars)
  /\ \A e \in Editors : WF_vars(CacheSaved(e))

Spec == Init /\ [][Next]_vars /\ Fairness

-----------------------------------------------------------------------------
TypeOK ==
  /\ StoreTypeOK
  /\ DOMAIN page = Editors /\ \A e \in Editors : page[e] \in [Scope[e] -> Values]
  /\ merged \in [Editors -> Content \cup {<<>>}]
  /\ save \in [Editors -> {"none", "merged", "cache"}]
  /\ version \in [Editors -> 0 .. latest]

(* A save leaves every key outside its editor's scope as it is, unless     *)
(* another save was committed after it had read the draft (putDraft).      *)
ScopeRespected ==
  [][\A e \in Editors :
       save[e] = "merged" /\ save'[e] = "cache" /\ version[e] = latest =>
         \A k \in Keys \ Scope[e] : active'[k] = active[k]]_vars

(* The copy is repaired: whatever was lost or overtaken, in the end it is  *)
(* the active snapshot or expired, and it does not stay expired.           *)
CacheConverges == <>[](cache \in {0, latest}) /\ []<>(cache = latest)

(* A caller of LoadActive gets an older configuration than it had only     *)
(* when the database failed it ("LoadActive always checks the database     *)
(* version before trusting cached payloads", PublishDraft).                *)
LoadsForward ==
  [][\A l \in Loaders : loaded'[l] < loaded[l] => LoadFallback(l)]_storeVars
=============================================================================
