-------------------------- MODULE ConfigEditingProofs --------------------------
(***************************************************************************)
(* Proofs about ConfigEditing, for any editors and scopes, any callers of  *)
(* LoadActive, any number of snapshots and any choice of failures.         *)
(***************************************************************************)
EXTENDS ConfigEditing, TLAPS

-----------------------------------------------------------------------------
(* The inductive invariant.                                                *)

\* A handler about to commit has a whole configuration.
Merged == \A e \in Editors : save[e] = "merged" => merged[e] \in Content

\* SaveActive writes the draft and the snapshot together.
DraftIsActive == draft = active

(* As long as no snapshot was committed after the merge, the merged        *)
(* configuration differs from the active one within the scope only.        *)
MergedInScope ==
  \A e \in Editors :
    save[e] = "merged" /\ version[e] = latest =>
      \A k \in Keys \ Scope[e] : merged[e][k] = active[k]

\* A call in progress has read a version no older than the one returned last.
LoadingForward == \A l \in Loaders : loading[l] > 0 => loaded[l] <= loading[l]

EditInv == TypeOK /\ Merged /\ DraftIsActive /\ MergedInScope /\ LoadingForward

-----------------------------------------------------------------------------
(* The steps keep the invariant.                                           *)

\* Loads leave the snapshots and the editors alone.
LEMMA LoadEffect ==
  ASSUME NEW l \in Loaders, LoadActive(l)
  PROVE  UNCHANGED <<latest, active, draft, page, save, merged, version>>
  BY DEF LoadActive, Load, ReadActiveVersion, LoadCached, LoadPayload, LoadFails, LoadFallback, editVars

\* A merge is a whole configuration, that of the draft outside the scope.
LEMMA MergeWithin ==
  ASSUME NEW existing \in Content, NEW scope \in SUBSET Keys, NEW incoming \in [scope -> Values]
  PROVE  /\ Merge(existing, incoming, scope) \in Content
         /\ \A k \in Keys \ scope : Merge(existing, incoming, scope)[k] = existing[k]
  BY DEF Merge, Content

\* A save concerns its editor alone, and what it merges is the draft outside the editor's scope.
LEMMA PutDraftEffect ==
  ASSUME TypeOK, NEW e \in Editors, NEW k \in Keys, NEW v \in Values, PutDraft(e, k, v)
  PROVE  /\ DOMAIN page' = Editors /\ \A d \in Editors : page'[d] \in [Scope[d] -> Values]
         /\ merged'[e] \in Content
         /\ \A j \in Keys \ Scope[e] : merged'[e][j] = draft[j]
         /\ \A d \in Editors \ {e} : merged'[d] = merged[d] /\ version'[d] = version[d] /\ save'[d] = save[d]
<1>1. /\ DOMAIN page = Editors /\ page[e] \in [Scope[e] -> Values] /\ Scope[e] \in SUBSET Keys
      /\ draft \in Content /\ k \in Scope[e]
  BY ScopeAssumption DEF TypeOK, StoreTypeOK, PutDraft
<1>2. page' = [page EXCEPT ![e][k] = v]
  BY DEF PutDraft
<1>3. DOMAIN page' = Editors /\ page'[e] \in [Scope[e] -> Values]
  BY <1>1, <1>2
<1>4. \A d \in Editors \ {e} : page'[d] = page[d]
  BY <1>1, <1>2
<1>5. merged'[e] = Merge(draft, page'[e], Scope[e])
  BY DEF PutDraft, TypeOK
<1>6. \A d \in Editors \ {e} : merged'[d] = merged[d] /\ version'[d] = version[d] /\ save'[d] = save[d]
  BY DEF PutDraft, TypeOK
<1>7. \A d \in Editors : page'[d] \in [Scope[d] -> Values]
  BY <1>3, <1>4 DEF TypeOK
<1> QED BY <1>1, <1>3, <1>5, <1>6, <1>7, MergeWithin

\* Every step keeps the types.
LEMMA TypeStep == EditInv /\ [Next]_vars => TypeOK'
<1> SUFFICES ASSUME EditInv, [Next]_vars PROVE TypeOK'
  OBVIOUS
<1> USE StoreAssumption, ScopeAssumption DEF TypeOK, StoreTypeOK
<1>0. TypeOK /\ Merged
  BY DEF EditInv
<1>1. ASSUME NEW l \in Loaders, LoadActive(l) PROVE TypeOK'
  <2>1. CASE ReadActiveVersion(l)
    BY <1>0, <1>1, <2>1, LoadEffect DEF ReadActiveVersion
  <2>2. CASE LoadCached(l)
    BY <1>0, <1>1, <2>2, LoadEffect DEF LoadCached
  <2>3. CASE LoadPayload(l)
    <3>1. cache' \in 0 .. latest
      BY <1>0, <2>3 DEF LoadPayload, Cache
    <3> QED BY <1>0, <1>1, <2>3, <3>1, LoadEffect DEF LoadPayload
  <2>4. CASE LoadFails(l)
    BY <1>0, <1>1, <2>4, LoadEffect DEF LoadFails
  <2>5. CASE LoadFallback(l)
    BY <1>0, <1>1, <2>5, LoadEffect DEF LoadFallback
  <2> QED BY <1>1, <2>1, <2>2, <2>3, <2>4, <2>5 DEF LoadActive, Load
<1>2. ASSUME Expire, UNCHANGED editVars PROVE TypeOK'
  BY <1>0, <1>2 DEF Expire, editVars
<1>3. ASSUME NEW e \in Editors, GetDraft(e) PROVE TypeOK'
  <2>1. [k \in Scope[e] |-> draft[k]] \in [Scope[e] -> Values]
    BY <1>0 DEF Content
  <2>2. DOMAIN page' = Editors /\ \A d \in Editors : page'[d] \in [Scope[d] -> Values]
    BY <1>0, <1>3, <2>1 DEF GetDraft
  <2> QED BY <1>0, <1>3, <2>2 DEF GetDraft, storeVars
<1>4. ASSUME NEW e \in Editors, SaveActive(e) PROVE TypeOK'
  <2>1. latest' = latest + 1 /\ latest' \in 1 .. MaxVersion /\ latest \in 1 .. MaxVersion
    BY <1>0, <1>4 DEF SaveActive, Commit
  <2>2. active' \in Content /\ draft' \in Content
    BY <1>0, <1>4 DEF SaveActive, Commit, Merged
  <2>3. 0 .. latest \subseteq 0 .. latest'
    BY <2>1
  <2>4. StoreTypeOK'
    BY <1>0, <1>4, <2>1, <2>2, <2>3 DEF SaveActive
  <2> QED BY <1>0, <1>4, <2>1, <2>3, <2>4 DEF SaveActive
<1>5. ASSUME NEW e \in Editors, SaveFails(e) PROVE TypeOK'
  BY <1>0, <1>5 DEF SaveFails, storeVars
<1>6. ASSUME NEW e \in Editors, CacheSaved(e) PROVE TypeOK'
  BY <1>0, <1>6 DEF CacheSaved, Cache
<1>7. ASSUME NEW e \in Editors, NEW k \in Keys, NEW v \in Values, PutDraft(e, k, v) PROVE TypeOK'
  <2>1. merged' \in [Editors -> Content \cup {<<>>}] /\ StoreTypeOK'
    BY <1>0, <1>7, PutDraftEffect DEF PutDraft, storeVars
  <2>2. save' \in [Editors -> {"none", "merged", "cache"}] /\ version' \in [Editors -> 0 .. latest']
    BY <1>0, <1>7 DEF PutDraft, storeVars
  <2> QED BY <1>0, <1>7, <2>1, <2>2, PutDraftEffect
<1>8. CASE UNCHANGED vars
  BY <1>0, <1>8 DEF vars, storeVars, editVars
<1> QED BY <1>1, <1>2, <1>3, <1>4, <1>5, <1>6, <1>7, <1>8 DEF Next

\* Every step keeps what a handler is about to commit within its scope, unless another save overtook it.
LEMMA MergeStep == EditInv /\ [Next]_vars => Merged' /\ DraftIsActive' /\ MergedInScope'
<1> SUFFICES ASSUME EditInv, [Next]_vars PROVE Merged' /\ DraftIsActive' /\ MergedInScope'
  OBVIOUS
<1> USE DEF Merged, DraftIsActive, MergedInScope
<1>0. TypeOK /\ Merged /\ DraftIsActive /\ MergedInScope
  BY DEF EditInv
<1>1. CASE UNCHANGED <<latest, active, draft, save, merged, version>>
  BY <1>0, <1>1
<1>2. ASSUME NEW e \in Editors, SaveActive(e) PROVE Merged' /\ DraftIsActive' /\ MergedInScope'
  <2>1. latest' = latest + 1 /\ latest \in Nat /\ active' = draft'
    BY <1>0, <1>2 DEF SaveActive, Commit, TypeOK, StoreTypeOK
  <2>2. /\ save'[e] = "cache"
        /\ \A d \in Editors \ {e} : merged'[d] = merged[d] /\ version'[d] = version[d] /\ save'[d] = save[d]
    BY <1>0, <1>2 DEF SaveActive, TypeOK
  <2>3. \A d \in Editors \ {e} : version'[d] # latest'
    BY <1>0, <2>1, <2>2 DEF TypeOK
  <2> QED BY <1>0, <2>1, <2>2, <2>3
<1>3. ASSUME NEW e \in Editors, SaveFails(e) \/ CacheSaved(e)
      PROVE  Merged' /\ DraftIsActive' /\ MergedInScope'
  <2>1. /\ save'[e] = "none" /\ UNCHANGED <<latest, active, draft>>
        /\ \A d \in Editors \ {e} : merged'[d] = merged[d] /\ version'[d] = version[d] /\ save'[d] = save[d]
    BY <1>0, <1>3 DEF SaveFails, CacheSaved, TypeOK, storeVars
  <2> QED BY <1>0, <2>1
<1>4. ASSUME NEW e \in Editors, NEW k \in Keys, NEW v \in Values, PutDraft(e, k, v)
      PROVE  Merged' /\ DraftIsActive' /\ MergedInScope'
  <2>1. UNCHANGED <<latest, active, draft>>
    BY <1>4 DEF PutDraft, storeVars
  <2> QED BY <1>0, <1>4, <2>1, PutDraftEffect
<1> QED BY <1>1, <1>2, <1>3, <1>4, LoadEffect
        DEF Next, Expire, GetDraft, vars, storeVars, editVars

\* Every step keeps a load in progress ahead of the version returned last.
LEMMA LoadStep == EditInv /\ [Next]_vars => LoadingForward'
<1> SUFFICES ASSUME EditInv, [Next]_vars PROVE LoadingForward'
  OBVIOUS
<1>0. TypeOK /\ LoadingForward
  BY DEF EditInv
<1>1. ASSUME NEW l \in Loaders, LoadActive(l) PROVE LoadingForward'
  BY <1>0, <1>1 DEF TypeOK, StoreTypeOK, LoadingForward, LoadActive, Load, ReadActiveVersion,
                    LoadCached, LoadPayload, LoadFails, LoadFallback
<1>2. CASE UNCHANGED <<loading, loaded>>
  BY <1>0, <1>2 DEF LoadingForward
<1> QED BY <1>1, <1>2
        DEF Next, Expire, GetDraft, SaveActive, SaveFails, CacheSaved, PutDraft, vars, storeVars

-----------------------------------------------------------------------------
(* Theorems.                                                               *)

\* The strengthening is inductive: it holds in every reachable state, for any editors, scopes and loaders.
THEOREM EditInvariant == Spec => []EditInv
<1>1. Init => EditInv
  <2> SUFFICES ASSUME Init PROVE EditInv
    OBVIOUS
  <2>0. /\ latest = 1 /\ draft = active /\ cache \in {0, 1}
        /\ loading = [l \in Loaders |-> 0] /\ loaded = [l \in Loaders |-> 0]
    BY Zenon DEF Init, StoreInit
  <2>1. StoreTypeOK
    <3>1. (CHOOSE v \in Values : TRUE) \in Values
      BY StoreAssumption
    <3>2. active \in Content /\ draft \in Content
      BY <3>1 DEF Init, StoreInit, Content
    <3> QED BY <2>0, <3>2, StoreAssumption DEF StoreTypeOK
  <2>2. draft \in Content
    BY <2>1 DEF StoreTypeOK
  <2>3. \A e \in Editors : [k \in Scope[e] |-> draft[k]] \in [Scope[e] -> Values]
    BY <2>2, ScopeAssumption DEF Content
  <2>4. TypeOK
    BY <2>1, <2>3 DEF Init, TypeOK, StoreTypeOK
  <2>5. Merged /\ MergedInScope
    BY DEF Init, Merged, MergedInScope
  <2>6. DraftIsActive /\ LoadingForward
    BY <2>0 DEF DraftIsActive, LoadingForward
  <2> QED BY <2>4, <2>5, <2>6 DEF EditInv
<1>2. EditInv /\ [Next]_vars => EditInv'
  BY TypeStep, MergeStep, LoadStep DEF EditInv
<1> QED BY <1>1, <1>2, PTL DEF Spec

(* Variables keep their types: no version beyond the last snapshot is ever *)
(* copied, read or returned, whatever fails (SaveActive, LoadActive).      *)
THEOREM TypeCorrect == Spec => []TypeOK
<1>1. EditInv => TypeOK
  BY DEF EditInv
<1> QED BY <1>1, EditInvariant, PTL

(* An editor's save changes nothing outside its scope unless it overtook   *)
(* another save, for any number of editors at once (putDraft,              *)
(* mergeScopedConfig).                                                     *)
THEOREM SavesStayInScope == Spec => ScopeRespected
<1> DEFINE Respected ==
      \A e \in Editors :
        save[e] = "merged" /\ save'[e] = "cache" /\ version[e] = latest =>
          \A k \in Keys \ Scope[e] : active'[k] = active[k]
<1>1. EditInv /\ [Next]_vars => [Respected]_vars
  <2> SUFFICES ASSUME EditInv, Next, NEW e \in Editors,
                      save[e] = "merged", save'[e] = "cache", version[e] = latest,
                      NEW k \in Keys \ Scope[e]
               PROVE  active'[k] = active[k]
    OBVIOUS
  <2>0. TypeOK /\ MergedInScope
    BY DEF EditInv
  <2>1. ASSUME NEW d \in Editors, SaveActive(d) PROVE active'[k] = active[k]
    <3>1. d = e
      BY <2>0, <2>1 DEF SaveActive, TypeOK
    <3>2. active' = merged[e]
      BY <2>1, <3>1 DEF SaveActive, Commit
    <3> QED BY <2>0, <3>2 DEF MergedInScope
  <2>2. CASE UNCHANGED active
    BY <2>2
  <2> QED BY <2>1, <2>2, LoadEffect
          DEF Next, Expire, GetDraft, SaveFails, CacheSaved, PutDraft, storeVars
<1> QED BY <1>1, EditInvariant, PTL DEF Spec, ScopeRespected

(* Whatever was copied late or overtaken, a caller goes back to an older   *)
(* configuration only by way of the fallback (LoadActive).                 *)
THEOREM LoadsGoForward == Spec => LoadsForward
<1> DEFINE Forward == \A l \in Loaders : loaded'[l] < loaded[l] => LoadFallback(l)
<1>1. EditInv /\ [Next]_vars => [Forward]_storeVars
  <2> SUFFICES ASSUME EditInv, Next, NEW l \in Loaders, loaded'[l] < loaded[l]
               PROVE  LoadFallback(l)
    BY DEF vars
  <2>0. TypeOK /\ LoadingForward
    BY DEF EditInv
  <2>1. loaded[l] \in Nat
    BY <2>0 DEF TypeOK, StoreTypeOK
  <2>2. ASSUME NEW m \in Loaders, LoadActive(m) PROVE LoadFallback(l)
    <3>1. CASE LoadFallback(m)
      <4>1. m = l
        BY <2>0, <2>1, <3>1 DEF LoadFallback, TypeOK, StoreTypeOK
      <4> QED BY <3>1, <4>1
    <3>2. CASE LoadCached(m) \/ LoadPayload(m)
      <4>1. loading[m] > 0 /\ loaded' = [loaded EXCEPT ![m] = loading[m]]
        BY <3>2 DEF LoadCached, LoadPayload
      <4>2. m = l
        BY <2>0, <2>1, <4>1 DEF TypeOK, StoreTypeOK
      <4>3. loaded'[l] = loading[l] /\ loaded[l] <= loading[l] /\ loading[l] \in Nat
        BY <2>0, <4>1, <4>2 DEF TypeOK, StoreTypeOK, LoadingForward
      <4> QED BY <2>1, <4>3
    <3>3. CASE ReadActiveVersion(m) \/ LoadFails(m)
      BY <2>1, <3>3 DEF ReadActiveVersion, LoadFails
    <3> QED BY <2>2, <3>1, <3>2, <3>3 DEF LoadActive, Load
  <2>3. CASE UNCHANGED loaded
    BY <2>1, <2>3
  <2> QED BY <2>2, <2>3
          DEF Next, Expire, GetDraft, SaveActive, SaveFails, CacheSaved, PutDraft, storeVars
<1> QED BY <1>1, EditInvariant, PTL DEF Spec, LoadsForward
=============================================================================
