----------------------------- MODULE Reconciler -----------------------------
(***************************************************************************)
(* The order management of one market: internal/oms/reconciler.go over an  *)
(* asynchronous exchange and a Redis copy of its state.                    *)
(*                                                                         *)
(* The engine reads the open orders (ReadOrders) and later in the same     *)
(* cycle calls ReconcileWithOrdersGuardedPolicy on that list; meanwhile    *)
(* the exchange moves on.  A call runs in one step up to its result: only  *)
(* one goroutine works on a market, and what a crash in the middle of a    *)
(* call leaves behind is also left by a call whose Redis writes are lost,  *)
(* followed by a crash.                                                    *)
(*                                                                         *)
(* Times are not kept: whether the retry delay of a cancellation or the    *)
(* lookup delay of a creation has passed is chosen at every call, and so   *)
(* is whether an order is old enough to be refreshed.  All orders on the   *)
(* market are managed ones.  An order id is used again once nothing refers *)
(* to it, which stands for the unlimited ids of the exchange.              *)
(***************************************************************************)
EXTENDS Integers, FiniteSets, FiniteSetsExt, Functions

CONSTANTS
  Ids,               \* order ids; their number bounds the orders in play
  Quotes,            \* quotes: records of a side, a price px and a quantity qty
  Targets,           \* the sets of quotes the strategy may ask for
  Levels,            \* the largest number of quotes in a target
  RepriceBPS,        \* repriceThresholdBPS
  Batch,             \* maxOrderMutationsPerCycle
  MaxRefreshes,      \* RefreshPolicy.MaxRefreshesPerCycle
  MaxCancelAttempts, \* maxCancelAttempts
  Faults             \* what may go wrong, see below

NoQuote == [side |-> "none", px |-> 0, qty |-> 0]

ASSUME ReconcilerAssumption ==
  /\ IsFiniteSet(Ids)
  /\ NoQuote \notin Quotes
  /\ \A q \in Quotes : q.px \in Nat \ {0} /\ q.qty \in Nat \ {0}
  /\ \A t \in Targets :
       t \subseteq Quotes /\ t # {} /\ IsFiniteSet(t) /\ Cardinality(t) <= Levels
  /\ Levels \in Nat
  /\ Batch \in Nat \ {0}
  /\ MaxCancelAttempts \in Nat \ {0}
  /\ Faults \subseteq {"redis", "submit", "cancel", "crash", "expire", "slow", "fill"}

VARIABLES
  ord,      \* the exchange: every order's state
  mem,      \* the reconciler's maps for the market
  loaded,   \* Reconciler.loaded[key]
  disk,     \* the state saved in Redis
  cycle,    \* the engine has read the open orders and not reconciled yet
  snap,     \* those open orders, as they were then
  alarm,    \* history: a block was raised, and whether Redis holds it
  orphans,  \* history: accepted orders whose acceptance is recorded nowhere
  doomed    \* history: orders canceled before they became visible

vars == <<ord, mem, loaded, disk, cycle, snap, alarm, orphans, doomed>>

Nothing == [i \in {} |-> NoQuote]

(* The outcome of a Redis write: done, failed, or done but reported failed.*)
Outcomes == IF "redis" \in Faults THEN {"ok", "lost", "late"} ELSE {"ok"}

\* blocked, pendingCancels (present, OrderIDs, Attempts) and pendingCreates.
States == [blocked : BOOLEAN, hasBatch : BOOLEAN, ids : SUBSET Ids,
           attempts : 0..MaxCancelAttempts, creates : UNION {[d -> Quotes] : d \in SUBSET Ids}]

Empty == [blocked |-> FALSE, hasBatch |-> FALSE, ids |-> {}, attempts |-> 0,
          creates |-> Nothing]

-----------------------------------------------------------------------------
(* The exchange.  An accepted order may stay out of the list of open       *)
(* orders for a while, and an acknowledged cancellation takes effect later.*)

Gone == [st |-> "gone", q |-> NoQuote, rem |-> 0, cxl |-> FALSE]

Hidden == {i \in Ids : ord[i].st = "hidden"}
Open   == {i \in Ids : ord[i].st = "open"}
Live   == Hidden \cup Open

Reconciling == <<mem, loaded, disk, cycle, snap, alarm>>

Leave(i) ==
  /\ ord' = [ord EXCEPT ![i] = Gone]
  /\ orphans' = orphans \ {i}
  /\ doomed' = doomed \ {i}
  /\ UNCHANGED Reconciling

Appear(i) ==
  /\ i \in Hidden
  /\ ord' = [ord EXCEPT ![i].st = "open"]
  /\ UNCHANGED <<Reconciling, orphans, doomed>>

CancelDone(i) == i \in Live /\ ord[i].cxl /\ Leave(i)

Fill(i) == "fill" \in Faults /\ i \in Live /\ Leave(i)

PartialFill(i) ==
  /\ "fill" \in Faults
  /\ i \in Open
  /\ ord[i].rem > 1
  /\ ord' = [ord EXCEPT ![i].rem = @ - 1]
  /\ UNCHANGED <<Reconciling, orphans, doomed>>

\* The exchange takes the cancel requests for the orders in c.
AcceptCancels(c) ==
  /\ ord' = [i \in Ids |-> IF i \in c \cap Live THEN [ord[i] EXCEPT !.cxl = TRUE] ELSE ord[i]]
  /\ doomed' = doomed \cup (c \cap Hidden)

-----------------------------------------------------------------------------
(* ensureLoaded and persist.  An empty batch of cancellations is not saved.*)

View == IF loaded THEN mem ELSE disk

\* Altered form for mutation: the block is not part of the saved state.
StoredUnblocked(m) ==
  IF m.ids = {} THEN [m EXCEPT !.hasBatch = FALSE, !.attempts = 0, !.blocked = FALSE]
                ELSE [m EXCEPT !.blocked = FALSE]

Stored(m) ==
  IF m.ids = {} THEN [m EXCEPT !.hasBatch = FALSE, !.attempts = 0] ELSE m

\* What Redis holds after a write of m with outcome w, when it held old before.
Written(old, m, w) == IF w = "lost" THEN old ELSE Stored(m)

\* block: the error of its own persist is ignored.
BlockedState(m) == [m EXCEPT !.blocked = TRUE]

\* The history of the block when it is raised with outcome w, and when it is saved.
Raised(w) == alarm' = IF alarm = "off" /\ w = "lost" THEN "unsaved" ELSE "saved"
Saved(w)  == alarm' = IF alarm = "unsaved" /\ w # "lost" THEN "saved" ELSE alarm

(* waitingForCancelConfirmation: what is left of the batch and the verdict.*)

\* Altered form for mutation: a confirmed batch is kept.
AwaitedForever(m, visible) == [m EXCEPT !.ids = IF @ \cap visible = {} THEN @ ELSE @ \cap visible]

Awaited(m, visible) ==
  IF m.ids = {} THEN m
  ELSE IF m.ids \cap visible = {}
    THEN [m EXCEPT !.hasBatch = FALSE, !.ids = {}, !.attempts = 0]
    ELSE [m EXCEPT !.ids = @ \cap visible]

Verdict(m, due) ==
  IF m.ids = {} THEN "go"
  ELSE IF ~due THEN "wait"
  ELSE IF m.attempts >= MaxCancelAttempts THEN "giveup"
  ELSE "go"

Dues == IF "slow" \in Faults THEN BOOLEAN ELSE {FALSE}

\* setPendingCancels; the count stops where the comparison does.
SetPendingCancels(m, c) ==
  [m EXCEPT !.hasBatch = TRUE, !.ids = c,
            !.attempts = IF ~m.hasBatch THEN 1
                         ELSE IF @ < MaxCancelAttempts THEN @ + 1 ELSE @]

-----------------------------------------------------------------------------
(* Matching of the managed orders with the target t.                       *)

Abs(n) == IF n < 0 THEN -n ELSE n

withinBPS(a, b) == Abs(a - b) * 10000 <= RepriceBPS * b

\* Altered form for mutation: a pending creation occupies nothing.
ReservedNothing(pending, t) == {}

\* The quotes that a creation not yet visible already occupies.
Reserved(pending, t) == Range(pending) \cap t

(* An order is kept for a quote, or replaced when it has reached its       *)
(* greatest age, if the price is near and the remaining quantity exact.    *)
Exact(o, q) ==
  /\ o.q.side = q.side
  /\ withinBPS(o.q.px, q.px)
  /\ o.rem = q.qty

\* With refreshes configured, near is enough for an order without executions.
Near(o, q) ==
  /\ MaxRefreshes > 0
  /\ o.q.side = q.side
  /\ withinBPS(o.q.px, q.px)
  /\ o.rem = o.q.qty

(* The loops pair orders and free quotes greedily, exact pairs before near *)
(* ones, in an order given by the exchange and the strategy: any pairing   *)
(* that cannot be extended, with exact pairs that cannot be extended.      *)
Pairings(free) ==
  {to \in [DOMAIN snap -> free \cup {NoQuote}] :
    /\ \A i \in DOMAIN to : to[i] # NoQuote => Exact(snap[i], to[i]) \/ Near(snap[i], to[i])
    /\ \A i, j \in DOMAIN to : i # j /\ to[i] # NoQuote => to[i] # to[j]
    /\ \A i \in DOMAIN to, q \in free :
         /\ Exact(snap[i], q) =>
              \/ to[i] # NoQuote /\ Exact(snap[i], to[i])
              \/ \E j \in DOMAIN to : to[j] = q /\ Exact(snap[j], q)
         /\ Near(snap[i], q) => to[i] # NoQuote \/ \E j \in DOMAIN to : to[j] = q}

(* Some of the paired orders are scheduled for a refresh: those of a near  *)
(* pair that are not young, and exact ones that reached their age.         *)
Refreshes(to) ==
  {r \in SUBSET {i \in DOMAIN to : to[i] # NoQuote} : Cardinality(r) <= MaxRefreshes}

\* Altered form for mutation: creations that are not visible yet are not counted.
VacanciesVisible(t, pending) == Cardinality(t) - Cardinality(DOMAIN snap)

Vacancies(t, pending) ==
  Cardinality(t) - Cardinality(DOMAIN snap) - Cardinality(DOMAIN pending)

\* Stale orders go first, then the scheduled refreshes, up to the batch size.
CancelBatches(to, refresh) ==
  LET stale == {i \in DOMAIN to : to[i] = NoQuote}
      n     == Min({Batch, Cardinality(stale) + Cardinality(refresh)})
  IN  {c \in SUBSET (stale \cup refresh) :
        /\ Cardinality(c) = n
        /\ stale \subseteq c \/ c \subseteq stale}

-----------------------------------------------------------------------------
(* ReadOrders is the engine's OpenOrders call at the start of the cycle.   *)

ReadOrders ==
  /\ ~cycle
  /\ cycle' = TRUE
  /\ snap' = [i \in Open |-> [q |-> ord[i].q, rem |-> ord[i].rem]]
  /\ UNCHANGED <<ord, mem, loaded, disk, alarm, orphans, doomed>>

EndCycle == cycle' = FALSE /\ snap' = Nothing
InCycle == cycle /\ EndCycle
Exchange == <<ord, orphans, doomed>>

\* ensureLoaded fails, in this call or in a cancellation.
LoadFails ==
  /\ "redis" \in Faults
  /\ InCycle
  /\ ~loaded
  /\ UNCHANGED <<Exchange, mem, loaded, disk, alarm>>

ReconcileRefused ==
  /\ InCycle
  /\ View.blocked
  /\ mem' = View
  /\ loaded' = TRUE
  /\ UNCHANGED <<Exchange, disk, alarm>>

\* The confirmation is awaited, or its bookkeeping cannot be saved.
ReconcileWaits(due, w) ==
  LET m == Awaited(View, DOMAIN snap)
  IN  /\ InCycle
      /\ ~View.blocked
      /\ Verdict(m, due) = "wait" \/ w # "ok"
      /\ mem' = m
      /\ loaded' = TRUE
      /\ disk' = Written(disk, m, w)
      /\ UNCHANGED <<Exchange, alarm>>

\* The orders are still open after the last attempt.
ReconcileGivesUp(due, w) ==
  LET m == Awaited(View, DOMAIN snap)
  IN  /\ InCycle
      /\ ~View.blocked
      /\ Verdict(m, due) = "giveup"
      /\ mem' = BlockedState(m)
      /\ loaded' = TRUE
      /\ disk' = Written(Stored(m), BlockedState(m), w)
      /\ Raised(w)
      /\ UNCHANGED Exchange

(* activePendingCreates: visible creations are dropped; the others are     *)
(* looked up when it is time, and dropped when no longer active.           *)

MayProceed(due) == ~View.blocked /\ Verdict(Awaited(View, DOMAIN snap), due) = "go"

Without(m, dropped) == [m EXCEPT !.creates = Restrict(@, DOMAIN @ \ dropped)]

Seen == Without(Awaited(View, DOMAIN snap), DOMAIN snap)

Inactive == DOMAIN Seen.creates \ Live

Lookups == IF "slow" \in Faults THEN SUBSET Inactive ELSE {Inactive}

Confirmed(removed) == Without(Seen, removed)

\* What was saved before the last of these changes.
SavedBefore(removed) ==
  IF removed = {} THEN {Awaited(View, DOMAIN snap), Seen}
                  ELSE {Confirmed(removed \ {last}) : last \in removed}

(* A status that stays uncertain for too long, or bookkeeping that cannot  *)
(* be saved, blocks the market.                                            *)
ReconcileUncertain(due, removed, w, wBlock) ==
  LET m == Confirmed(removed)
  IN  /\ InCycle
      /\ MayProceed(due)
      /\ \/ w # "ok"
         \/ "slow" \in Faults /\ m.creates # Nothing
      /\ mem' = BlockedState(m)
      /\ loaded' = TRUE
      /\ \E before \in SavedBefore(removed) :
           disk' = Written(Written(Stored(before), m, w), BlockedState(m), wBlock)
      /\ Raised(wBlock)
      /\ UNCHANGED Exchange

PairingsNow(t, removed) == Pairings(t \ Reserved(Confirmed(removed).creates, t))

\* The target, the looked-up creations and the pairing a cycle works with.
Planned(due, t, removed, to) ==
  /\ InCycle
  /\ MayProceed(due)
  /\ loaded' = TRUE
  /\ to \in PairingsNow(t, removed)

VacanciesNow(t, removed) == Vacancies(t, Confirmed(removed).creates)

\* Nothing is vacant and nothing has to be canceled.
ReconcileKeeps(due, t, removed, to, refresh) ==
  /\ Planned(due, t, removed, to)
  /\ VacanciesNow(t, removed) <= 0
  /\ {} \in CancelBatches(to, refresh)
  /\ mem' = Confirmed(removed)
  /\ disk' = Stored(Confirmed(removed))
  /\ UNCHANGED <<Exchange, alarm>>

(* A batch of stale or refreshed orders is canceled.  When a request of it *)
(* fails, or the write guard refuses, part of it was accepted and the      *)
(* market is blocked; nothing is recorded of the batch then.               *)
ReconcileCancels(due, t, removed, to, refresh, w) ==
  LET m == Confirmed(removed)
  IN  \E c \in CancelBatches(to, refresh) \ {{}} :
        /\ Planned(due, t, removed, to)
        /\ VacanciesNow(t, removed) <= 0
        /\ AcceptCancels(c)
        /\ mem' = SetPendingCancels(m, c)
        /\ disk' = Written(Stored(m), SetPendingCancels(m, c), w)
        /\ UNCHANGED <<alarm, orphans>>

ReconcileCancelFails(due, t, removed, to, refresh, w) ==
  LET m == Confirmed(removed)
  IN  \E c \in CancelBatches(to, refresh) \ {{}} : \E accepted \in SUBSET c :
        /\ "cancel" \in Faults
        /\ Planned(due, t, removed, to)
        /\ VacanciesNow(t, removed) <= 0
        /\ AcceptCancels(accepted)
        /\ mem' = BlockedState(m)
        /\ disk' = Written(Stored(m), BlockedState(m), w)
        /\ Raised(w)
        /\ UNCHANGED orphans

-----------------------------------------------------------------------------
(* placeMissing: as many free quotes as there are vacancies are submitted. *)

Missing(t, removed, to) ==
  LET free == t \ (Reserved(Confirmed(removed).creates, t) \cup Range(to))
      n    == Min({Batch, VacanciesNow(t, removed), Cardinality(free)})
  IN  kSubset(n, free)

\* The ids that nothing refers to when the reconciler's state is m.
FreeIds(m) == Ids \ (Live \cup DOMAIN m.creates \cup m.ids)

\* The orders the exchange may create when the quotes in s are submitted.
NewOrders(s, m) == UNION {Bijection(d, s) : d \in kSubset(Cardinality(s), FreeIds(m))}
Accepted(s, m)  == UNION {NewOrders(a, m) : a \in SUBSET s}

Create(new) ==
  ord' = [i \in Ids |->
           IF i \in DOMAIN new
             THEN [st |-> "hidden", q |-> new[i], rem |-> new[i].qty, cxl |-> FALSE]
             ELSE ord[i]]

\* addPendingCreate for the orders in recorded.
Recorded(m, new, recorded) ==
  [m EXCEPT !.creates = [i \in DOMAIN @ \cup recorded |->
                          IF i \in recorded THEN new[i] ELSE @[i]]]

Placing(due, t, removed, to, s) ==
  /\ Planned(due, t, removed, to)
  /\ VacanciesNow(t, removed) > 0
  /\ s \in Missing(t, removed, to)

(* Every request was answered: the active orders become pending creations, *)
(* each saved before the next.  Orders that come back rejected need no     *)
(* record.                                                                 *)
ReconcilePlaces(due, t, removed, to, s, new) ==
  LET placed == Recorded(Confirmed(removed), new, DOMAIN new)
  IN  /\ Placing(due, t, removed, to, s)
      /\ "submit" \in Faults \/ Range(new) = s
      /\ Create(new)
      /\ mem' = placed
      /\ disk' = Stored(placed)
      /\ UNCHANGED <<alarm, orphans, doomed>>

(* A submission failed: the requests before it were answered, the failed   *)
(* one may have created an order nevertheless, the rest was not sent.  The *)
(* market is blocked, unless it was the write guard that refused.          *)
ReconcilePlaceFails(due, t, removed, to, s, new, guard, w) ==
  \E recorded \in SUBSET DOMAIN new :
    LET placed == Recorded(Confirmed(removed), new, recorded)
    IN  /\ "submit" \in Faults
        /\ Placing(due, t, removed, to, s)
        /\ Cardinality(recorded) < Cardinality(s)
        /\ Cardinality(DOMAIN new \ recorded) <= IF guard THEN 0 ELSE 1
        /\ Create(new)
        /\ orphans' = orphans \cup (DOMAIN new \ recorded)
        /\ mem' = IF guard THEN placed ELSE BlockedState(placed)
        /\ disk' = IF guard THEN Stored(placed)
                   ELSE Written(Stored(placed), BlockedState(placed), w)
        /\ IF guard THEN UNCHANGED alarm ELSE Raised(w)
        /\ UNCHANGED <<doomed>>

(* An accepted order could not be saved: the market is blocked and the     *)
(* orders after it in the batch are not recorded at all.                   *)
ReconcileRecordFails(due, t, removed, to, s, new, w, wBlock) ==
  \E saved \in SUBSET DOMAIN new : \E last \in DOMAIN new \ saved :
    LET m      == Confirmed(removed)
        placed == Recorded(m, new, saved \cup {last})
    IN  /\ w # "ok"
        /\ Placing(due, t, removed, to, s)
        /\ Create(new)
        /\ orphans' = orphans \cup (DOMAIN new \ (saved \cup {last}))
        /\ mem' = BlockedState(placed)
        /\ disk' = Written(Written(Stored(Recorded(m, new, saved)), placed, w),
                           BlockedState(placed), wBlock)
        /\ Raised(wBlock)
        /\ UNCHANGED <<doomed>>

-----------------------------------------------------------------------------
(* CancelManagedGuardedWithResult reads the open orders itself and asks    *)
(* the exchange to cancel them and every pending creation.  It works on a  *)
(* blocked market too.                                                     *)

\* The batch before is awaited, was given up, or cannot be saved.
CancelManagedStops(due, w) ==
  LET m == Awaited(View, Open)
  IN  /\ EndCycle
      /\ Verdict(m, due) # "go" \/ w # "ok"
      /\ mem' = m
      /\ loaded' = TRUE
      /\ disk' = Written(disk, m, w)
      /\ Saved(w)
      /\ UNCHANGED Exchange

\* Altered form for mutation: only visible orders are canceled.
ToCancelVisible(m) == Open

ToCancel(m) == Open \cup DOMAIN m.creates

CancelManaged(due, w) ==
  LET m == Awaited(View, Open)
      c == ToCancel(m)
      n == [SetPendingCancels(m, c) EXCEPT !.creates = Nothing]
  IN  /\ EndCycle
      /\ Verdict(m, due) = "go"
      /\ AcceptCancels(c)
      /\ mem' = n
      /\ loaded' = TRUE
      /\ disk' = Written(Stored(m), n, w)
      /\ Saved("ok")
      /\ UNCHANGED orphans

CancelManagedFails(due, w) ==
  LET m == Awaited(View, Open)
  IN  /\ "cancel" \in Faults
      /\ EndCycle
      /\ Verdict(m, due) = "go"
      /\ ToCancel(m) # {}
      /\ \E accepted \in SUBSET ToCancel(m) : AcceptCancels(accepted)
      /\ mem' = BlockedState(m)
      /\ loaded' = TRUE
      /\ disk' = Written(Stored(m), BlockedState(m), w)
      /\ Raised(w)
      /\ UNCHANGED orphans

\* An operator's reconcile request or resume.
ClearBlocked(w) ==
  LET m == [View EXCEPT !.blocked = FALSE]
  IN  /\ ~cycle
      /\ mem' = m
      /\ loaded' = TRUE
      /\ disk' = Written(disk, m, w)
      /\ alarm' = "off"
      /\ UNCHANGED <<Exchange, cycle, snap>>

(* A new Reconciler over the same Redis: what memory alone knew is lost.   *)
Restart ==
  /\ "crash" \in Faults
  /\ mem' = Empty
  /\ loaded' = FALSE
  /\ EndCycle
  /\ alarm' = IF alarm = "unsaved" THEN "off" ELSE alarm
  /\ orphans' = orphans \cup (Hidden \cap (DOMAIN mem.creates \ DOMAIN disk.creates))
  /\ UNCHANGED <<ord, disk, doomed>>

(* SaveOMSState stores the state for seven days, counted from the last     *)
(* save.  A market that is paused, skipped or without a process for longer *)
(* has no saved state any more; no cycle lasts that long.  What memory     *)
(* knows stays, but the next process does not learn of it.                 *)
Expire ==
  /\ "expire" \in Faults
  /\ ~cycle
  /\ disk # Empty
  /\ disk' = Empty
  /\ alarm' = IF alarm = "off" \/ ~loaded THEN "off" ELSE "unsaved"
  /\ orphans' = IF loaded THEN orphans ELSE orphans \cup (Hidden \cap DOMAIN disk.creates)
  /\ UNCHANGED <<ord, mem, loaded, cycle, snap, doomed>>

-----------------------------------------------------------------------------
Book == [st : {"hidden", "open"}, q : Quotes, rem : Nat, cxl : BOOLEAN] \cup {Gone}

InitFrom(book) ==
  /\ ord = book
  /\ mem = Empty
  /\ loaded = FALSE
  /\ disk = Empty
  /\ cycle = FALSE
  /\ snap = Nothing
  /\ alarm = "off"
  /\ orphans = {}
  /\ doomed = {}

Init == InitFrom([i \in Ids |-> Gone])

(* A call returns without an error when it waits, keeps, cancels or        *)
(* places; the engine treats every other result as an OMS failure.         *)
ReconcileSucceeds ==
  /\ cycle
  /\ \E due \in Dues :
       \/ Verdict(Awaited(View, DOMAIN snap), due) = "wait" /\ ReconcileWaits(due, "ok")
       \/ \E t \in Targets, removed \in Lookups : \E to \in PairingsNow(t, removed) :
            \/ \E s \in Missing(t, removed, to) : \E new \in Accepted(s, Confirmed(removed)) :
                 ReconcilePlaces(due, t, removed, to, s, new)
            \/ \E refresh \in Refreshes(to) :
                 \/ ReconcileKeeps(due, t, removed, to, refresh)
                 \/ ReconcileCancels(due, t, removed, to, refresh, "ok")

ReconcilePlanFails(due, t, removed, to) ==
  \/ \E s \in Missing(t, removed, to) : \E new \in Accepted(s, Confirmed(removed)) :
       \/ \E guard \in BOOLEAN, w \in Outcomes :
            ReconcilePlaceFails(due, t, removed, to, s, new, guard, w)
       \/ \E w, wBlock \in Outcomes :
            ReconcileRecordFails(due, t, removed, to, s, new, w, wBlock)
  \/ \E refresh \in Refreshes(to) :
       \/ \E w \in Outcomes \ {"ok"} : ReconcileCancels(due, t, removed, to, refresh, w)
       \/ \E w \in Outcomes : ReconcileCancelFails(due, t, removed, to, refresh, w)

ReconcileFails ==
  /\ cycle
  /\ \/ LoadFails
     \/ ReconcileRefused
     \/ \E due \in Dues :
          \/ \E w \in Outcomes \ {"ok"} : ReconcileWaits(due, w)
          \/ \E w \in Outcomes : ReconcileGivesUp(due, w)
          \/ \E removed \in Lookups, w, wBlock \in Outcomes :
               ReconcileUncertain(due, removed, w, wBlock)
          \/ \E t \in Targets, removed \in Lookups : \E to \in PairingsNow(t, removed) :
               ReconcilePlanFails(due, t, removed, to)

Reconcile == ReconcileSucceeds \/ ReconcileFails

CancelSucceeds ==
  \E due \in Dues :
    \/ Verdict(Awaited(View, Open), due) = "wait" /\ CancelManagedStops(due, "ok")
    \/ CancelManaged(due, "ok")

CancelFails ==
  \E due \in Dues, w \in Outcomes :
    \/ /\ Verdict(Awaited(View, Open), due) = "giveup" \/ w # "ok"
       /\ CancelManagedStops(due, w)
    \/ w # "ok" /\ CancelManaged(due, w)
    \/ CancelManagedFails(due, w)

CancelAll == CancelSucceeds \/ CancelFails

ExchangeMoves == \E i \in Ids : Appear(i) \/ CancelDone(i) \/ Fill(i) \/ PartialFill(i)

Next ==
  \/ ExchangeMoves
  \/ ReadOrders
  \/ Reconcile
  \/ CancelAll
  \/ \E w \in Outcomes : ClearBlocked(w)
  \/ Restart
  \/ Expire

Spec == Init /\ [][Next]_vars

(* A quiet market: a new process finds a book of any orders (few enough    *)
(* to leave ids for a full target), nobody asks for cancellations and the  *)
(* process stays up.  The engine's loop goes on (cmd/fluxmaker/main.go),   *)
(* and the exchange lists every accepted order and completes every         *)
(* acknowledged cancellation eventually.                                   *)
Found == {[st |-> st, q |-> q, rem |-> q.qty, cxl |-> FALSE] :
            st \in {"hidden", "open"}, q \in Quotes}

Books ==
  {book \in [Ids -> {Gone} \cup Found] :
    Cardinality({i \in Ids : book[i] # Gone}) <= Cardinality(Ids) - Levels}

QuietNext == ExchangeMoves \/ ReadOrders \/ Reconcile

QuietSpec ==
  /\ \E book \in Books : InitFrom(book)
  /\ [][QuietNext]_vars
  /\ WF_vars(ReadOrders)
  /\ WF_vars(Reconcile)
  /\ \A i \in Ids : WF_vars(Appear(i)) /\ WF_vars(CancelDone(i))

-----------------------------------------------------------------------------
(* Every variable keeps its type, and the saved state has a batch of       *)
(* cancellations exactly when it has orders in it.                         *)
TypeOK ==
  /\ ord \in [Ids -> Book]
  /\ mem \in States
  /\ disk \in States
  /\ disk.hasBatch <=> disk.ids # {}
  /\ mem.ids # {} => mem.hasBatch
  /\ loaded \in BOOLEAN
  /\ cycle \in BOOLEAN
  /\ DOMAIN snap \subseteq Ids
  /\ snap \in [DOMAIN snap -> [q : Quotes, rem : Nat]]
  /\ alarm \in {"off", "unsaved", "saved"}
  /\ orphans \subseteq Live
  /\ doomed \subseteq Live

(* The market never carries more orders than the target has levels, though *)
(* orders become visible late, cancellations take effect late, the list of *)
(* open orders is stale when it is used and the process restarts.  Not     *)
(* counted are orders whose acceptance is recorded nowhere (a submission   *)
(* of unknown outcome, a failed save and a crash, an expired saved state)  *)
(* and orders that were canceled before they became visible.               *)
NoOverfill == Cardinality(Live \ (orphans \cup doomed)) <= Levels

(* A target level is never submitted again while its creation is pending:  *)
(* no two pending creations are for the same quote (README.md:135).        *)
PendingTargetsDistinct ==
  \A i, j \in DOMAIN View.creates : i # j => View.creates[i] # View.creates[j]

(* A live order the exchange has not listed yet is known as a pending      *)
(* creation in memory or in Redis, unless its acceptance was never         *)
(* recorded, the record expired unread, or its cancellation has been       *)
(* requested.                                                              *)
HiddenOrdersTracked == Hidden \subseteq DOMAIN View.creates \cup orphans \cup doomed

(* After an uncertain result no order is submitted, in this process or the *)
(* next, until an operator clears the block.  It is lost only when the     *)
(* process ends while Redis does not hold it, because its save failed or   *)
(* seven days passed since the last one, or when it expires before a new   *)
(* process reads it.                                                       *)
BlockHolds == [][alarm # "off" /\ cycle => Live' \subseteq Live]_vars

\* The open orders are those of the target, up to the reprice threshold.
InBook(t) ==
  /\ Hidden = {}
  /\ \E to \in Bijection(Open, t) : \A i \in Open : Exact(ord[i], to[i])

(* In a quiet market with one target the book becomes the target and stays *)
(* so, whatever orders it started with, though a cycle changes few orders  *)
(* and creations and cancellations take effect late.                       *)
Converges == \A t \in Targets : <>[]InBook(t)

=============================================================================
