--------------------------- MODULE CompletionStore ---------------------------
(***************************************************************************)
(* The step completion store (src/src/global-state/completion-store.ts)    *)
(* of every browser tab of one origin, the localStorage they share, and    *)
(* the `storage` events the browser sends between them.                    *)
(*                                                                         *)
(* A slot is one (contentKey, sectionId) pair: one localStorage key, one   *)
(* bucket of `entries`.  The content keys of the slots matter only where   *)
(* user-storage.ts scans localStorage by key prefix.                       *)
(*                                                                         *)
(* Abstractions.                                                           *)
(*  - `hydrationVersion` is only ever compared with the value a read       *)
(*    captured, and only ever grows: a read is kept as "live" while the    *)
(*    versions agree and as one of `stale` afterwards.                     *)
(*  - `sectionVersions` is only compared for change by a subscriber; what  *)
(*    matters to a re-render after an eviction is whether it was non-zero  *)
(*    (`bumped`).                                                          *)
(*  - `completedAt`, analytics and the progress events are left out, and so  *)
(*    is the order of the stored ids: a write that only reorders them would *)
(*    raise one more event than here, hence one more eviction.             *)
(***************************************************************************)
EXTENDS Integers, FiniteSets

CONSTANTS
    Tabs,         \* browser tabs on the origin, each with its own module instance
    Slots,        \* (contentKey, sectionId) pairs
    Steps,        \* step ids a section may hold
    Roster,       \* Roster[sl]: the step ids the section renders today
    ContentKeys,  \* content keys
    KeyOf,        \* KeyOf[sl]: the content key of a slot
    Prefix,       \* <<k, j>>: the stored keys of j start with "<prefix>k-"
    Preview,      \* content keys of block-editor previews (never persisted)
    Mounted,      \* slots whose hooks are mounted in every tab
    Counted,      \* content keys whose completed count some component reads
    Reasons,      \* ProgressReason of a completed step, "none" when restored
    OriginWipes,  \* TRUE: some page of the origin may call localStorage.clear()
    SlowReads,    \* TRUE: a storage read may outlive the task that began it
    MaxEvents,    \* undelivered storage events kept per slot and tab; more coalesce
    MaxStale      \* invalidated reads kept in flight per slot; more coalesce

Absent == "absent"   \* the step has no entry in the bucket
Skipped == "skipped"
NoReason == "none"
NoCount == -1        \* completedCountCache holds nothing for the key

ASSUME ConstantsOK ==
    /\ IsFiniteSet(Slots) /\ IsFiniteSet(Steps)
    /\ Roster \in [Slots -> SUBSET Steps]
    /\ KeyOf \in [Slots -> ContentKeys]
    /\ Prefix \subseteq ContentKeys \X ContentKeys
    /\ \A k \in ContentKeys : <<k, k>> \in Prefix
    /\ Preview \subseteq ContentKeys
    /\ Mounted \subseteq Slots /\ Counted \subseteq ContentKeys
    /\ NoReason \in Reasons /\ Absent \notin Reasons
    /\ OriginWipes \in BOOLEAN /\ SlowReads \in BOOLEAN
    /\ MaxEvents \in Nat \ {0} /\ MaxStale \in Nat \ {0}

VARIABLES
    storage,    \* localStorage: the step ids stored under each slot's key
    tab,        \* per tab and slot: the store's module state (SlotState)
    counts,     \* per tab: completedCountCache, by content key
    rerender,   \* per tab: mounted slots React has yet to render
    resetting,  \* per tab: keys whose reset cleared storage but did not evict yet
    events,     \* per tab and slot: storage events not yet delivered
    wiped       \* tabs that have an undelivered `key === null` event

vars == <<storage, tab, counts, rerender, resetting, events, wiped>>

Untracked == [kind |-> "none", ids |-> {}]
ClearedAll == [kind |-> "all", ids |-> {}]
Tracking == [kind : {"ids"}, ids : SUBSET Steps] \cup {Untracked, ClearedAll}

SlotState == [cache : [Steps -> Reasons \cup {Absent}],  \* entries
              hydrated : BOOLEAN,                        \* in hydratedSections
              tracking : Tracking,                       \* hydrationClears
              reading : BOOLEAN,                         \* a live getCompleted is in flight
              snap : SUBSET Steps,                       \* ... and what it read
              stale : Nat,                               \* invalidated reads in flight
              bumped : BOOLEAN]                          \* sectionVersions is non-zero

EmptySlot == [cache |-> [s \in Steps |-> Absent], hydrated |-> FALSE,
              tracking |-> Untracked, reading |-> FALSE, snap |-> {},
              stale |-> 0, bumped |-> FALSE]

TypeOK ==
    /\ storage \in [Slots -> SUBSET Steps]
    /\ tab \in [Tabs -> [Slots -> SlotState]]
    /\ counts \in [Tabs -> [Counted -> Nat \cup {NoCount}]]
    /\ rerender \in [Tabs -> SUBSET Mounted]
    /\ resetting \in [Tabs -> SUBSET ContentKeys]
    /\ events \in [Tabs -> [Slots -> Nat]]
    /\ wiped \subseteq Tabs

(* Progress of earlier sessions may be in storage, orphans of edited guides *)
(* included; every tab has just loaded.                                     *)
Init ==
    /\ storage \in {st \in [Slots -> SUBSET Steps] :
                       \A sl \in Slots : KeyOf[sl] \in Preview => st[sl] = {}}
    /\ tab = [t \in Tabs |-> [sl \in Slots |-> EmptySlot]]
    /\ counts = [t \in Tabs |-> [k \in Counted |-> NoCount]]
    /\ rerender = [t \in Tabs |-> Mounted]
    /\ resetting = [t \in Tabs |-> {}]
    /\ events = [t \in Tabs |-> [sl \in Slots |-> 0]]
    /\ wiped = {}

(***************************************************************************)
(* What the module's functions do to one bucket                            *)
(***************************************************************************)
Completed(v) == {s \in Steps : v.cache[s] # Absent}

EnsureHydrated(v, stored) ==
    IF v.hydrated THEN v
    ELSE [v EXCEPT !.hydrated = TRUE, !.reading = TRUE, !.snap = stored,
                   !.tracking = [kind |-> "ids", ids |-> {}]]

(* Mutant: the clear is added without asking for 'all' (the `.add` throws). *)
NoteHydrationClearUnchecked(v, ids) ==
    IF v.tracking # Untracked
    THEN [v EXCEPT !.tracking.ids = @ \cup ids]
    ELSE v

NoteHydrationClear(v, ids) ==
    IF v.tracking.kind = "ids"
    THEN [v EXCEPT !.tracking.ids = @ \cup ids]
    ELSE v

NoteHydrationClearAll(v) ==
    IF v.tracking.kind = "ids"
    THEN [v EXCEPT !.tracking = ClearedAll]
    ELSE v

PutEntries(v, ids, reason) ==
    [v EXCEPT !.cache = [s \in Steps |-> IF s \in ids THEN reason ELSE v.cache[s]],
              !.bumped = TRUE]

DeleteEntries(v, ids) == PutEntries(v, ids, Absent)

OneMore(n, bound) == IF n < bound THEN n + 1 ELSE n

(* evictSectionCacheForKey, and evictContentCache slot by slot: whatever    *)
(* read is in flight now carries an old version.                            *)
Evict(v) ==
    [EmptySlot EXCEPT !.stale = IF v.reading THEN OneMore(v.stale, MaxStale) ELSE v.stale]

(***************************************************************************)
(* Storage: setCompleted / clear, the events they raise, the count cache   *)
(***************************************************************************)
SlotsUnder(k) == {sl \in Slots : <<k, KeyOf[sl]>> \in Prefix}

CountAll(st, k) ==
    Cardinality({p \in SlotsUnder(k) \X Steps : p[2] \in st[p[1]]})

SetCount(t, keys, n) ==
    counts' = [counts EXCEPT ![t] = [k \in Counted |-> IF k \in keys THEN n ELSE @[k]]]

(* The browser tells every other tab about each key whose value changed.    *)
Announce(t, changed) ==
    events' = [u \in Tabs |-> [sl \in Slots |->
                 IF u # t /\ sl \in changed
                 THEN OneMore(events[u][sl], MaxEvents)
                 ELSE events[u][sl]]]

WriteStorage(t, st) ==
    /\ storage' = st
    /\ Announce(t, {sl \in Slots : st[sl] # storage[sl]})

PersistSection(t, sl, ids) ==
    IF KeyOf[sl] \in Preview
    THEN UNCHANGED <<storage, events, counts>>
    ELSE LET st == [storage EXCEPT ![sl] = ids] IN
         /\ WriteStorage(t, st)
         /\ SetCount(t, {KeyOf[sl]}, CountAll(st, KeyOf[sl]))

(* The bucket becomes v; persistSection runs when the code reaches it.      *)
Keep(t, sl, v) ==
    /\ tab' = [tab EXCEPT ![t][sl] = v]
    /\ UNCHANGED <<storage, events, counts>>

KeepAndPersist(t, sl, v) ==
    /\ tab' = [tab EXCEPT ![t][sl] = v]
    /\ PersistSection(t, sl, Completed(v))

Store(t, sl, v, persist) ==
    IF persist THEN KeepAndPersist(t, sl, v) ELSE Keep(t, sl, v)

(***************************************************************************)
(* Operations of the store                                                 *)
(***************************************************************************)
(* A hook renders: useStepCompletion / useSectionCompletion.                *)
Render(t, sl) ==
    /\ rerender' = [rerender EXCEPT ![t] = @ \ {sl}]
    /\ Keep(t, sl, EnsureHydrated(tab[t][sl], storage[sl]))
    /\ UNCHANGED <<resetting, wiped>>

(* A preview section unmounts: evictSectionCache.                           *)
UnmountPreview(t, sl) ==
    /\ KeyOf[sl] \in Preview
    /\ Keep(t, sl, Evict(tab[t][sl]))
    /\ UNCHANGED <<rerender, resetting, wiped>>

(* Mutant: clears issued while the read was in flight are not left out. *)
MergeSnapshotWhole(v) == v.snap \ Completed(v)

(* What a read adds to the bucket: nothing present, nothing cleared meanwhile. *)
MergeSnapshot(v) == (v.snap \ v.tracking.ids) \ Completed(v)

(* Mutant: what was reset during the read is not written back as reset. *)
WritesBackAdded(v, added) == added # {}

(* Storage is written again when the read adds steps, or leaves some out.   *)
WritesBack(v, added) == added # {} \/ v.tracking.ids # {}

(* The `.then` of the live read.                                            *)
ResolveRead(t, sl) ==
    LET v == tab[t][sl]
        added == IF v.tracking.kind = "all" THEN {} ELSE MergeSnapshot(v)
        settled == [v EXCEPT !.reading = FALSE, !.snap = {}, !.tracking = Untracked]
        w == IF added = {} THEN settled ELSE PutEntries(settled, added, NoReason)
    IN /\ v.reading
       /\ Store(t, sl, w, WritesBack(v, added))
       /\ UNCHANGED <<rerender, resetting, wiped>>

(* Mutant: the stale `.then` also takes the slot off hydratedSections. *)
ForgetHydration(v) == [v EXCEPT !.tracking = Untracked, !.hydrated = FALSE]

(* The `.then` of a read whose version was bumped: it forgets the clear     *)
(* tracking filed under the slot's key, whoever filed it.                   *)
ForgetTracking(v) == [v EXCEPT !.tracking = Untracked]

DropStaleRead(t, sl) ==
    /\ tab[t][sl].stale > 0
    /\ Keep(t, sl, [ForgetTracking(tab[t][sl]) EXCEPT !.stale = @ - 1])
    /\ UNCHANGED <<rerender, resetting, wiped>>

(* 'skipped' is sticky; a repeat of the same reason changes nothing.        *)
AlreadyMarked(v, s, reason) == v.cache[s] \in {reason, Skipped}

MarkStepCompleted(t, sl, s, reason) ==
    LET v == EnsureHydrated(tab[t][sl], storage[sl])
    IN /\ s \in Roster[sl]
       /\ IF AlreadyMarked(v, s, reason)
          THEN Keep(t, sl, v)
          ELSE KeepAndPersist(t, sl, PutEntries(v, {s}, reason))
       /\ UNCHANGED <<rerender, resetting, wiped>>

(* The objectives path: every step of the section in one write.             *)
MarkStepsCompleted(t, sl, ids, reason) ==
    LET v == EnsureHydrated(tab[t][sl], storage[sl])
        new == ids \ Completed(v)
    IN /\ ids \subseteq Roster[sl] /\ ids # {}
       /\ Store(t, sl, IF new = {} THEN v ELSE PutEntries(v, new, reason), new # {})
       /\ UNCHANGED <<rerender, resetting, wiped>>

(* Mutant: resetting some steps clears the section's whole bucket. *)
ResetStepsWhole(t, sl, ids) ==
    LET v == NoteHydrationClear(tab[t][sl], ids)
        gone == ids \cap Completed(v)
    IN /\ ids \subseteq Roster[sl] /\ ids # {}
       /\ Store(t, sl, IF gone = {} THEN v ELSE DeleteEntries(v, Steps), gone # {})
       /\ UNCHANGED <<rerender, resetting, wiped>>

(* resetStep is the case of one id: its early return and resetSteps' both   *)
(* leave a bucket without the ids alone, once the clear has been noted.     *)
ResetSteps(t, sl, ids) ==
    LET v == NoteHydrationClear(tab[t][sl], ids)
        gone == ids \cap Completed(v)
    IN /\ ids \subseteq Roster[sl] /\ ids # {}
       /\ Store(t, sl, IF gone = {} THEN v ELSE DeleteEntries(v, gone), gone # {})
       /\ UNCHANGED <<rerender, resetting, wiped>>

(* Mutant: a reset that finds no entry yet leaves storage alone. *)
ResetSectionIfCached(t, sl) ==
    LET v == NoteHydrationClearAll(tab[t][sl])
        had == Completed(v) # {}
    IN /\ Store(t, sl, IF had THEN DeleteEntries(v, Steps) ELSE v, had)
       /\ UNCHANGED <<rerender, resetting, wiped>>

ResetSection(t, sl) ==
    LET v == NoteHydrationClearAll(tab[t][sl])
        had == Completed(v) # {}
        pending == v.tracking.kind # "none"
    IN /\ Store(t, sl, IF had THEN DeleteEntries(v, Steps) ELSE v, had \/ pending)
       /\ UNCHANGED <<rerender, resetting, wiped>>

ReconcileSection(t, sl) ==
    LET v == EnsureHydrated(tab[t][sl], storage[sl])
        orphaned == Completed(v) \ Roster[sl]
    IN /\ KeyOf[sl] \notin Preview /\ Roster[sl] # {}
       /\ Store(t, sl, IF orphaned = {} THEN v ELSE DeleteEntries(v, orphaned), orphaned # {})
       /\ UNCHANGED <<rerender, resetting, wiped>>

(* getGuideProgress and the document step counter read through the cache.   *)
CountAllCompleted(t, k) ==
    /\ counts[t][k] = NoCount
    /\ SetCount(t, {k}, CountAll(storage, k))
    /\ UNCHANGED <<storage, tab, rerender, resetting, events, wiped>>

(***************************************************************************)
(* Guide, path and global resets: clear storage, await the percentage      *)
(* record, then evict.                                                     *)
(***************************************************************************)
(* Mutant: the cached counts of the cleared keys stay. *)
ClearAllForContentUncounted(t, keys) ==
    /\ resetting[t] = {} /\ keys # {}
    /\ resetting' = [resetting EXCEPT ![t] = keys]
    /\ WriteStorage(t, [sl \in Slots |->
                          IF \E k \in keys : sl \in SlotsUnder(k) THEN {} ELSE storage[sl]])
    /\ UNCHANGED <<tab, counts, rerender, wiped>>

ClearAllForContent(t, keys) ==
    /\ resetting[t] = {} /\ keys # {}
    /\ resetting' = [resetting EXCEPT ![t] = keys]
    /\ WriteStorage(t, [sl \in Slots |->
                          IF \E k \in keys : sl \in SlotsUnder(k) THEN {} ELSE storage[sl]])
    /\ SetCount(t, keys, NoCount)
    /\ UNCHANGED <<tab, rerender, wiped>>

(* notify() makes React compare snapshots: a subscriber is rendered again   *)
(* only when its section version, and with it some entry, was there to lose.*)
MustRerender(t, evicted) == {sl \in evicted \cap Mounted : tab[t][sl].bumped}

EvictSlots(t, evicted) ==
    /\ tab' = [tab EXCEPT ![t] = [sl \in Slots |->
                 IF sl \in evicted THEN Evict(tab[t][sl]) ELSE tab[t][sl]]]
    /\ rerender' = [rerender EXCEPT ![t] = @ \cup MustRerender(t, evicted)]

EvictContentCache(t) ==
    /\ resetting[t] # {}
    /\ EvictSlots(t, {sl \in Slots : KeyOf[sl] \in resetting[t]})
    /\ resetting' = [resetting EXCEPT ![t] = {}]
    /\ UNCHANGED <<storage, counts, events, wiped>>

(***************************************************************************)
(* Between tabs                                                            *)
(***************************************************************************)
Settled(t) == \A sl \in Slots : ~tab[t][sl].reading /\ tab[t][sl].stale = 0

(* The browser starts a task in the tab (an event, an unload) when the      *)
(* microtasks of the reads have run: localStorage-backed reads never        *)
(* outlive their task.                                                      *)
TaskMayStart(t) == SlowReads \/ Settled(t)

HandleStorageEvent(t, sl) ==
    /\ events[t][sl] > 0 /\ TaskMayStart(t)
    /\ events' = [events EXCEPT ![t][sl] = @ - 1]
    /\ IF tab[t][sl].hydrated
       THEN /\ EvictSlots(t, {sl})
            /\ SetCount(t, {KeyOf[sl]}, NoCount)
       ELSE UNCHANGED <<tab, rerender, counts>>
    /\ UNCHANGED <<storage, resetting, wiped>>

(* Mutant: an event without a key is ignored. *)
HandleWipeEventIgnored(t) ==
    /\ t \in wiped /\ TaskMayStart(t)
    /\ wiped' = wiped \ {t}
    /\ UNCHANGED <<storage, tab, counts, rerender, resetting, events>>

(* `event.key === null`: evictAllContentCaches.                             *)
HandleWipeEvent(t) ==
    /\ t \in wiped /\ TaskMayStart(t)
    /\ wiped' = wiped \ {t}
    /\ EvictSlots(t, Slots)
    /\ UNCHANGED <<storage, counts, resetting, events>>

(* Another page of the origin calls localStorage.clear().                   *)
WipeStorage ==
    /\ OriginWipes /\ wiped = {} /\ \E sl \in Slots : storage[sl] # {}
    /\ wiped' = Tabs
    /\ storage' = [sl \in Slots |-> {}]
    /\ UNCHANGED <<tab, counts, rerender, resetting, events>>

(* The tab is reloaded: its module state starts over, storage stays.        *)
Reload(t) ==
    /\ TaskMayStart(t)
    /\ tab' = [tab EXCEPT ![t] = [sl \in Slots |-> EmptySlot]]
    /\ SetCount(t, Counted, NoCount)
    /\ rerender' = [rerender EXCEPT ![t] = Mounted]
    /\ resetting' = [resetting EXCEPT ![t] = {}]
    /\ events' = [events EXCEPT ![t] = [sl \in Slots |-> 0]]
    /\ wiped' = wiped \ {t}
    /\ UNCHANGED storage

Next ==
    \/ \E t \in Tabs, sl \in Slots :
          \/ Render(t, sl)
          \/ UnmountPreview(t, sl)
          \/ ResolveRead(t, sl)
          \/ DropStaleRead(t, sl)
          \/ \E s \in Steps, r \in Reasons \ {NoReason} : MarkStepCompleted(t, sl, s, r)
          \/ \E r \in Reasons \ {NoReason, Skipped} : MarkStepsCompleted(t, sl, Roster[sl], r)
          \/ \E ids \in SUBSET Steps : ResetSteps(t, sl, ids)
          \/ ResetSection(t, sl)
          \/ ReconcileSection(t, sl)
          \/ HandleStorageEvent(t, sl)
    \/ \E t \in Tabs, k \in Counted : CountAllCompleted(t, k)
    \/ \E t \in Tabs, keys \in SUBSET ContentKeys : ClearAllForContent(t, keys)
    \/ \E t \in Tabs : EvictContentCache(t)
    \/ \E t \in Tabs : HandleWipeEvent(t)
    \/ \E t \in Tabs : Reload(t)
    \/ WipeStorage

Spec == Init /\ [][Next]_vars

(* Promises resolve, the browser delivers events, React renders what it     *)
(* scheduled, and a reset that cleared storage goes on to evict.            *)
Fairness ==
    /\ \A t \in Tabs, sl \in Slots :
          /\ WF_vars(ResolveRead(t, sl))
          /\ WF_vars(DropStaleRead(t, sl))
          /\ WF_vars(sl \in rerender[t] /\ Render(t, sl))
          /\ WF_vars(HandleStorageEvent(t, sl))
    /\ \A t \in Tabs : WF_vars(EvictContentCache(t)) /\ WF_vars(HandleWipeEvent(t))

FairSpec == Spec /\ Fairness

(***************************************************************************)
(* Properties                                                              *)
(***************************************************************************)
(* No other content key's stored keys are swept up with this slot's.        *)
Unshadowed(sl) == \A k \in ContentKeys : <<k, KeyOf[sl]>> \in Prefix => k = KeyOf[sl]

(* Nothing is on its way to tab t that concerns the slot.                   *)
Quiet(t, sl) ==
    /\ ~tab[t][sl].reading
    /\ events[t][sl] = 0 /\ t \notin wiped
    /\ KeyOf[sl] \notin resetting[t]

(* Coherence of the per-tab caches with the shared localStorage: once a     *)
(* tab has finished hydrating a section and has seen every storage event,   *)
(* its cache holds exactly the stored steps, whatever the tabs marked,      *)
(* reset, reconciled or evicted in between (handleStorageEvent, 831-844:    *)
(* without it "tab B's stale cache silently writes back").                  *)
CacheMatchesStorage ==
    \A t \in Tabs, sl \in Slots :
        (/\ tab[t][sl].hydrated /\ Quiet(t, sl)
         /\ Unshadowed(sl) /\ KeyOf[sl] \notin Preview)
        => Completed(tab[t][sl]) = storage[sl]

(* The cached count of a content key is the count of what is stored, once   *)
(* the tab has seen every storage event (completedCountCache, 942-944:      *)
(* "Invalidated by setCompleted, clear, and clearAllForContent").           *)
CountsAreFresh ==
    \A t \in Tabs, k \in Counted :
        (/\ counts[t][k] # NoCount /\ t \notin wiped
         /\ \A sl \in SlotsUnder(k) : events[t][sl] = 0)
        => counts[t][k] = CountAll(storage, k)

(* Hydration never wedges: a section React has to render, because the page  *)
(* loaded or an eviction dropped progress it showed, ends up hydrated with  *)
(* its read resolved, stale reads, evictions and other tabs notwithstanding,*)
(* unless a guide reset in the same tab drops the read once more.           *)
RenderedSectionsHydrate ==
    \A t \in Tabs, sl \in Mounted :
        sl \in rerender[t] ~> \/ tab[t][sl].hydrated /\ ~tab[t][sl].reading
                             \/ resetting[t] # {}

=============================================================================
