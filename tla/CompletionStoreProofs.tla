------------------------ MODULE CompletionStoreProofs ------------------------
(***************************************************************************)
(* Type correctness and cross-tab coherence of the completion store, for   *)
(* every number of tabs, sections and steps and every bound.               *)
(***************************************************************************)
EXTENDS CompletionStore, FiniteSetTheorems, TLAPS

(***************************************************************************)
(* The inductive invariant.  Coherence is not inductive by itself: while a *)
(* read is in flight the cache may hold nothing yet, and then it is the    *)
(* snapshot that equals storage, and no whole-section clear is pending.    *)
(***************************************************************************)
Undisturbed(t, sl) ==
    /\ events[t][sl] = 0 /\ t \notin wiped
    /\ KeyOf[sl] \notin resetting[t]

Agrees(v, stored) ==
    \/ Completed(v) = stored
    \/ /\ v.reading /\ v.snap = stored
       /\ Completed(v) = {} /\ v.tracking.kind # "all"

Persisted(sl) == Unshadowed(sl) /\ KeyOf[sl] \notin Preview

WellFormed(v) ==
    /\ v.reading => v.hydrated
    /\ ~v.hydrated => Completed(v) = {}

Coherent(t, sl) ==
    tab[t][sl].hydrated /\ Undisturbed(t, sl) /\ Persisted(sl)
    => Agrees(tab[t][sl], storage[sl])

IInv ==
    /\ TypeOK
    /\ \A t \in Tabs, sl \in Slots : WellFormed(tab[t][sl]) /\ Coherent(t, sl)

(***************************************************************************)
(* What the operators on one bucket return                                 *)
(***************************************************************************)
(* An empty bucket is well typed, holds nothing and is not hydrated. *)
LEMMA EmptySlotFacts ==
    /\ EmptySlot \in SlotState
    /\ Completed(EmptySlot) = {} /\ ~EmptySlot.hydrated /\ ~EmptySlot.reading
BY ConstantsOK DEF EmptySlot, SlotState, Completed, Untracked, Tracking, ClearedAll

(* PutEntries adds exactly the ids to the completed ones. *)
LEMMA PutEntriesFacts ==
    ASSUME NEW v \in SlotState, NEW ids \in SUBSET Steps, NEW r \in Reasons
    PROVE  /\ PutEntries(v, ids, r) \in SlotState
           /\ Completed(PutEntries(v, ids, r)) = Completed(v) \cup ids
           /\ PutEntries(v, ids, r).hydrated = v.hydrated
           /\ PutEntries(v, ids, r).reading = v.reading
           /\ PutEntries(v, ids, r).snap = v.snap
           /\ PutEntries(v, ids, r).tracking = v.tracking
BY ConstantsOK DEF PutEntries, SlotState, Completed

(* DeleteEntries removes exactly the ids. *)
LEMMA DeleteEntriesFacts ==
    ASSUME NEW v \in SlotState, NEW ids \in SUBSET Steps
    PROVE  /\ DeleteEntries(v, ids) \in SlotState
           /\ Completed(DeleteEntries(v, ids)) = Completed(v) \ ids
           /\ DeleteEntries(v, ids).hydrated = v.hydrated
           /\ DeleteEntries(v, ids).reading = v.reading
           /\ DeleteEntries(v, ids).snap = v.snap
           /\ DeleteEntries(v, ids).tracking = v.tracking
BY ConstantsOK DEF DeleteEntries, PutEntries, SlotState, Completed

(* ensureHydrated leaves a hydrated bucket alone and starts a read of the   *)
(* stored steps in any other; the entries are untouched.                    *)
LEMMA EnsureHydratedFacts ==
    ASSUME NEW v \in SlotState, NEW stored \in SUBSET Steps
    PROVE  LET w == EnsureHydrated(v, stored)
           IN /\ w \in SlotState /\ w.hydrated
              /\ Completed(w) = Completed(v)
              /\ v.hydrated => w = v
              /\ ~v.hydrated => w.reading /\ w.snap = stored /\ w.tracking.kind = "ids"
BY DEF EnsureHydrated, SlotState, Tracking, Untracked, ClearedAll, Completed

(* Noting a clear touches the clear tracking only. *)
LEMMA NoteClearFacts ==
    ASSUME NEW v \in SlotState, NEW ids \in SUBSET Steps
    PROVE  LET w == NoteHydrationClear(v, ids)
           IN /\ w \in SlotState /\ Completed(w) = Completed(v)
              /\ w.hydrated = v.hydrated /\ w.reading = v.reading /\ w.snap = v.snap
              /\ w.tracking.kind = v.tracking.kind
BY DEF NoteHydrationClear, SlotState, Tracking, Untracked, ClearedAll, Completed

(* Noting a whole-section clear likewise. *)
LEMMA NoteClearAllFacts ==
    ASSUME NEW v \in SlotState
    PROVE  LET w == NoteHydrationClearAll(v)
           IN /\ w \in SlotState /\ Completed(w) = Completed(v)
              /\ w.hydrated = v.hydrated /\ w.reading = v.reading /\ w.snap = v.snap
              /\ w.tracking.kind # "none" \/ w = v
BY DEF NoteHydrationClearAll, SlotState, Tracking, Untracked, ClearedAll, Completed

(* An evicted bucket holds nothing and waits for a new ensureHydrated. *)
LEMMA EvictFacts ==
    ASSUME NEW v \in SlotState
    PROVE  /\ Evict(v) \in SlotState
           /\ Completed(Evict(v)) = {} /\ ~Evict(v).hydrated /\ ~Evict(v).reading
<1>1. OneMore(v.stale, MaxStale) \in Nat
  BY DEF OneMore, SlotState
<1>2. v.stale \in Nat
  BY DEF SlotState
<1>. QED
  BY <1>1, <1>2, EmptySlotFacts DEF Evict, SlotState, Completed

(* A section count is a natural number. *)
LEMMA CountAllType ==
    ASSUME NEW st, NEW k
    PROVE  CountAll(st, k) \in Nat
<1>1. IsFiniteSet(SlotsUnder(k))
  BY ConstantsOK, FS_Subset DEF SlotsUnder
<1>2. IsFiniteSet(SlotsUnder(k) \X Steps)
  BY <1>1, ConstantsOK, FS_Product
<1>3. IsFiniteSet({p \in SlotsUnder(k) \X Steps : p[2] \in st[p[1]]})
  BY <1>2, FS_Subset
<1>. QED
  BY <1>3, FS_CardinalityType DEF CountAll

(***************************************************************************)
(* What a write of one bucket does to the invariant                        *)
(***************************************************************************)
(* SetCount keeps the count cache well typed. *)
LEMMA SetCountType ==
    ASSUME TypeOK, NEW t \in Tabs, NEW keys, NEW n \in Nat \cup {NoCount}, SetCount(t, keys, n)
    PROVE  counts' \in [Tabs -> [Counted -> Nat \cup {NoCount}]]
BY DEF SetCount, TypeOK

(* Every other tab has an event pending for a slot whose value a write      *)
(* changed; no event is lost.                                               *)
LEMMA WriteStorageFacts ==
    ASSUME TypeOK, NEW t \in Tabs, NEW st \in [Slots -> SUBSET Steps], WriteStorage(t, st)
    PROVE  /\ storage' = st
           /\ events' \in [Tabs -> [Slots -> Nat]]
           /\ \A u \in Tabs, sl \in Slots :
                 /\ events'[u][sl] = 0 => events[u][sl] = 0
                 /\ u # t /\ events'[u][sl] = 0 => st[sl] = storage[sl]
<1>1. \A n \in Nat : OneMore(n, MaxEvents) \in Nat \ {0}
  BY ConstantsOK DEF OneMore
<1>. QED
  BY <1>1 DEF WriteStorage, Announce, TypeOK

(* persistSection writes the slot's own key only, and nothing in a preview. *)
LEMMA PersistFacts ==
    ASSUME TypeOK, NEW t \in Tabs, NEW sl \in Slots, NEW ids \in SUBSET Steps,
           PersistSection(t, sl, ids)
    PROVE  /\ storage' \in [Slots -> SUBSET Steps]
           /\ events' \in [Tabs -> [Slots -> Nat]]
           /\ counts' \in [Tabs -> [Counted -> Nat \cup {NoCount}]]
           /\ KeyOf[sl] \notin Preview => storage'[sl] = ids
           /\ \A x \in Slots \ {sl} : storage'[x] = storage[x]
           /\ \A u \in Tabs, x \in Slots :
                 /\ events'[u][x] = 0 => events[u][x] = 0
                 /\ u # t /\ events'[u][x] = 0 => storage'[x] = storage[x]
<1>1. CASE KeyOf[sl] \in Preview
  BY <1>1 DEF PersistSection, TypeOK
<1>2. CASE KeyOf[sl] \notin Preview
  <2> DEFINE st == [storage EXCEPT ![sl] = ids]
  <2>1. WriteStorage(t, st) /\ SetCount(t, {KeyOf[sl]}, CountAll(st, KeyOf[sl]))
    BY <1>2 DEF PersistSection
  <2>2. st \in [Slots -> SUBSET Steps] /\ st[sl] = ids /\ \A x \in Slots \ {sl} : st[x] = storage[x]
    BY DEF TypeOK
  <2>3. counts' \in [Tabs -> [Counted -> Nat \cup {NoCount}]]
    BY <2>1, CountAllType, SetCountType
  <2>. HIDE DEF st
  <2>. QED
    BY <1>2, <2>1, <2>2, <2>3, WriteStorageFacts
<1>. QED
  BY <1>1, <1>2

(* Storing a well-formed bucket keeps the invariant, if it is persisted or  *)
(* agrees with storage as it is.                                            *)
LEMMA StoreStep ==
    ASSUME IInv, NEW t \in Tabs, NEW sl \in Slots, NEW w \in SlotState, NEW persist \in BOOLEAN,
           Store(t, sl, w, persist), UNCHANGED <<resetting, wiped>>,
           rerender' \in [Tabs -> SUBSET Mounted],
           WellFormed(w),
           ~persist /\ w.hydrated /\ Undisturbed(t, sl) /\ Persisted(sl) => Agrees(w, storage[sl])
    PROVE  IInv'
<1>1. /\ tab' = [tab EXCEPT ![t][sl] = w]
      /\ persist => PersistSection(t, sl, Completed(w))
      /\ ~persist => UNCHANGED <<storage, events, counts>>
  BY DEF Store, Keep, KeepAndPersist
<1>2. /\ tab' \in [Tabs -> [Slots -> SlotState]]
      /\ tab'[t][sl] = w
      /\ \A u \in Tabs, x \in Slots : <<u, x>> # <<t, sl>> => tab'[u][x] = tab[u][x]
  BY <1>1 DEF IInv, TypeOK
<1>3. Completed(w) \in SUBSET Steps
  BY DEF Completed
<1>4. /\ storage' \in [Slots -> SUBSET Steps]
      /\ events' \in [Tabs -> [Slots -> Nat]]
      /\ counts' \in [Tabs -> [Counted -> Nat \cup {NoCount}]]
      /\ persist /\ KeyOf[sl] \notin Preview => storage'[sl] = Completed(w)
      /\ ~persist => storage'[sl] = storage[sl]
      /\ \A x \in Slots \ {sl} : storage'[x] = storage[x]
      /\ \A u \in Tabs, x \in Slots :
            /\ events'[u][x] = 0 => events[u][x] = 0
            /\ u # t /\ events'[u][x] = 0 => storage'[x] = storage[x]
  <2>1. CASE persist
    BY <1>1, <1>3, <2>1, PersistFacts DEF IInv
  <2>2. CASE ~persist
    BY <1>1, <2>2 DEF IInv, TypeOK
  <2>. QED
    BY <2>1, <2>2
<1>5. TypeOK'
  BY <1>2, <1>4 DEF IInv, TypeOK
<1>6. ASSUME NEW u \in Tabs, NEW x \in Slots
      PROVE  WellFormed(tab'[u][x])
  BY <1>2 DEF IInv
<1>7. ASSUME NEW u \in Tabs, NEW x \in Slots,
             tab'[u][x].hydrated, Undisturbed(u, x)', Persisted(x)
      PROVE  Agrees(tab'[u][x], storage'[x])
  <2>1. Undisturbed(u, x)
    BY <1>4, <1>7 DEF Undisturbed
  <2>2. CASE u = t /\ x = sl
    <3>1. CASE persist
      BY <1>2, <1>4, <1>7, <2>2, <3>1 DEF Agrees, Persisted
    <3>2. CASE ~persist
      BY <1>2, <1>4, <1>7, <2>1, <2>2, <3>2
    <3>. QED
      BY <3>1, <3>2
  <2>3. CASE <<u, x>> # <<t, sl>>
    <3>1. tab'[u][x] = tab[u][x]
      BY <1>2, <2>3
    <3>2. storage'[x] = storage[x]
      BY <1>4, <1>7, <2>3 DEF Undisturbed
    <3>. QED
      BY <1>7, <2>1, <3>1, <3>2 DEF IInv, Coherent
  <2>. QED
    BY <2>2, <2>3
<1>8. \A u \in Tabs, x \in Slots : WellFormed(tab[u][x])' /\ Coherent(u, x)'
  BY <1>6, <1>7 DEF Coherent, Persisted, Unshadowed, WellFormed, Completed, Agrees
<1>. QED
  BY <1>5, <1>8 DEF IInv

(***************************************************************************)
(* One step of every operation                                             *)
(***************************************************************************)
(* The bucket ensureHydrated returns, before the caller adds to it. *)
Opened(t, sl) == EnsureHydrated(tab[t][sl], storage[sl])

(* An opened bucket is hydrated and agrees with storage if it was coherent. *)
LEMMA HydratedBucket ==
    ASSUME IInv, NEW t \in Tabs, NEW sl \in Slots
    PROVE  /\ Opened(t, sl) \in SlotState
           /\ Opened(t, sl).hydrated
           /\ WellFormed(Opened(t, sl))
           /\ Undisturbed(t, sl) /\ Persisted(sl) => Agrees(Opened(t, sl), storage[sl])
<1>1. tab[t][sl] \in SlotState /\ storage[sl] \in SUBSET Steps
  BY DEF IInv, TypeOK
<1>2. WellFormed(tab[t][sl]) /\ Coherent(t, sl)
  BY DEF IInv
<1>3. /\ Opened(t, sl) \in SlotState /\ Opened(t, sl).hydrated
      /\ Completed(Opened(t, sl)) = Completed(tab[t][sl])
      /\ tab[t][sl].hydrated => Opened(t, sl) = tab[t][sl]
      /\ ~tab[t][sl].hydrated => /\ Opened(t, sl).reading
                                 /\ Opened(t, sl).snap = storage[sl]
                                 /\ Opened(t, sl).tracking.kind = "ids"
  BY <1>1, EnsureHydratedFacts DEF Opened
<1>4. WellFormed(Opened(t, sl))
  BY <1>3 DEF WellFormed
<1>5. CASE tab[t][sl].hydrated
  BY <1>2, <1>3, <1>4, <1>5 DEF Coherent
<1>6. CASE ~tab[t][sl].hydrated
  BY <1>2, <1>3, <1>4, <1>6 DEF WellFormed, Agrees
<1>. QED
  BY <1>5, <1>6

(* Rendering opens the bucket and writes nothing. *)
LEMMA RenderStep ==
    ASSUME IInv, NEW t \in Tabs, NEW sl \in Slots, Render(t, sl)
    PROVE  IInv'
<1>1. Store(t, sl, Opened(t, sl), FALSE) /\ UNCHANGED <<resetting, wiped>>
  BY DEF Render, Store, Opened
<1>2. rerender' \in [Tabs -> SUBSET Mounted]
  BY DEF Render, IInv, TypeOK
<1>. QED
  BY <1>1, <1>2, HydratedBucket, StoreStep

(* An unmounted preview section starts over. *)
LEMMA UnmountPreviewStep ==
    ASSUME IInv, NEW t \in Tabs, NEW sl \in Slots, UnmountPreview(t, sl)
    PROVE  IInv'
<1>. DEFINE w == Evict(tab[t][sl])
<1>1. tab[t][sl] \in SlotState
  BY DEF IInv, TypeOK
<1>2. w \in SlotState /\ WellFormed(w) /\ ~w.hydrated
  BY <1>1, EvictFacts DEF WellFormed
<1>3. Store(t, sl, w, FALSE) /\ UNCHANGED <<rerender, resetting, wiped>>
  BY DEF UnmountPreview, Store
<1>4. rerender' \in [Tabs -> SUBSET Mounted]
  BY <1>3 DEF IInv, TypeOK
<1>. HIDE DEF w
<1>. QED
  BY <1>2, <1>3, <1>4, StoreStep

(* The heart of the proof: merging the snapshot ends in agreement. *)
LEMMA ResolveReadStep ==
    ASSUME IInv, NEW t \in Tabs, NEW sl \in Slots, ResolveRead(t, sl)
    PROVE  IInv'
<1>. DEFINE v == tab[t][sl]
            added == IF v.tracking.kind = "all" THEN {} ELSE MergeSnapshot(v)
            settled == [v EXCEPT !.reading = FALSE, !.snap = {}, !.tracking = Untracked]
            w == IF added = {} THEN settled ELSE PutEntries(settled, added, NoReason)
            persist == added # {} \/ v.tracking.ids # {}
<1>1. v \in SlotState /\ v.tracking \in Tracking /\ v.snap \in SUBSET Steps /\ WellFormed(v)
  BY DEF IInv, TypeOK, SlotState
<1>2. v.reading /\ v.hydrated
  BY <1>1 DEF ResolveRead, WritesBack, WellFormed
<1>3. /\ settled \in SlotState /\ Completed(settled) = Completed(v)
      /\ settled.hydrated /\ ~settled.reading
  BY <1>1, <1>2 DEF SlotState, Tracking, Untracked, Completed
<1>4. added \in SUBSET Steps
  BY <1>1 DEF MergeSnapshot
<1>5. Store(t, sl, w, persist) /\ UNCHANGED <<rerender, resetting, wiped>>
  BY DEF ResolveRead, WritesBack
<1>6. NoReason \in Reasons
  BY ConstantsOK
<1>. HIDE DEF settled
<1>7. /\ w \in SlotState /\ Completed(w) = Completed(v) \cup added
      /\ w.hydrated /\ ~w.reading
  BY <1>3, <1>4, <1>6, PutEntriesFacts
<1>8. ASSUME ~persist, Undisturbed(t, sl), Persisted(sl)
      PROVE  Agrees(w, storage[sl])
  <2>1. Agrees(v, storage[sl])
    BY <1>2, <1>8 DEF IInv, Coherent
  <2>2. added = {} /\ v.tracking.ids = {}
    BY <1>8
  <2>3. CASE v.tracking.kind = "all"
    BY <1>7, <2>1, <2>2, <2>3 DEF Agrees
  <2>4. CASE v.tracking.kind # "all"
    BY <1>7, <2>1, <2>2, <2>4 DEF Agrees, MergeSnapshot
  <2>. QED
    BY <2>3, <2>4
<1>9. WellFormed(w)
  BY <1>7 DEF WellFormed
<1>10. rerender' \in [Tabs -> SUBSET Mounted] /\ persist \in BOOLEAN
  BY <1>5 DEF IInv, TypeOK
<1>. HIDE DEF w, persist
<1>. QED
  BY <1>5, <1>7, <1>8, <1>9, <1>10, StoreStep

(* A dropped read loses clear tracking, never entries or a live read. *)
LEMMA DropStaleReadStep ==
    ASSUME IInv, NEW t \in Tabs, NEW sl \in Slots, DropStaleRead(t, sl)
    PROVE  IInv'
<1>. DEFINE v == tab[t][sl]
            w == [ForgetTracking(v) EXCEPT !.stale = @ - 1]
<1>1. v \in SlotState /\ WellFormed(v) /\ Coherent(t, sl)
  BY DEF IInv, TypeOK
<1>2. v.stale \in Nat /\ v.stale > 0
  BY <1>1 DEF DropStaleRead, SlotState
<1>3. /\ w \in SlotState /\ Completed(w) = Completed(v) /\ w.hydrated = v.hydrated
      /\ w.reading = v.reading /\ w.snap = v.snap /\ w.tracking.kind = "none"
  <2> DEFINE u == ForgetTracking(v)
  <2>1. /\ u \in SlotState /\ u.cache = v.cache /\ u.hydrated = v.hydrated /\ u.stale = v.stale
        /\ u.reading = v.reading /\ u.snap = v.snap /\ u.tracking = Untracked
    BY <1>1 DEF ForgetTracking, SlotState, Tracking, Untracked
  <2>2. u.stale - 1 \in Nat
    BY <1>2, <2>1
  <2>. HIDE DEF u, v
  <2>. QED
    BY <2>1, <2>2 DEF SlotState, Untracked, Completed, u
<1>4. Store(t, sl, w, FALSE) /\ UNCHANGED <<rerender, resetting, wiped>>
  BY DEF DropStaleRead, Store
<1>5. rerender' \in [Tabs -> SUBSET Mounted]
  BY <1>4 DEF IInv, TypeOK
<1>. HIDE DEF w
<1>6. WellFormed(w)
  BY <1>1, <1>3 DEF WellFormed
<1>7. w.hydrated /\ Undisturbed(t, sl) /\ Persisted(sl) => Agrees(w, storage[sl])
  BY <1>1, <1>3 DEF Coherent, Agrees
<1>. QED
  BY <1>3, <1>4, <1>5, <1>6, <1>7, StoreStep

(* Adding or deleting entries of a hydrated bucket and persisting it. *)
LEMMA MarkStepCompletedStep ==
    ASSUME IInv, NEW t \in Tabs, NEW sl \in Slots, NEW s \in Steps, NEW r \in Reasons,
           MarkStepCompleted(t, sl, s, r)
    PROVE  IInv'
<1>. DEFINE v == Opened(t, sl)
            w == PutEntries(v, {s}, r)
<1>1. /\ v \in SlotState /\ v.hydrated /\ WellFormed(v)
      /\ Undisturbed(t, sl) /\ Persisted(sl) => Agrees(v, storage[sl])
  BY HydratedBucket
<1>2. UNCHANGED <<resetting, wiped>> /\ rerender' \in [Tabs -> SUBSET Mounted]
  BY DEF MarkStepCompleted, IInv, TypeOK
<1>3. Store(t, sl, v, FALSE) \/ Store(t, sl, w, TRUE)
  BY DEF MarkStepCompleted, Store, Opened
<1>. HIDE DEF v
<1>4. w \in SlotState /\ w.hydrated
  BY <1>1, PutEntriesFacts
<1>5. WellFormed(w)
  BY <1>4 DEF WellFormed
<1>. HIDE DEF w
<1>. QED
  BY <1>1, <1>2, <1>3, <1>4, <1>5, StoreStep

(* The same for the steps an objective completes at once. *)
LEMMA MarkStepsCompletedStep ==
    ASSUME IInv, NEW t \in Tabs, NEW sl \in Slots, NEW ids \in SUBSET Steps, NEW r \in Reasons,
           MarkStepsCompleted(t, sl, ids, r)
    PROVE  IInv'
<1>. DEFINE v == Opened(t, sl)
            new == ids \ Completed(v)
            w == IF new = {} THEN v ELSE PutEntries(v, new, r)
<1>1. /\ v \in SlotState /\ v.hydrated /\ WellFormed(v)
      /\ Undisturbed(t, sl) /\ Persisted(sl) => Agrees(v, storage[sl])
  BY HydratedBucket
<1>2. UNCHANGED <<resetting, wiped>> /\ rerender' \in [Tabs -> SUBSET Mounted]
  BY DEF MarkStepsCompleted, IInv, TypeOK
<1>3. Store(t, sl, w, new # {})
  BY DEF MarkStepsCompleted, Opened
<1>. HIDE DEF v
<1>4. w \in SlotState /\ w.hydrated
  BY <1>1, PutEntriesFacts
<1>5. WellFormed(w)
  BY <1>4 DEF WellFormed
<1>6. new = {} => w = v
  OBVIOUS
<1>. HIDE DEF w, new
<1>. QED
  BY <1>1, <1>2, <1>3, <1>4, <1>5, <1>6, StoreStep

(* A reset of steps the cache lacks leaves it coherent, read or no read. *)
LEMMA ResetStepsStep ==
    ASSUME IInv, NEW t \in Tabs, NEW sl \in Slots, NEW ids \in SUBSET Steps,
           ResetSteps(t, sl, ids)
    PROVE  IInv'
<1>. DEFINE v == NoteHydrationClear(tab[t][sl], ids)
            gone == ids \cap Completed(v)
            w == IF gone = {} THEN v ELSE DeleteEntries(v, gone)
<1>1. tab[t][sl] \in SlotState /\ WellFormed(tab[t][sl]) /\ Coherent(t, sl)
  BY DEF IInv, TypeOK
<1>2. /\ v \in SlotState /\ Completed(v) = Completed(tab[t][sl])
      /\ v.hydrated = tab[t][sl].hydrated /\ v.reading = tab[t][sl].reading
      /\ v.snap = tab[t][sl].snap /\ v.tracking.kind = tab[t][sl].tracking.kind
  BY <1>1, NoteClearFacts
<1>3. UNCHANGED <<resetting, wiped>> /\ rerender' \in [Tabs -> SUBSET Mounted]
  BY DEF ResetSteps, IInv, TypeOK
<1>4. Store(t, sl, w, gone # {})
  BY DEF ResetSteps
<1>. HIDE DEF v
<1>5. /\ w \in SlotState /\ Completed(w) = Completed(v) \ gone
      /\ w.hydrated = v.hydrated /\ w.reading = v.reading
  BY <1>2, DeleteEntriesFacts
<1>6. WellFormed(v)
  BY <1>1, <1>2 DEF WellFormed
<1>7. WellFormed(w)
  BY <1>5, <1>6 DEF WellFormed
<1>8. gone = {} /\ w.hydrated /\ Undisturbed(t, sl) /\ Persisted(sl) => Agrees(w, storage[sl])
  BY <1>1, <1>2 DEF Coherent, Agrees
<1>. HIDE DEF w, gone
<1>. QED
  BY <1>3, <1>4, <1>5, <1>7, <1>8, StoreStep

(* A section reset persists the empty set, or had nothing to clear. *)
LEMMA ResetSectionStep ==
    ASSUME IInv, NEW t \in Tabs, NEW sl \in Slots, ResetSection(t, sl)
    PROVE  IInv'
<1>. DEFINE v == NoteHydrationClearAll(tab[t][sl])
            had == Completed(v) # {}
            pending == v.tracking.kind # "none"
            w == IF had THEN DeleteEntries(v, Steps) ELSE v
<1>1. tab[t][sl] \in SlotState /\ WellFormed(tab[t][sl]) /\ Coherent(t, sl)
  BY DEF IInv, TypeOK
<1>2. /\ v \in SlotState /\ Completed(v) = Completed(tab[t][sl])
      /\ v.hydrated = tab[t][sl].hydrated /\ v.reading = tab[t][sl].reading
      /\ v.snap = tab[t][sl].snap
      /\ pending \/ v = tab[t][sl]
  BY <1>1, NoteClearAllFacts
<1>3. UNCHANGED <<resetting, wiped>> /\ rerender' \in [Tabs -> SUBSET Mounted]
  BY DEF ResetSection, IInv, TypeOK
<1>4. Store(t, sl, w, had \/ pending)
  BY DEF ResetSection
<1>. HIDE DEF v
<1>5. /\ w \in SlotState /\ w.hydrated = v.hydrated /\ w.reading = v.reading
      /\ had => Completed(w) = {}
      /\ ~had => w = v
  BY <1>2, DeleteEntriesFacts DEF Completed
<1>6. WellFormed(v)
  BY <1>1, <1>2 DEF WellFormed
<1>7. WellFormed(w)
  BY <1>5, <1>6 DEF WellFormed
<1>8. ~(had \/ pending) /\ w.hydrated /\ Undisturbed(t, sl) /\ Persisted(sl)
      => Agrees(w, storage[sl])
  BY <1>1, <1>2, <1>5 DEF Coherent
<1>. HIDE DEF w, had, pending
<1>. QED
  BY <1>3, <1>4, <1>5, <1>7, <1>8, StoreStep

(* Reconciling persists what is left, or finds no orphan. *)
LEMMA ReconcileSectionStep ==
    ASSUME IInv, NEW t \in Tabs, NEW sl \in Slots, ReconcileSection(t, sl)
    PROVE  IInv'
<1>. DEFINE v == Opened(t, sl)
            orphaned == Completed(v) \ Roster[sl]
            w == IF orphaned = {} THEN v ELSE DeleteEntries(v, orphaned)
<1>1. /\ v \in SlotState /\ v.hydrated /\ WellFormed(v)
      /\ Undisturbed(t, sl) /\ Persisted(sl) => Agrees(v, storage[sl])
  BY HydratedBucket
<1>2. UNCHANGED <<resetting, wiped>> /\ rerender' \in [Tabs -> SUBSET Mounted]
  BY DEF ReconcileSection, IInv, TypeOK
<1>3. Store(t, sl, w, orphaned # {})
  BY DEF ReconcileSection, Opened
<1>4. orphaned \in SUBSET Steps
  BY DEF Completed
<1>. HIDE DEF v, orphaned
<1>5. w \in SlotState /\ w.hydrated
  BY <1>1, <1>4, DeleteEntriesFacts
<1>6. WellFormed(w)
  BY <1>5 DEF WellFormed
<1>7. orphaned = {} => w = v
  OBVIOUS
<1>. HIDE DEF w
<1>. QED
  BY <1>1, <1>2, <1>3, <1>5, <1>6, <1>7, StoreStep

(* A step that touches no bucket, value, event or pending reset keeps every *)
(* bucket well formed and coherent.                                         *)
LEMMA UnchangedBuckets ==
    ASSUME IInv, UNCHANGED <<storage, tab, resetting, events, wiped>>, TypeOK'
    PROVE  IInv'
<1>1. ASSUME NEW t \in Tabs, NEW sl \in Slots
      PROVE  WellFormed(tab[t][sl])'
  BY <1>1 DEF IInv, WellFormed, Completed
<1>2. ASSUME NEW t \in Tabs, NEW sl \in Slots
      PROVE  Coherent(t, sl)'
  <2>1. Coherent(t, sl)
    BY DEF IInv
  <2>. QED
    BY <2>1 DEF Coherent, Undisturbed, Persisted, Unshadowed, Agrees, Completed
<1>. QED
  BY <1>1, <1>2 DEF IInv

(* Counting fills the count cache only. *)
LEMMA CountAllCompletedStep ==
    ASSUME IInv, NEW t \in Tabs, NEW k \in Counted, CountAllCompleted(t, k)
    PROVE  IInv'
<1>1. counts' \in [Tabs -> [Counted -> Nat \cup {NoCount}]]
  BY CountAllType, SetCountType DEF CountAllCompleted, IInv
<1>2. UNCHANGED <<storage, tab, rerender, resetting, events, wiped>>
  BY DEF CountAllCompleted
<1>3. TypeOK'
  BY <1>1, <1>2 DEF IInv, TypeOK
<1>. QED
  BY <1>2, <1>3, UnchangedBuckets

(* Until the eviction the tab's slots of the cleared keys are disturbed;    *)
(* the other tabs have their events.                                        *)
LEMMA ClearAllForContentStep ==
    ASSUME IInv, NEW t \in Tabs, NEW keys \in SUBSET ContentKeys, ClearAllForContent(t, keys)
    PROVE  IInv'
<1>. DEFINE st == [sl \in Slots |->
                     IF \E k \in keys : sl \in SlotsUnder(k) THEN {} ELSE storage[sl]]
<1>1. WriteStorage(t, st) /\ SetCount(t, keys, NoCount)
      /\ resetting' = [resetting EXCEPT ![t] = keys] /\ UNCHANGED <<tab, rerender, wiped>>
      /\ resetting[t] = {}
  BY DEF ClearAllForContent
<1>2. st \in [Slots -> SUBSET Steps]
  BY DEF IInv, TypeOK
<1>3. ASSUME NEW sl \in Slots, Unshadowed(sl), KeyOf[sl] \notin keys
      PROVE  st[sl] = storage[sl]
  BY <1>3 DEF SlotsUnder, Unshadowed
<1>. HIDE DEF st
<1>4. /\ storage' = st
      /\ events' \in [Tabs -> [Slots -> Nat]]
      /\ \A u \in Tabs, sl \in Slots :
            /\ events'[u][sl] = 0 => events[u][sl] = 0
            /\ u # t /\ events'[u][sl] = 0 => st[sl] = storage[sl]
  BY <1>1, <1>2, WriteStorageFacts DEF IInv
<1>5. counts' \in [Tabs -> [Counted -> Nat \cup {NoCount}]]
  BY <1>1, SetCountType DEF IInv
<1>6. TypeOK'
  BY <1>1, <1>2, <1>4, <1>5 DEF IInv, TypeOK
<1>7. ASSUME NEW u \in Tabs, NEW sl \in Slots,
             tab[u][sl].hydrated, Undisturbed(u, sl)', Persisted(sl)
      PROVE  Agrees(tab[u][sl], storage'[sl])
  <2>1. Undisturbed(u, sl) /\ (u = t => KeyOf[sl] \notin keys)
    BY <1>1, <1>4, <1>7 DEF Undisturbed, IInv, TypeOK
  <2>2. storage'[sl] = storage[sl]
    BY <1>3, <1>4, <1>7, <2>1 DEF Persisted, Undisturbed
  <2>. QED
    BY <1>7, <2>1, <2>2 DEF IInv, Coherent
<1>8. \A u \in Tabs, sl \in Slots : WellFormed(tab[u][sl])' /\ Coherent(u, sl)'
  BY <1>1, <1>7 DEF IInv, WellFormed, Coherent, Persisted, Unshadowed, Completed, Agrees
<1>. QED
  BY <1>6, <1>8 DEF IInv

(* Evicting a set of a tab's slots, storage unchanged. *)
LEMMA EvictSlotsStep ==
    ASSUME IInv, NEW t \in Tabs, NEW evicted \in SUBSET Slots, EvictSlots(t, evicted),
           UNCHANGED storage,
           counts' \in [Tabs -> [Counted -> Nat \cup {NoCount}]],
           resetting' \in [Tabs -> SUBSET ContentKeys],
           events' \in [Tabs -> [Slots -> Nat]],
           wiped' \subseteq Tabs,
           \A u \in Tabs, sl \in Slots :
               u # t \/ sl \notin evicted => (Undisturbed(u, sl)' => Undisturbed(u, sl))
    PROVE  IInv'
<1>1. tab' = [tab EXCEPT ![t] = [sl \in Slots |->
                IF sl \in evicted THEN Evict(tab[t][sl]) ELSE tab[t][sl]]]
      /\ rerender' = [rerender EXCEPT ![t] = @ \cup MustRerender(t, evicted)]
  BY DEF EvictSlots
<1>2. \A sl \in Slots : tab[t][sl] \in SlotState
  BY DEF IInv, TypeOK
<1>3. /\ \A sl \in evicted : /\ tab'[t][sl] \in SlotState
                            /\ WellFormed(tab'[t][sl]) /\ ~tab'[t][sl].hydrated
      /\ \A u \in Tabs, sl \in Slots :
            u # t \/ sl \notin evicted => tab'[u][sl] = tab[u][sl]
      /\ tab' \in [Tabs -> [Slots -> SlotState]]
  <2>1. \A sl \in Slots : Evict(tab[t][sl]) \in SlotState
                        /\ WellFormed(Evict(tab[t][sl])) /\ ~Evict(tab[t][sl]).hydrated
    BY <1>2, EvictFacts DEF WellFormed
  <2>. QED
    BY <1>1, <2>1 DEF IInv, TypeOK
<1>4. rerender' \in [Tabs -> SUBSET Mounted]
  BY <1>1 DEF MustRerender, IInv, TypeOK
<1>5. TypeOK'
  BY <1>3, <1>4 DEF IInv, TypeOK
<1>6. ASSUME NEW u \in Tabs, NEW sl \in Slots
      PROVE  WellFormed(tab'[u][sl])
             /\ (tab'[u][sl].hydrated /\ Undisturbed(u, sl)' /\ Persisted(sl)
                 => Agrees(tab'[u][sl], storage'[sl]))
  <2>1. CASE u = t /\ sl \in evicted
    BY <1>3, <2>1
  <2>2. CASE u # t \/ sl \notin evicted
    <3>1. tab'[u][sl] = tab[u][sl] /\ (Undisturbed(u, sl)' => Undisturbed(u, sl))
      BY <1>3, <2>2
    <3>2. WellFormed(tab[u][sl]) /\ Coherent(u, sl)
      BY DEF IInv
    <3>. QED
      BY <3>1, <3>2 DEF Coherent
  <2>. QED
    BY <2>1, <2>2
<1>7. \A u \in Tabs, sl \in Slots : WellFormed(tab[u][sl])' /\ Coherent(u, sl)'
  BY <1>6 DEF WellFormed, Coherent, Persisted, Unshadowed, Completed, Agrees
<1>. QED
  BY <1>5, <1>7 DEF IInv

(* The evict that ends a guide reset takes every disturbed slot with it. *)
LEMMA EvictContentCacheStep ==
    ASSUME IInv, NEW t \in Tabs, EvictContentCache(t)
    PROVE  IInv'
<1>. DEFINE evicted == {sl \in Slots : KeyOf[sl] \in resetting[t]}
<1>1. EvictSlots(t, evicted) /\ resetting' = [resetting EXCEPT ![t] = {}]
      /\ UNCHANGED <<storage, counts, events, wiped>>
  BY DEF EvictContentCache
<1>2. \A u \in Tabs, sl \in Slots :
         u # t \/ sl \notin evicted => (Undisturbed(u, sl)' => Undisturbed(u, sl))
  BY <1>1 DEF Undisturbed, IInv, TypeOK
<1>3. /\ evicted \in SUBSET Slots
      /\ counts' \in [Tabs -> [Counted -> Nat \cup {NoCount}]]
      /\ resetting' \in [Tabs -> SUBSET ContentKeys]
      /\ events' \in [Tabs -> [Slots -> Nat]] /\ wiped' \subseteq Tabs
  BY <1>1 DEF IInv, TypeOK
<1>. HIDE DEF evicted
<1>. QED
  BY <1>1, <1>2, <1>3, EvictSlotsStep

(* A delivered event evicts a hydrated slot; any other holds nothing.       *)
LEMMA HandleStorageEventStep ==
    ASSUME IInv, NEW t \in Tabs, NEW sl \in Slots, HandleStorageEvent(t, sl)
    PROVE  IInv'
<1>1. /\ events[t][sl] > 0 /\ events' = [events EXCEPT ![t][sl] = @ - 1]
      /\ UNCHANGED <<storage, resetting, wiped>>
  BY DEF HandleStorageEvent
<1>2. events' \in [Tabs -> [Slots -> Nat]]
  <2>1. events[t][sl] - 1 \in Nat
    BY <1>1 DEF IInv, TypeOK
  <2>. QED
    BY <1>1, <2>1 DEF IInv, TypeOK
<1>3. \A u \in Tabs, x \in Slots :
         u # t \/ x \notin {sl} => (Undisturbed(u, x)' => Undisturbed(u, x))
  <2>1. \A u \in Tabs, x \in Slots :
           u # t \/ x # sl => events'[u][x] = events[u][x]
    BY <1>1 DEF IInv, TypeOK
  <2>. QED
    BY <1>1, <2>1 DEF Undisturbed
<1>4. /\ resetting' \in [Tabs -> SUBSET ContentKeys] /\ wiped' \subseteq Tabs
  BY <1>1 DEF IInv, TypeOK
<1>5. CASE tab[t][sl].hydrated
  <2>1. EvictSlots(t, {sl}) /\ SetCount(t, {KeyOf[sl]}, NoCount)
    BY <1>5 DEF HandleStorageEvent
  <2>2. counts' \in [Tabs -> [Counted -> Nat \cup {NoCount}]]
    BY <2>1, SetCountType DEF IInv
  <2>. QED
    BY <1>1, <1>2, <1>3, <1>4, <2>1, <2>2, EvictSlotsStep
<1>6. CASE ~tab[t][sl].hydrated
  <2>1. UNCHANGED <<tab, rerender, counts>>
    BY <1>6 DEF HandleStorageEvent
  <2>2. TypeOK'
    BY <1>1, <1>2, <1>4, <2>1 DEF IInv, TypeOK
  <2>3. ASSUME NEW u \in Tabs, NEW x \in Slots
        PROVE  WellFormed(tab[u][x])'
    BY <2>1, <2>3 DEF IInv, WellFormed, Completed
  <2>4. ASSUME NEW u \in Tabs, NEW x \in Slots
        PROVE  Coherent(u, x)'
    <3>1. CASE u = t /\ x = sl
      BY <1>6, <2>1, <3>1 DEF Coherent
    <3>2. CASE u # t \/ x # sl
      <4>1. Coherent(u, x) /\ (Undisturbed(u, x)' => Undisturbed(u, x))
        BY <1>3, <3>2 DEF IInv
      <4>. QED
        BY <1>1, <2>1, <4>1 DEF Coherent, Persisted, Unshadowed, Agrees, Completed
    <3>. QED
      BY <3>1, <3>2
  <2>. QED
    BY <2>2, <2>3, <2>4 DEF IInv
<1>. QED
  BY <1>5, <1>6

(* The `key === null` event evicts every slot of the tab.                   *)
LEMMA HandleWipeEventStep ==
    ASSUME IInv, NEW t \in Tabs, HandleWipeEvent(t)
    PROVE  IInv'
<1>1. /\ EvictSlots(t, Slots) /\ wiped' = wiped \ {t}
      /\ UNCHANGED <<storage, counts, resetting, events>>
  BY DEF HandleWipeEvent
<1>2. \A u \in Tabs, sl \in Slots :
         u # t \/ sl \notin Slots => (Undisturbed(u, sl)' => Undisturbed(u, sl))
  BY <1>1 DEF Undisturbed
<1>3. /\ counts' \in [Tabs -> [Counted -> Nat \cup {NoCount}]]
      /\ resetting' \in [Tabs -> SUBSET ContentKeys]
      /\ events' \in [Tabs -> [Slots -> Nat]] /\ wiped' \subseteq Tabs
  BY <1>1 DEF IInv, TypeOK
<1>. QED
  BY <1>1, <1>2, <1>3, EvictSlotsStep

(* A wipe of the origin's storage leaves every tab an event to come.        *)
LEMMA WipeStorageStep ==
    ASSUME IInv, WipeStorage
    PROVE  IInv'
<1>1. /\ wiped' = Tabs /\ storage' = [sl \in Slots |-> {}]
      /\ UNCHANGED <<tab, counts, rerender, resetting, events>>
  BY DEF WipeStorage
<1>2. TypeOK'
  BY <1>1 DEF IInv, TypeOK
<1>3. ASSUME NEW t \in Tabs, NEW sl \in Slots
      PROVE  WellFormed(tab[t][sl])' /\ Coherent(t, sl)'
  BY <1>1, <1>3 DEF IInv, WellFormed, Completed, Coherent, Undisturbed
<1>. QED
  BY <1>2, <1>3 DEF IInv

(* A reloaded tab has nothing hydrated.                                     *)
LEMMA ReloadStep ==
    ASSUME IInv, NEW t \in Tabs, Reload(t)
    PROVE  IInv'
<1>1. /\ tab' = [tab EXCEPT ![t] = [sl \in Slots |-> EmptySlot]]
      /\ SetCount(t, Counted, NoCount)
      /\ rerender' = [rerender EXCEPT ![t] = Mounted]
      /\ resetting' = [resetting EXCEPT ![t] = {}]
      /\ events' = [events EXCEPT ![t] = [sl \in Slots |-> 0]]
      /\ wiped' = wiped \ {t} /\ UNCHANGED storage
  BY DEF Reload
<1>2. counts' \in [Tabs -> [Counted -> Nat \cup {NoCount}]]
  BY <1>1, SetCountType DEF IInv
<1>3. TypeOK'
  BY <1>1, <1>2, EmptySlotFacts DEF IInv, TypeOK
<1>4. \A u \in Tabs, sl \in Slots :
         tab'[u][sl] = IF u = t THEN EmptySlot ELSE tab[u][sl]
  BY <1>1 DEF IInv, TypeOK
<1>5. ASSUME NEW u \in Tabs, NEW sl \in Slots
      PROVE  WellFormed(tab'[u][sl])
             /\ (tab'[u][sl].hydrated /\ Undisturbed(u, sl)' /\ Persisted(sl)
                 => Agrees(tab'[u][sl], storage'[sl]))
  <2>1. CASE u = t
    BY <1>4, <2>1, EmptySlotFacts DEF WellFormed
  <2>2. CASE u # t
    <3>1. tab'[u][sl] = tab[u][sl]
      BY <1>4, <2>2
    <3>2. Undisturbed(u, sl)' => Undisturbed(u, sl)
      BY <1>1, <2>2 DEF Undisturbed, IInv, TypeOK
    <3>3. WellFormed(tab[u][sl]) /\ Coherent(u, sl)
      BY DEF IInv
    <3>. QED
      BY <1>1, <3>1, <3>2, <3>3 DEF Coherent
  <2>. QED
    BY <2>1, <2>2
<1>6. \A u \in Tabs, sl \in Slots : WellFormed(tab[u][sl])' /\ Coherent(u, sl)'
  BY <1>5 DEF WellFormed, Coherent, Persisted, Unshadowed, Completed, Agrees
<1>. QED
  BY <1>3, <1>6 DEF IInv

(***************************************************************************)
(* The theorems                                                            *)
(***************************************************************************)
(* A page that has just loaded has nothing hydrated.                        *)
LEMMA InitInvariant == Init => IInv
<1>. SUFFICES ASSUME Init PROVE IInv
  OBVIOUS
<1>1. TypeOK
  BY EmptySlotFacts, ConstantsOK DEF Init, TypeOK
<1>2. \A t \in Tabs, sl \in Slots : tab[t][sl] = EmptySlot
  BY DEF Init
<1>. QED
  BY <1>1, <1>2, EmptySlotFacts DEF IInv, WellFormed, Coherent

(* Every operation, event and reload keeps the inductive invariant.         *)
LEMMA NextInvariant == IInv /\ [Next]_vars => IInv'
<1>. SUFFICES ASSUME IInv, [Next]_vars PROVE IInv'
  OBVIOUS
<1>1. CASE UNCHANGED vars
  <2>1. TypeOK'
    BY <1>1 DEF vars, IInv, TypeOK
  <2>. QED
    BY <1>1, <2>1, UnchangedBuckets DEF vars
<1>2. ASSUME NEW t \in Tabs, NEW sl \in Slots,
             \/ Render(t, sl)
             \/ UnmountPreview(t, sl)
             \/ ResolveRead(t, sl)
             \/ DropStaleRead(t, sl)
             \/ \E s \in Steps, r \in Reasons \ {NoReason} : MarkStepCompleted(t, sl, s, r)
             \/ \E r \in Reasons \ {NoReason, Skipped} :
                   MarkStepsCompleted(t, sl, Roster[sl], r)
             \/ \E ids \in SUBSET Steps : ResetSteps(t, sl, ids)
             \/ ResetSection(t, sl)
             \/ ReconcileSection(t, sl)
             \/ HandleStorageEvent(t, sl)
      PROVE  IInv'
  <2>1. Roster[sl] \in SUBSET Steps
    BY ConstantsOK
  <2>. QED
    BY <1>2, <2>1, RenderStep, UnmountPreviewStep, ResolveReadStep, DropStaleReadStep,
       MarkStepCompletedStep, MarkStepsCompletedStep, ResetStepsStep, ResetSectionStep,
       ReconcileSectionStep, HandleStorageEventStep
<1>3. ASSUME NEW t \in Tabs, NEW k \in Counted, CountAllCompleted(t, k) PROVE IInv'
  BY <1>3, CountAllCompletedStep
<1>4. ASSUME NEW t \in Tabs, NEW keys \in SUBSET ContentKeys, ClearAllForContent(t, keys)
      PROVE  IInv'
  BY <1>4, ClearAllForContentStep
<1>5. ASSUME NEW t \in Tabs, EvictContentCache(t) PROVE IInv'
  BY <1>5, EvictContentCacheStep
<1>6. ASSUME NEW t \in Tabs, HandleWipeEvent(t) PROVE IInv'
  BY <1>6, HandleWipeEventStep
<1>7. ASSUME NEW t \in Tabs, Reload(t) PROVE IInv'
  BY <1>7, ReloadStep
<1>8. CASE WipeStorage
  BY <1>8, WipeStorageStep
<1>. QED
  BY <1>1, <1>2, <1>3, <1>4, <1>5, <1>6, <1>7, <1>8 DEF Next

(* Quiet is Undisturbed with no live read.                                  *)
LEMMA InvariantImpliesCoherence == IInv => CacheMatchesStorage
<1>. SUFFICES ASSUME IInv, NEW t \in Tabs, NEW sl \in Slots,
                     tab[t][sl].hydrated, Quiet(t, sl),
                     Unshadowed(sl), KeyOf[sl] \notin Preview
              PROVE  Completed(tab[t][sl]) = storage[sl]
  BY DEF CacheMatchesStorage
<1>1. Undisturbed(t, sl) /\ Persisted(sl) /\ ~tab[t][sl].reading
  BY DEF Quiet, Undisturbed, Persisted
<1>. QED
  BY <1>1 DEF IInv, Coherent, Agrees

(* The invariant holds in every reachable state.                            *)
THEOREM Invariance == Spec => []IInv
<1>. QED
  BY InitInvariant, NextInvariant, PTL DEF Spec

(* Every variable keeps its type: the module state of every tab stays a     *)
(* bucket, the count cache a count or nothing, whatever the interleaving.   *)
THEOREM TypeCorrect == Spec => []TypeOK
<1>1. IInv => TypeOK
  BY DEF IInv
<1>. QED
  BY <1>1, Invariance, PTL

(* Cross-tab coherence for any number of tabs, sections, steps and pending  *)
(* events: a tab that has hydrated a section and seen every storage event   *)
(* shows exactly what localStorage holds.                                   *)
THEOREM Coherence == Spec => []CacheMatchesStorage
<1>. QED
  BY Invariance, InvariantImpliesCoherence, PTL
=============================================================================
