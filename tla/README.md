# Grafana Pathfinder in TLA+

Models, model-checking runs and machine-checked proofs of the parts of Grafana Pathfinder (the interactive
learning plugin in this repository) whose correctness depends on order, concurrency or failure. Paths below
are relative to the repository root; `completion-store.ts, 64-86` means lines 64 to 86.

Pathfinder shows guides in a sidebar, a floating panel or a tab of its own. A guide has sections, a section
has steps, and a step can point at, fill in or click the Grafana UI once its requirements hold. The plugin
remembers which steps the user completed, in a cache per browser tab backed by `localStorage`; other records
go to Grafana's user storage as well and follow the user to other devices. A guide opened in a tab of its
own (the *controller*) can run its steps in another tab (the *live* tab) once the user pairs the two. The Go
backend caches an index of completion records for everybody.

## 1. What is here

| Module | What it is | Of |
|---|---|---|
| `CompletionStore` | the step completion store of every tab, the shared `localStorage`, storage events | `src/global-state/completion-store.ts`, `interactiveStepStorage` in `src/lib/user-storage.ts`, `useContentReset.ts` |
| `StepLedger` | abstract specification: what the store promises the reader of a guide | |
| `CompletionHistory` | `CompletionStore` with history variables for what the user asked for; implements `StepLedger` | |
| `InteractiveSection` | one section of a guide: its runs and its multi-steps', the overlay they share with others, acknowledgement, done bit, restores and resets | `src/components/interactive-tutorial/interactive-section.tsx`, `interactive-multi-step.tsx`, `section-state.ts`, `use-section-persistence.ts`, `global-interaction-blocker.ts`, `AiFixOrchestrator.tsx` |
| `StepChecker` | the requirements of one step: overlapping checks, retries, fixes | `src/requirements-manager/step-checker.hook.ts`, `step-state.ts`, `interactive-step.tsx` |
| `UserStorage` | one synchronised record on several devices, the write queue and the sync | `src/lib/user-storage.ts` |
| `RecordReads` | abstract specification: what the backend promises those who ask for completion records | |
| `CompletionIndex` | the backend's cache of completion records and the requests that read it; implements `RecordReads` | `pkg/plugin/completion_records.go` |
| `PairingManager` | the pairing state of a live tab | `src/lib/pairing-manager.ts` |
| `RemoteRuns` | abstract specification: what a controller promises about the steps it runs remotely | |
| `CrossTabSession` | controller tab, live tab and the channel between them; instantiates `PairingManager`, implements `RemoteRuns` | `src/global-state/controller-channel.tsx`, `src/integrations/cross-tab/live-tab-executor.ts`, `src/lib/cross-tab-transport.ts` |
| `*Proofs` | theorems about the module of that name, proved for every instance | |
| `MC*` | small instances for TLC | |

Run one with `tlc -workers 2 -config CrossTabSession_safety.cfg MCCrossTabSession` and prove with `tlapm
CompletionStoreProofs.tla`. `PROJECT.json` maps every definition to the lines it translates and lists runs,
mutants, findings, hazards and theorems. A definition commented `Mutant:` is a plausible bug; put in place
of the definition it varies, it makes one of the properties fail.

## 2. Inventory of the system

Status: **M** modelled, **P** partly, **-** not (section 12).

| Component | State it keeps | Operations | Interacts with | What is hard | Correct when | |
|---|---|---|---|---|---|---|
| Completion store | `entries`, `hydratedSections`, `hydrationClears`, `hydrationVersion`, `sectionVersions` per tab | hydrate, mark, reset, reconcile, evict, react to storage events | `interactiveStepStorage`, React hooks, other tabs | asynchronous reads racing writes, two writers | the cache is what is stored; a reset stays reset; a completion is stored | M |
| Interactive sections and steps | acknowledgement, done bit, the run, the cancel flag; the shared overlay | run, cancel, run a multi-step, complete, acknowledge, reset, mount, restore | completion store, engine, overlay, step checker, AI fix | runs outlive their component; one overlay, several users; three records, restored asynchronously | done is earned and acknowledged; a run can be cancelled; the page is given back | P |
| Requirements manager | per step: status, reason, checks and fixes under way | check, retry, skip, fix, recheck, reset | DOM, Grafana API, steps, completion store | overlapping checks, stale answers and closures | a step opens when its turn comes; no spinner for ever; done is stored | P |
| User storage | `localStorage` records with timestamps, a write queue, Grafana's user storage | get, set, remove, sync once per page | every record of the plugin, other devices | queue and sync race, failed and late requests | last write wins; devices converge | P |
| Completion-records backend (Go) | index, flight, cooldown and forced-refresh time per namespace | get, refresh | HTTP callers, Grafana's API | single flight, stale serving, negative cache | one refresh at a time; nobody is told less than was known | M |
| Pairing manager | expected launches, the prompt, accepted session, ledger of refusals | mint, challenge, prompt, accept, refuse, expire | live-tab executor, the user | awaited HMACs, four TTLs | a refusal is final; an acceptance reaches its controller | M |
| Controller channel and live-tab executor | bound tab, pending requests and runs, prepared hand-back; replay queue, handed-off sidebar | heartbeat, bind, sign, verify, run, request, hand off, go away | each other over a `BroadcastChannel` | two tabs, one may vanish or freeze; nothing is acknowledged | each run at most once and reported truthfully; no wait is for ever | P |
| Package recommendations and repository (Go) | one cached index and flight | get | HTTP callers, CDN | single flight, partial results | a cancelled caller spoils nothing | - |
| Interactive engine | sequence position, guided step | run sequence, guide, cancel | DOM, steps | user click racing cancel, skip and timeout | one outcome per step | - |
| Navigation, highlighting, auto-detection | highlights, observers | highlight, scroll, watch | DOM | geometry and timing of the DOM | - | - |
| Panel mode, sidebar, link interception | mode, pending guide, queued links | switch surface, open guide | all surfaces | a consume-once hand-off between mounting surfaces | a pending guide opens once | - |
| Docs panel | tabs, active tab, loads in flight | open, close, load, restore, reset | user storage, content retrieval | late loads, restore racing a launch | content belongs to the tab that shows it | - (reset: in `CompletionStore`) |
| Workshop sessions | peers, heartbeats, session state | create, join, broadcast, reconnect, end | WebRTC peers | reconnection, lost peers | one reconnection at a time; attendees converge | - |
| Coda terminal | connection state, VM | connect, reconnect, disconnect | Grafana Live, Coda API | late stream events, provisioning | no stream outlives its terminal | - |
| Context engine | context, recommendations, event buffer | fetch, refresh | Grafana, recommender | a fetch that ends after the user moved on | recommendations fit the page | - |
| Learning paths, badges, streaks | one progress record | complete, award, celebrate | user storage | read-modify-write of one record | a badge is awarded once and kept | - |
| Authoring MCP server | sessions with generations | load, save, expire | concurrent tool calls | optimistic concurrency, expiry | no save is lost silently | - |
| End-to-end runner | leases, cleanup registry | lease, run, retire | pool manager | failure between steps | every lease is retired | - |
| Rest (editor, parser, snippets, packages, CLI, validation, analytics, app shell, styles) | mostly none | - | - | data, not order | - | - |

How they meet: a section and its steps write the completion store, which `InteractiveSection` has as the set
`kept` and `StepChecker` as `stored`; a section's progress is what `StepChecker`'s `gate` follows; a step of
a controller is run by `CrossTabSession`; the section's acknowledgement and done bit, and
`CompletionStore`'s slots, are records of `localStorage`, which of these only `UserStorage` synchronises
between devices.

## 3. The completion store

`storage[sl]` is the `localStorage` value of a (content key, section) pair, `tab[t][sl]` one tab's module
state for it. `hydrationVersion` is only ever compared with the value a read captured, so a read is *live*
or one of `stale`; `sectionVersions` only matters as "non-zero" (`bumped`), which decides whether an
eviction makes React render a mounted section again. `events` are the undelivered storage events, `counts`
is `completedCountCache`, `resetting` the keys whose reset has cleared storage and has not evicted yet: an
`await` separates the two (`useContentReset.ts, 60`).

Each exported operation is one action with everything it does synchronously: `MarkStepCompleted` marks,
notifies and persists; `ResetSteps` notes the clear for the read in flight and persists what is left;
`ResolveRead` merges the snapshot without what was cleared since and writes the difference back;
`DropStaleRead` is the `.then` of a read whose version was bumped, which still deletes the clear tracking
filed under its key; `HandleStorageEvent` and `HandleWipeEvent` evict; `Reload` forgets the module.

Not in it: timestamps, the percentage and its rounding, the passive-section count, analytics, the order of
the stored ids, quota errors.

| Run | Instance | Checks |
|---|---|---|
| `store_coherence` | 2 tabs, 1 section, 2 steps, slow reads | `TypeOK`, `CacheMatchesStorage` |
| `store_live` | 1 tab, a guide section and an editor preview, wipes | `CacheMatchesStorage`, `RenderedSectionsHydrate` |
| `history` | 1 tab, 2 sections of one guide, a current and an orphaned step | `ResetStepsStayReset`, `CompletedStepsAreStored`, `CountsAreFresh`, `ShownByCommand` |
| `history_clears` | 1 section, 1 step | violation of `ClearsSurviveHydration` |

*Bounds.* Two tabs are one writer and one reader whose roles swap; sections only meet in the content-key
operations, so two of them, in one guide or two, meet in every way. One undelivered event per slot and tab
and one stale read per slot: a second event finds the bucket evicted by the first, and all stale reads do
the same thing when they resolve. `SlowReads` is what the code would have to survive if storage were not
`localStorage`; with `SlowReads = FALSE` reads end before the browser starts the next task, as they do
today. The liveness run needs that: a user reloading for ever within a read would otherwise hold it off.
`history_clears` has `SlowReads = FALSE` too: its finding needs a first read that is unresolved when an
eviction, a second read and a reset come, and with `localStorage` that is a matter of microtasks.
`history` mounts no component, because a component only renders a section again, and a render is an action
that is enabled anyway; its two sections are alike and symmetric.

*Fairness* (`store_live`): promises resolve, scheduled renders happen, events are delivered and a reset that
has cleared goes on to evict. All are obligations of the JavaScript runtime or of React, none of the user.

*Proved* in `CompletionStoreProofs` for any tabs, sections, steps, keys and bounds: `TypeCorrect` and
`Coherence` (`Spec => []CacheMatchesStorage`). Coherence is not inductive: it says nothing while a read is
in flight, when the damage would be done. The invariant `IInv` adds that in an undisturbed slot (no event,
wipe or reset pending) the bucket either equals storage or is still empty, with a live read whose snapshot
*is* storage and no whole-section clear noted; and that an unhydrated bucket is empty and reads nothing. One
lemma says what each bucket operator returns, `StoreStep` what any write of one bucket does to the
invariant, and there is one lemma per action on top. Assumptions: `ConstantsOK` in `CompletionStore`.

*Proved* in `CompletionHistoryProofs` for any guides, sections, steps, previews and mounted components:

| Theorem | Property | Hypotheses |
|---|---|---|
| `ResetsStay`, `CompletionsStored` | `ResetStepsStayReset`, `CompletedStepsAreStored` | one tab, `~SlowReads` |
| `CountsFresh` | `CountsAreFresh` | one tab, `~OriginWipes`, `CountsApart` |
| `ShownOnlyByCommand` | `ShownByCommand` (the store implements `StepLedger`) | one tab, `~SlowReads` |

The hypotheses are the code's, not the prover's. Between tabs the code promises last-write-wins and no more
(`completion-store.ts, 840-842`), so what one user action asked for is a promise inside one tab; what holds
between tabs is `Coherence`. `~SlowReads` is what `localStorage` guarantees. Counts are as stale after a wipe
(`HandleWipeEvent` leaves them) as they are when a key whose count is read is a prefix of another's; both are
in the gaps below, and `CountsApart` says that the second does not happen.

Neither history property is inductive: both speak of a section at rest, and the damage would be done while
it reads. The invariant `HInv` follows a step id on its way. `Accounted`: what is stored has a reason to be
(`Known`) or is a clear the read has noted; what is in the bucket or will arrive there is known; what is
stored is in the bucket or was there for the read to find. `Kept`: what the user completed is stored, in the
bucket or on its way there. `ReadFacts` ties clear tracking to a live read, and `Halfway` marks the await of
a guide reset, where the two directions differ. `HistoryWatches` shows that the history variables only watch,
so `IInv` may be used throughout.

`StepLedger` is what the reader of a guide sees: the steps a section shows as completed, or will show once
its read is over, change by completing, resetting, reconciling and the reset of the guide. Renders, reads,
evictions and reloads show nothing new and hide nothing. It names the one gap as an action, `Relapse` (finding 1). The mapping
(`ShownSteps`, `WithheldSteps`, `Deafened`, `Clearing`) counts what a read will bring as shown already. The
step lemmas need one more invariant, `Written`: what a guide reset that is halfway through finds in storage
is in the bucket, since only the bucket can have put it there.

*Known gaps, recorded as hazards:* a guide reset can be undone in its await (the history variable
`rewritten` marks exactly what comes back); a mounted section without entries is evicted and never rendered
again; the cached count misses events for sections the tab has not hydrated and misses wipes; a guide reset
also removes the steps of a guide whose content key extends its own with a hyphen (`Prefix` has this, and
the runs give it keys of which none extends another).

## 4. A section and its runs

`InteractiveSection` is one section, on the page and in storage. `mounted` is the instance of the component
on the page; `run[i]` is where the `handleDoSection` of instance `i` is, which goes on when its component
has gone (the guide moves from the sidebar to full screen, or another tab of the panel is shown): `start`
awaits the engine's import, `gate` the section's requirements, `busy` a step, `rest` the pause after one.
`cancelled` holds the instances whose cancel flag is set. `kept`, `ackKept` and `doneKept` are what storage has: completed steps,
acknowledgement, done bit. `restored` is a `RESTORE` that is dispatched and not rendered, `shown` the
`isCompleted` whose effects have run. `Rendered` is a render with all of its effects: objectives complete
the steps, and the done bit follows `isCompleted` when that changes. `Turn` is the head of the loop: go on,
or leave the loop and take the overlay down, completing every step if the loop ran out.

The overlay is one for the whole page, and `overlay` says whose cancel callback it has (`Of`). Besides the
section's run, its multi-steps use it: `multi[p]` is the `executeStep` of one of them, called by the run,
which then waits in `inner` (`StepCalls`, `StepEnds`), or by the step's own button (`OwnRun`). It raises the
overlay if that is not up when the engine has been imported, remembers whether it did (`raised`, `nested`)
and, if it did, takes down in its `finally` whatever overlay is up by then (`Left`); `MultiMoves` is all
that it does by itself, completing early included. `elsewhere` is another user of the overlay: another
section, a multi-step outside sections, or the AI fix, which does not know whether the overlay it stops is
its own (`ElsewhereEnds`) and stops it once more when the docs panel is closed (`PanelCloses`). While two of
all these are under way together, or after the panel was closed under one, the state is `disturbed`, until
nobody is under way any more; `disturbed` is a history variable.

`CompleteStep` is every other way a step is completed: a plain or guided step's own button, which does not
touch the overlay, a Skip, a detected action. It allows more than the page does: it may land after a run
has started, or after its component has gone, as an awaited action may.

One task of the browser is one action where nothing else can come between: `localStorage` reads end before
the next task, a change of the store is rendered with its effects in the task that made it, and what a step
does to the page is one awaited call with any outcome. What a mount restores is rendered in a task of its
own. `ResetGuide` is one action because loading the guide again unmounts the section in the same task; the
window inside `useContentReset` is `CompletionStore`'s subject. The branch of `handleDoSection` that
restarts a complete section (`interactive-section.tsx, 698-703`) is not there: the button resets such a
section instead (1438). A dynamic import that fails and changes of the step roster are left out.

`section_runs` takes six shapes and two instances, and checks `TypeOK`, `AckNeedsCompletion`, `DoneBit`,
`CompletedIsEarned`, `CancelReaches`, `OverlayIsOfARun` and `OverlayEnds`. The shapes: `Gated`, plain steps
before passive content; `Guided`, a step that can be skipped and one only the user can do; `Objective`,
objectives over plain steps; `Eager`, a multi-step that completes early before a plain step; `Shared`, a
multi-step on a page with other users of the overlay; `Passive`, nothing but passive content. *Bounds*: two
instances are a run and one that was started after it; a third run is to either of them what they are to
each other. Two steps are a step that is not the last and one that is. `MaxUsers = 2`: at most two use the
overlay at a time, one that has it and one that takes it down or is left with it; `Elsewhere` is one user,
since the overlay does not tell others apart. There are some 300,000 distinct states. *Fairness*: what a run
awaits ends (timers, requirement checks with time-outs, the step itself, a multi-step), other users of the
overlay end (theirs are the same awaits, and the AI fix has a time-out), and React renders. Users need not
do anything.

*Proved* in `InteractiveSectionProofs` for any shapes and any number of instances: the six invariants. The
inductive invariant has three parts. `PageInv`: without an instance nothing is shown, with one the page
shows what `Completed` says and the done bit agrees, except while a restore is on its way, when only storage
has the acknowledgement. `RunsInv`: the overlay is that of
something that acts (`OverlayIsOfARun`), and unless `disturbed` one user of the overlay is under way, with
the multi-step that it awaits (`Alone`), and has the overlay if it acts (`CancelReaches`). `CancelReaches`
alone is not inductive: a run beside another would lose the overlay when that one ends, and a multi-step
that had raised an overlay of its own under the run that awaits it would take down that run's. `HistoryInv`: a run that no
reset has overtaken has behind it only steps that are earned, which is what makes the bulk write at the end
of the loop harmless. Each part is preserved by every action on the strength of those before it.

*Known gaps, recorded as hazards.* Users of the overlay may overlap: two runs, if the component is mounted
again, or a multi-step run by its own button and a run of the section. One that finds the overlay up never
gets its own, and the first to end takes it down, so that the other goes on without it. Closing the docs
panel takes anybody's overlay down, and so does an answer of the AI fix that comes after its time-out
(`AiFixOrchestrator.tsx, 59-69, 133-135`). `CancelReaches` exempts all of this (`disturbed`);
`OverlayIsOfARun` and `OverlayEnds` do not. A reset by an instance
that is not the one that runs is overtaken by that run's bulk write (`forged` names what it brings back). A
run that outlives its tab files completions under the guide that is active then (`active`). Finishing all
steps and remounting acknowledges a section without a click. A cancel while the engine is imported is lost
(`Starts`).

## 5. The requirements of a step

`StepChecker` is the state machine of one step (`step`, the reducer of `step-state.ts`) and the checks that
drive it. `check[k]` is a check under way: what it asks about, the answer once it is made, its retries. An
answer is made when the page is read (`Answer`) and used later (`ObjectivesAnswered`,
`RequirementsAnswered`), with whatever gate there is then. `seen` is what the `checkStep` closure knows of
the state: React makes a new one when the eligibility changes (`GateMoves`), not when the state does, so a
closure can believe for long that a check is under way (`Blind`). `fix` is what the closure a fix will call
knows, `settling` the 200 ms in which an enabled step is not checked again, `managerDone` the manager's copy
of `isCompleted`, `stored` the completion store. `disabled` is the prop: a section disables its steps while it runs another one, or until their turn
(`DisabledMoves`). Objectives are stored by an effect that a disabled step holds back until it is enabled
(`MeetsObjectives`, `DisabledMoves`; `step-checker.hook.ts, 916-922`). `Skip` has both of its buttons: the
one of any undone step that is not disabled (`interactive-step.tsx, 1083-1110`) and the one beside the
explanation of what blocks it (1268), which looks at the status and not at `disabled`. `Redo` needs a step
that is not disabled; a section's reset does not. Steps that only inform (noop) and unmounting are left
out. `Recheck` stands for every caller of `checkStep` with the
same guard: heartbeat, context change, URL change, Retry.

`step_checker` takes every combination of objectives and requirements, two checks that may overlap and one
retry (none with objectives, as on a live tab), and checks `TypeOK`, `DoneIsStored`, `SpinnerHasCause` and
`OpensUnlessBlind`. `DoneIsStored` says that a step shown as done is in the store, at once if it was skipped,
and if its objectives were met while it was disabled, from the moment it no longer is. *Bounds*: of several
overlapping checks the oldest and the newest decide what is shown. Only the step with objectives and no
requirements is in a section that may disable it (`InSection`): `disabled` meets nothing else but buttons,
and the proof has any `InSection`.
*Fairness*: an answer comes, a fix ends, timers fire. `OpensUnlessBlind` also assumes that something goes on
asking (`KeepsAsking`), which `MayRecheck` makes possible; what it shows is that late answers and returns at
the head of `checkStep` cannot keep a step shut for ever.

*Proved* in `StepCheckerProofs` for any number of checks and retries: the three invariants.
`SpinnerHasCause` needs that a step enabled less than 200 ms ago shows a spinner only if a check is under
way, not merely a fix (`SettlingIsChecked`), because a fix that calls back within that time may return at
once; and types need that a check that waits has a retry left.

*Known gaps:* a blind closure leaves a step idle until its eligibility changes again; a late answer takes
the status of a skipped or completed step back (the reason and the store, which the page shows, stay).

## 6. User storage

`UserStorage` is one of the synchronised records on several devices. A write is named by the clock when it
was made: `v` is the write an envelope's data comes from, `t` its timestamp. `WritePlain` is a write before
the docs panel mounted, which leaves the old timestamp in place; `WriteHybrid` stamps and queues.
`ProcessQueue` takes the queue's envelope, `QueueSent` is its request, which is not repeated if it fails.
The sync asks Grafana for the value (`ReadGrafana`), then
takes, pushes, stamps or agrees (`Take`, `Push`, `Stamp`, `Agrees`). What is not an envelope is in the old
format, and its migration is one request after the other, between which other pages may make theirs: its
timestamp key is read (`ReadDate`), the envelope is written back (`Migrates`, `SyncSent`), the key is
emptied (`ClearSent`). `oldStamp` is that key. If it is empty when it is read, because there never was a
timestamp or because another page has migrated the value since, the value gets the time of the migration
(`user-storage.ts, 516`). `guessed` is the history of such stamps, `unstamped` that of writes made before
the docs panel mounted. `Reload` forgets the page; its requests may arrive at any later time or never
(`orphans`, `clears`). Grafana's client is external: a `getItem` sees what Grafana holds when it is answered. A `setItem` and its timestamp are written within microtasks of one page and are one action; a
page has one hybrid storage.

`user_storage` (two devices with a page each; two writes or guessed stamps, and perhaps one
write by an older version of the plugin, with or without its timestamp; one failed or orphaned request) checks `TypeOK`, `StampsNameWrites`, `NeverOlder` and `Converges`. `NeverOlder` says
that no device's timestamp goes back, and that no write it holds is replaced by an older one, with two
exemptions where the timestamp says nothing of when the write was made (`Dated`): writes before the docs
panel mounted and stamps that a migration guessed. *Bounds*: `MaxClock = 3` is write 1 and two more, which,
of one device or of both, meet each other and the migrated one in every order; the failed request
(`MaxFaults = 1`) can be any of them. *Fairness*: timers fire and requests end. `Converges` has its premise in the formula: pages of
every device are loaded again and again, since the sync runs once per page.

*Proved* in `UserStorageProofs` for any devices, pages and bounds: `TypeOK`, `StampsNameWrites` and
`NeverOlder`. The invariant adds that no stamp is ahead of the clock, so a new write's stamp is nobody
else's; that a stamp is the write it is on, unless that is not `Dated` (`Fits`); that what is undated is an
early write or the old format (`Undated`); and that what is sent is stamped (`Sendable`). `Held` collects every replica wherever it is, and one lemma deals with all actions that only move
replicas about, another with those that make one.

*Known gaps:* a value written before the docs panel mounts has the stamp of the write before it, and is lost
or kept back by the equal-timestamps rule (`unstamped` exempts it); the queue overwrites a newer envelope on
Grafana until the next sync; and old data is dated by the time of its migration if another page migrates it
between the two reads (`user-storage.ts, 496, 509`), after which it replaces data that is newer (`guessed`
exempts it).

## 7. The backend's completion index

`CompletionIndex` is `getCompletionIndex` of one namespace, request by request. The two sections under the
mutex are actions: what a request finds (`Hit`, `Cool`, `Join`, `Fly`) and, after the unlocked LIST, what it
leaves (`Publish`, `PublishFailure`); closing the channel (`Close`) comes after. An index is named by the
number of records it covers; records are only added. A waiter may leave (`Leave`), the LIST of a request
whose client is gone goes on. `FailList` has the five ways a LIST fails, of which two are the namespace's
and put it in cooldown. Timers are `Age`.

`completion_index` (two requests repeated for ever, two records) checks `TypeOK`, `OneRefresh`,
`AnswersAreCurrent`, `EntryNeverRegresses`, `KeepsReadPromise` and `RequestsAnswered`. *Bounds*: an idle
request is anybody's next, so two are one that flies and one that asks meanwhile; waiters do not interact. *Fairness*: a LIST
ends, at its deadline at the latest, and its goroutine goes on.

*Proved* in `CompletionIndexProofs` for any callers, failures and number of records: all but
`RequestsAnswered`. The invariant follows an index from the LIST to the waiters: the flight is exactly the
request that lists, the cache does not change while one lasts, what it brings is between the cache and the
records, and what it hands on satisfies all that have joined it.

`RecordReads` is what the callers are promised, whatever is cached: an answer covers what was known when it
was asked for, and who is answered without waiting hears what is known or, if nothing is, of a failure that
is the namespace's. The failure of one identity reaches those who wait with it and nobody later, which is
what the comment on `getCompletionIndex` sets out (`completion_records.go, 198-205`). `ReadPromiseKept` maps
every step of the cache to a step of the promise or a stutter; the mapping forgets who flies and who joined.
It needs one invariant more, `Honest`: a LIST brings an index or a failure and never both, the failure in
cooldown is the namespace's, and what is handed on is not ahead of the cache.

*Known gap:* a waiter gets the starter's error, even one about the starter's own token.

## 8. Pairing

The live tab mints a launch per controller tab it opens. A controller that loads makes a session and repeats
a challenge until it is bound; the tab verifies it (an awaited HMAC), prompts, and binds what the user
accepts. `launches` is `expectedLaunches` plus the reason a launch left it; `checking` counts challenges
between the two halves of `setPendingChallenge` (`SetPendingChallenge` up to the await, `ChallengeVerified`
after it); `fresh` is whether the prompt's TTL is still ahead, so answering too late and the timer are one
action, `ExpirePendingChallenge`. `announcing` counts accept proofs being computed; the session id is read
again afterwards, as in `live-tab-executor.ts, 136-142`, and `accepts` is a history of what was posted.

Proofs, codes and keys are abstracted, and only genuine challenges exist: a wrong one is dropped without a
state change. `RejectionForgotten` waits for challenges under verification: five minutes pass before it.

`pairing_answers` (three sessions of two launches, because a reload keeps the launch and makes a session)
checks `TypeOK`, `RejectionIsFinal`, `AcceptIsAnnounced` and `PromptComes`. *Fairness*: challenges repeat on
every tick, WebCrypto answers and timers fire; the user owes nothing. The weak fairness on
`SetPendingChallenge` is the heartbeat of a tab that stays open. One challenge of each session under
verification at a time is enough: two of one session do what one does, twice.

*Proved* in `PairingManagerProofs` for any sessions and launches and any number of challenges under
verification: `TypeCorrect` and `RejectionFinal` (`Spec => RejectionIsFinal`). A session leaves the ledger
after five minutes, so "rejected" is not the invariant; `Refused(s)` is: its launch is neither unminted nor
expected, it is not the prompt, and while a challenge of it is being verified it is still on the ledger.
`RefusedStaysRefused` shows that no step undoes it, `NewlyRejected` that only a refusal puts a session on
the ledger. `IInv` adds that a fresh prompt is a prompt and that an accept is computed only once a session
is accepted, which the types need. Assumptions: `LaunchOfAssumption`, `NoneAssumption`,
`MaxCopiesAssumption`.

*Known gaps, recorded as hazards:* after the await neither the launch nor the accepted session is looked at
again, so a launch denied or accepted meanwhile can prompt once more.

## 9. The two tabs

`up` and `down` are the channel, in order. What is asynchronous around it is explicit: `signing` holds the
messages whose signature is being made, `gate` those whose signature is being verified, `proofs` the
accepts; any of them may finish first. Unsigned traffic (heartbeats, challenges, completions, answers) goes
straight. Controller actions are the heartbeat (`Tick`: ping, challenge while unbound, renew the hand-back,
*then* the staleness check), `StartRun`/`CancelRun` (a composite step, with its `runId`), `StartRequest`/
`RequestTimesOut`, `Signed`, the receivers, `CloseTab` (hand the sidebar back, ready or not) and `Unmount`
(which may leave a last signature behind). The live tab receives, authorizes, queues replays one after the
other, answers and announces; its pairing is `PairingManager` with one session, instantiated. The live tab's `sidebar` shows the docs (`docked`, or `undocked` in a
floating panel or full screen), nothing, or another extension (`taken`), and its user moves it
(`SidebarMoves`). A take-over closes docked docs and remembers it (`AuthorizeClose`); a hand-back reopens
them only if this tab gave them up and no other extension has the sidebar, and forgets in either case
(`AuthorizeReopen`, `live-tab-executor.ts, 395-400`). `LiveGone` loses everything it had in memory. `GoesQuiet` is `HEARTBEAT_STALE_MS` without a beat, of a tab that is gone
or only busy or throttled (at most `MaxQuiet` times); `SignaturesLapse` is `SIGNED_MESSAGE_STALE_MS`, after
which a signed message still on the wire is `Lapsed` and refused on arrival (`ReceiveLapsed`).

`RemoteRuns` is the abstract promise: a run is replayed at most once, after it was started, is `done` only
if *its own* replay succeeded, and a verdict is final. `CrossTabSession` implements it with the identity
mapping on `run` and `ran` (`KeepsPromise`), so every step of both tabs is a step of the promise or a
stutter.

| Run | Instance | Checks |
|---|---|---|
| `cross_tab_safety` | a run or a request, one loss (a heartbeat, or either tab), docs docked at first, one move of the sidebar, pairing timers free | `TypeOK`, `BoundToAccepter`, `HandOffIsRemembered`, `KeepsPromise` |
| `cross_tab_liveness` | one run, signed messages lapse, either tab may go | `ComesConnected`, `PostedRunsSettle` |
| `cross_tab_reconnects` | no runs, one heartbeat loss | violation of `Reconnects` |

*Bounds.* `MaxWire = 1`: a controller ticks every two seconds and messages take milliseconds, so a tick
finds the wires empty; the messages of one tick and whatever was being signed still meet. One loss is
followed by a complete re-pairing, which is all a second one could repeat. `MaxWork = 1`: a run, a
request or a move of the sidebar (`MaxMoves = 1`), since what they share is only the wire and `FailAllPending`; that a retry is not settled by the
completion of the run before it is left to the proof, which has any number of runs. The deadlock check is
off because the system stops when a tab is gone and the other has nothing to wait for.

*Fairness*: messages on the wire are delivered, WebCrypto calls end, intervals and timeouts fire, replays
end (a guided step nobody performs times out) and a tab that is gone falls silent. Users are not fair: they
need not open, start, accept or close anything.

*Proved* in `CrossTabSessionProofs` for any runs, requests and bounds: `PromiseKept` (`Spec =>
KeepsPromise`), `BoundOnlyIfAccepted`, `SidebarRemembered` and `TypeCorrect`. Neither of the first two is
inductive. For the promise, `RunFacts(r)` follows the one command of a run: it is at most once in all of
`signing`, `up`, `gate` and `queue` (`Alone`), it exists only while the run was started and not yet
replayed, and a completion on the wire agrees with what the replay did. `NothingMoves` deals with the steps
that move no command of `r` or lose one, which leaves one case for each hop: start, sign, receive,
authorize, finish. `StepKeepsPromise` then maps each step to a step of `RemoteRuns` or a stutter. For the
binding, `Binding` follows the accept: posted only by a tab that accepted (`AcceptOfMe`, from the invariant
of `PairingManagerProofs`, instantiated), then on the wire, then under verification, then bound; and an
acceptance is never taken back (`AcceptedStays`). Assumptions: `BoundsAssumption`, `MeAssumption`,
`SidebarsAssumption`.

Not in it: step progress, simple steps (they report nothing), message validation, the replay ledger, a
second controller or live tab. `HandOffIsRemembered` does not promise that the docs come back: a hand-back
that finds the sidebar taken by another extension reopens nothing and is not tried again, and what the user
does with the sidebar is the user's.

*Known gap, recorded as a hazard:* a composite step started while no tab is bound posts nothing and waits
for ever (`controller-channel.tsx, 359`); `PostedRunsSettle` speaks of runs that were posted (`Posted`).

## 10. Findings

Each is the counterexample of a `violation` run, described with its quote in `PROJECT.json`.

1. `history_clears`: the `.then` of an invalidated hydration read deletes the clear tracking of the newer
   read of the same section, and a step reset meanwhile comes back (`completion-store.ts, 195`). With today's
   `localStorage` reads the window is only microtasks wide.
2. `cross_tab_reconnects`: `lastLiveSeenRef` outlives the binding it was about. After one heartbeat loss
   every re-pairing is undone by the next tick before a beat can count, so the controller never reconnects
   (`controller-channel.tsx, 280`).

## 11. Proved, and only model-checked

| Property | TLC | TLAPS |
|---|---|---|
| `CompletionStore!TypeOK`, `CacheMatchesStorage` | yes | yes, every instance |
| `ResetStepsStayReset`, `CompletedStepsAreStored`, `ShownByCommand` (refinement) | yes | yes, for one tab without slow reads |
| `CountsAreFresh` | yes | yes, for one tab, no wipes and keys apart |
| `InteractiveSection!TypeOK`, `AckNeedsCompletion`, `DoneBit`, `CompletedIsEarned`, `CancelReaches`, `OverlayIsOfARun` | yes | yes, every instance |
| `StepChecker!TypeOK`, `DoneIsStored`, `SpinnerHasCause` | yes | yes, every instance |
| `UserStorage!TypeOK`, `StampsNameWrites`, `NeverOlder` | yes | yes, every instance |
| `CompletionIndex!TypeOK`, `OneRefresh`, `AnswersAreCurrent`, `EntryNeverRegresses`, `KeepsReadPromise` (refinement) | yes | yes, every instance |
| `PairingManager!TypeOK`, `RejectionIsFinal` | yes | yes, every instance |
| `CrossTabSession!TypeOK`, `BoundToAccepter`, `HandOffIsRemembered`, `KeepsPromise` (refinement) | yes | yes, every instance |
| `RenderedSectionsHydrate`, `AcceptIsAnnounced`, `PromptComes`, `ComesConnected`, `PostedRunsSettle`, `RequestsAnswered`, `Converges`, `OpensUnlessBlind`, `OverlayEnds` | yes | no: liveness under fairness is out of the prover's reach |

The proofs assume what the modules' named `ASSUME`s say of the constants, and nothing but the hypotheses in
this table: every safety property the runs check is proved. Every property
has a mutant: a definition that, put in the place of one the code has, makes TLC find it violated.

## 12. Not modelled, and why

- *DOM and browser*: navigation, highlighting, auto-detection, the guided handler and retries of a
  sequence. Their state is the page's; the modules above take the outcome of such a call as any.
- *Other people's protocols*: workshop sessions (PeerJS, WebRTC), the Coda terminal (Grafana Live, the Coda
  service). Their order of events is not in this repository.
- *Data in, data out*: parsing, sanitising, validation, snippets, the package engine, the context engine's ranking,
  the block editor's forms, the assistant (but for the overlay of its fixes, section 4), percentages, analytics, translations, styles, bundled content, one-shot commands.
- *The same again*: package recommendations and the guide repository (Go) are a second single-flight cache of the shape of
  `CompletionIndex`, without forced refresh or cooldown.
- *Small or out of the way*: panel mode and guide launch (one consume-once hand-off), tab restoration, learning
  paths and badges (read-modify-write within microtasks), the authoring MCP server's in-memory sessions, the
  end-to-end runner.
- *Within what is modelled*: each section above names what its module leaves out. The properties that would need two modules at
  once (a section's records synchronised between devices, a section whose steps run on a live tab) are not
  stated; the modules meet in the variables section 2 names.
