------------------------------ MODULE UserStorage ------------------------------
(***************************************************************************)
(* The plugin's user storage (src/lib/user-storage.ts): records kept in    *)
(* the localStorage of a device, queued for Grafana's user storage and     *)
(* synchronised with it once per page load, by "last write wins".          *)
(*                                                                         *)
(* One of the five synchronised keys is modelled: a key meets no other in  *)
(* the queue, which keeps the latest envelope of each, nor in the sync,    *)
(* which compares them one after the other.  A write is named by the clock *)
(* when it was made; clocks of devices agree.  What a record is changed to *)
(* is its `v`, the write it comes from, and 0 when there is no data: never *)
(* written, or removed.  `t` is its timestamp, 0 when it has none.         *)
(*                                                                         *)
(* An older version of the plugin kept value and timestamp under two keys  *)
(* of Grafana's storage.  What it left there is write 1, a value or a      *)
(* removal; the page that first finds it writes it back as an envelope.    *)
(***************************************************************************)
EXTENDS Naturals, FiniteSets

CONSTANTS
  Devices,
  Pages,         \* browser tabs
  DeviceOf,      \* the device of each: they share its localStorage
  MaxClock,      \* bound: writes by users, and stamps made up by migrations
  MaxFaults      \* bound: requests to Grafana that fail, or arrive after their page is gone

ASSUME DeviceOfAssumption == DeviceOf \in [Pages -> Devices]
ASSUME BoundsAssumption == MaxClock \in Nat /\ MaxFaults \in Nat

VARIABLES
  clock,
  local,         \* each device's localStorage
  grafana,       \* Grafana's user storage: an envelope, or a value in the old format (t = 0)
  oldStamp,      \* and its timestamp key of the old format: 1, or 0 when empty
  stage,         \* of each page: plain until its docs panel mounts, then its sync
  queue,         \* writeQueue: what is to be sent
  sending,       \* what processQueue is sending
  got,           \* what syncFromGrafanaStorage read
  syncing,       \* what it is sending
  orphans,       \* envelopes sent by pages that are gone
  clears,        \* pages whose last request empties the timestamp key
  faults,
  unstamped,     \* history: what pages wrote before their docs panel mounted
  guessed        \* history: stamps a migration made up

page == <<stage, queue, sending, got, syncing>>
remote == <<grafana, oldStamp>>
gone == <<orphans, clears>>
history == <<unstamped, guessed>>
vars == <<clock, local, remote, page, gone, faults, history>>

Envelope == [v : Nat, t : Nat]
Nothing == [v |-> 0, t |-> 0]
Stages == {"plain", "asked", "dating", "migrating", "clearing", "read", "pushing", "synced"}

TypeOK ==
  /\ clock \in Nat /\ faults \in Nat
  /\ local \in [Devices -> Envelope]
  /\ grafana \in Envelope /\ oldStamp \in {0, 1}
  /\ stage \in [Pages -> Stages]
  /\ queue \in [Pages -> Envelope] /\ sending \in [Pages -> Envelope]
  /\ got \in [Pages -> Envelope] /\ syncing \in [Pages -> Envelope]
  /\ \A p \in Pages :
       /\ syncing[p] # Nothing => stage[p] \in {"migrating", "pushing"}
       /\ queue[p] # Nothing \/ sending[p] # Nothing => stage[p] # "plain"
  /\ orphans \subseteq Envelope /\ clears \subseteq Pages
  /\ unstamped \subseteq Nat /\ guessed \subseteq Nat

(* The older version may have left a value, its timestamp, both or nothing.  *)
Init ==
  /\ clock = 1 /\ faults = 0 /\ unstamped = {} /\ guessed = {}
  /\ orphans = {} /\ clears = {}
  /\ local = [d \in Devices |-> Nothing]
  /\ grafana \in {Nothing, [v |-> 1, t |-> 0]} /\ oldStamp \in {0, 1}
  /\ stage = [p \in Pages |-> "plain"]
  /\ queue = [p \in Pages |-> Nothing] /\ sending = [p \in Pages |-> Nothing]
  /\ got = [p \in Pages |-> Nothing] /\ syncing = [p \in Pages |-> Nothing]

Here(p) == local[DeviceOf[p]]
Keep(p, e) == local' = [local EXCEPT ![DeviceOf[p]] = e]

Arrives(e) == grafana' = e /\ UNCHANGED oldStamp
Fails == faults < MaxFaults /\ faults' = faults + 1 /\ UNCHANGED remote

(* Date.now() *)
Now == clock < MaxClock /\ clock' = clock + 1

-----------------------------------------------------------------------------
(* Writing (createLocalStorage, createHybridStorage).                         *)

(* No page-wide storage is set yet: the value goes in, its timestamp stays.  *)
WritePlain(p, v) ==
  /\ stage[p] = "plain" /\ Now
  /\ Keep(p, [Here(p) EXCEPT !.v = v])
  /\ unstamped' = unstamped \cup {v}
  /\ UNCHANGED <<remote, page, gone, faults, guessed>>

WriteHybrid(p, v) ==
  /\ stage[p] # "plain" /\ Now
  /\ Keep(p, [v |-> v, t |-> clock'])
  /\ queue' = [queue EXCEPT ![p] = [v |-> v, t |-> clock']]
  /\ UNCHANGED <<remote, stage, sending, got, syncing, gone, faults, history>>

(* setItem or removeItem. *)
Write(p) == \E v \in {clock + 1, 0} : WritePlain(p, v) \/ WriteHybrid(p, v)

(* The debounce timer fires, or the queue before it is done.                 *)
ProcessQueue(p) ==
  /\ queue[p] # Nothing /\ sending[p] = Nothing
  /\ sending' = [sending EXCEPT ![p] = queue[p]]
  /\ queue' = [queue EXCEPT ![p] = Nothing]
  /\ UNCHANGED <<clock, local, remote, stage, got, syncing, gone, faults, history>>

(* What fails is not sent again.                                             *)
QueueSent(p) ==
  /\ sending[p] # Nothing
  /\ \/ Arrives(sending[p]) /\ UNCHANGED faults
     \/ Fails
  /\ sending' = [sending EXCEPT ![p] = Nothing]
  /\ UNCHANGED <<clock, local, stage, queue, got, syncing, gone, history>>

-----------------------------------------------------------------------------
(* Once per page load (useUserStorage, syncFromGrafanaStorage).               *)

Mount(p) ==
  /\ stage[p] = "plain"
  /\ stage' = [stage EXCEPT ![p] = "asked"]
  /\ UNCHANGED <<clock, local, remote, queue, sending, got, syncing, gone, faults, history>>

(* The value is asked for first; only what is not an envelope has a date elsewhere. *)
ReadGrafana(p) ==
  /\ stage[p] = "asked"
  /\ got' = [got EXCEPT ![p] = grafana]
  /\ stage' = [stage EXCEPT ![p] = IF grafana.t > 0 THEN "read" ELSE "dating"]
  /\ UNCHANGED <<clock, local, remote, queue, sending, syncing, gone, faults, history>>

(* Mutant: the migration is not awaited.                                      *)
MigratesUnawaited(p, t) ==
  /\ got' = [got EXCEPT ![p].t = t]
  /\ syncing' = [syncing EXCEPT ![p] = got'[p]]
  /\ stage' = [stage EXCEPT ![p] = "read"]

(* The old format is written back as an envelope before anything is decided.  *)
Migrates(p, t) ==
  /\ got' = [got EXCEPT ![p].t = t]
  /\ syncing' = [syncing EXCEPT ![p] = got'[p]]
  /\ stage' = [stage EXCEPT ![p] = "migrating"]

(***************************************************************************)
(* Then the timestamp key is asked for.  It may be empty by now because    *)
(* another page has migrated the value meanwhile: the value read above is  *)
(* then stamped with the time of the migration, as one that never had a    *)
(* timestamp is.                                                           *)
(***************************************************************************)
ReadDate(p) ==
  /\ stage[p] = "dating"
  /\ \/ /\ oldStamp = 0 /\ got[p].v = 0
        /\ stage' = [stage EXCEPT ![p] = "read"]
        /\ UNCHANGED <<clock, got, syncing, guessed>>
     \/ /\ oldStamp > 0
        /\ Migrates(p, oldStamp)
        /\ UNCHANGED <<clock, guessed>>
     \/ /\ oldStamp = 0 /\ got[p].v # 0
        /\ Now
        /\ guessed' = guessed \cup {clock'}
        /\ Migrates(p, clock')
  /\ UNCHANGED <<local, remote, queue, sending, gone, faults, unstamped>>

(* Once the envelope is there, the timestamp key is emptied.                  *)
ClearSent(p) ==
  /\ stage[p] = "clearing"
  /\ \/ oldStamp' = 0 /\ UNCHANGED <<grafana, faults>>
     \/ Fails
  /\ stage' = [stage EXCEPT ![p] = "read"]
  /\ UNCHANGED <<clock, local, queue, sending, got, syncing, gone, history>>

ReadFails(p) ==
  /\ stage[p] \in {"asked", "dating"} /\ Fails
  /\ stage' = [stage EXCEPT ![p] = "synced"]
  /\ got' = [got EXCEPT ![p] = Nothing]
  /\ UNCHANGED <<clock, local, queue, sending, syncing, gone, history>>

Decides(p, e) ==
  /\ stage[p] = "read"
  /\ stage' = [stage EXCEPT ![p] = IF e = Nothing THEN "synced" ELSE "pushing"]
  /\ syncing' = [syncing EXCEPT ![p] = e]
  /\ got' = [got EXCEPT ![p] = Nothing]
  /\ UNCHANGED <<remote, queue, sending, gone, faults, history>>

Unstamped(e) == e.t = 0 /\ e.v # 0

(* Mutant: "Grafana is source of truth", whatever the device holds.          *)
TakeAlways(p) ==
  /\ got[p].t > 0 /\ ~Unstamped(Here(p))
  /\ Decides(p, Nothing) /\ Keep(p, got[p]) /\ UNCHANGED clock

(* Mutant: the timestamp is not taken with the value.                        *)
TakeValueOnly(p) ==
  /\ got[p].t > Here(p).t /\ ~Unstamped(Here(p))
  /\ Here(p).t > 0 \/ got[p].v # 0
  /\ Decides(p, Nothing) /\ Keep(p, [Here(p) EXCEPT !.v = got[p].v]) /\ UNCHANGED clock

(* Grafana is newer; its tombstone tells a device that has nothing nothing.   *)
Take(p) ==
  /\ got[p].t > Here(p).t /\ ~Unstamped(Here(p))
  /\ Here(p).t > 0 \/ got[p].v # 0
  /\ Decides(p, Nothing) /\ Keep(p, got[p]) /\ UNCHANGED clock

(* Mutant: a device that is ahead keeps that to itself.                       *)
PushNothing(p) == Here(p).t > got[p].t /\ Decides(p, Nothing) /\ UNCHANGED <<clock, local>>

Push(p) == Here(p).t > got[p].t /\ Decides(p, Here(p)) /\ UNCHANGED <<clock, local>>

(* "PRESERVE localStorage data - assign timestamp and sync to Grafana".       *)
Stamp(p) ==
  /\ Unstamped(Here(p))
  /\ clock' = clock + 1
  /\ LET e == [Here(p) EXCEPT !.t = clock'] IN Keep(p, e) /\ Decides(p, e)

Agrees(p) ==
  /\ ~Unstamped(Here(p))
  /\ got[p].t = Here(p).t \/ (Here(p).t = 0 /\ got[p].v = 0)
  /\ Decides(p, Nothing) /\ UNCHANGED <<clock, local>>

(* The envelope is sent; a migration that fails here leaves the timestamp key alone. *)
SyncSent(p) ==
  /\ stage[p] \in {"migrating", "pushing"}
  /\ \/ /\ Arrives(syncing[p])
        /\ stage' = [stage EXCEPT ![p] = IF @ = "migrating" THEN "clearing" ELSE "synced"]
        /\ UNCHANGED faults
     \/ /\ Fails
        /\ stage' = [stage EXCEPT ![p] = IF @ = "migrating" THEN "read" ELSE "synced"]
  /\ syncing' = [syncing EXCEPT ![p] = Nothing]
  /\ UNCHANGED <<clock, local, queue, sending, got, gone, history>>

-----------------------------------------------------------------------------
(* The user reloads, and what the page was sending arrives before, later or never. *)

Reload(p) ==
  /\ stage[p] # "plain"
  /\ stage' = [stage EXCEPT ![p] = "plain"]
  /\ queue' = [queue EXCEPT ![p] = Nothing]
  /\ sending' = [sending EXCEPT ![p] = Nothing]
  /\ got' = [got EXCEPT ![p] = Nothing]
  /\ syncing' = [syncing EXCEPT ![p] = Nothing]
  /\ \E late \in SUBSET ({sending[p], syncing[p]} \ {Nothing}) : orphans' = orphans \cup late
  /\ \/ UNCHANGED clears
     \/ stage[p] = "clearing" /\ clears' = clears \cup {p}
  /\ faults' = faults + Cardinality(orphans' \ orphans) + Cardinality(clears' \ clears)
  /\ faults' \in 0..MaxFaults
  /\ UNCHANGED <<clock, local, remote, history>>

OrphanEnds(e) ==
  /\ Arrives(e)
  /\ orphans' = orphans \ {e}
  /\ UNCHANGED <<clock, local, page, clears, faults, history>>

ClearEnds(p) ==
  /\ oldStamp' = 0
  /\ clears' = clears \ {p}
  /\ UNCHANGED <<clock, local, grafana, page, orphans, faults, history>>

Sync(p) ==
  \/ ReadGrafana(p) \/ ReadDate(p) \/ ReadFails(p) \/ ClearSent(p)
  \/ Take(p) \/ Push(p) \/ Stamp(p) \/ Agrees(p)
  \/ SyncSent(p)

Next ==
  \/ \E p \in Pages : Write(p) \/ ProcessQueue(p) \/ QueueSent(p) \/ Mount(p) \/ Sync(p) \/ Reload(p)
  \/ \E e \in orphans : OrphanEnds(e)
  \/ \E p \in clears : ClearEnds(p)

(* Timers fire and requests end; users owe nothing.                           *)
Fairness == \A p \in Pages : WF_vars(ProcessQueue(p)) /\ WF_vars(QueueSent(p)) /\ WF_vars(Sync(p))

Spec == Init /\ [][Next]_vars
FairSpec == Spec /\ Fairness

-----------------------------------------------------------------------------

(* The write a replica holds: a removal is named by its stamp.                *)
WriteOf(e) == IF e.v = 0 THEN e.t ELSE e.v

(* Neither written before the docs panel mounted nor dated by a migration.    *)
Dated(e) == e.v \notin unstamped /\ e.t \notin guessed

(***************************************************************************)
(* Last write wins: no sync, however late its answer, moves a device's     *)
(* timestamp back, or replaces what the device holds by an older write.    *)
(* Two kinds of write are outside this, since their timestamps say nothing *)
(* of when they were made: those of pages whose docs panel had not         *)
(* mounted, and values of the old format that a migration found undated,   *)
(* which replace newer ones (user-storage.ts:516).                         *)
(***************************************************************************)
NeverOlder ==
  [][\A d \in Devices :
       /\ local'[d].t >= local[d].t
       /\ Dated(local[d])' /\ Dated(local[d]) => WriteOf(local'[d]) >= WriteOf(local[d])]_vars

Held == {local[d] : d \in Devices} \cup {grafana} \cup orphans
        \cup UNION {{queue[p], sending[p], got[p], syncing[p]} : p \in Pages}

(***************************************************************************)
(* Two replicas with one timestamp hold one write, wherever they are, for  *)
(* only equality of timestamps makes the sync leave both alone: unless one *)
(* of them was written before its docs panel mounted, when the timestamp   *)
(* of the write before it stays.                                           *)
(***************************************************************************)
StampsNameWrites ==
  \A e, f \in Held :
    e.t = f.t /\ e.t > 0 => e.v = f.v \/ e.v \in unstamped \/ f.v \in unstamped

(***************************************************************************)
(* "Eventual consistency": once users stop writing, if pages of every      *)
(* device are loaded again and again and their syncs end, all devices and  *)
(* Grafana come to hold one write, the latest by NeverOlder, whatever was  *)
(* lost, delayed past a reload or overwritten by an older envelope.        *)
(***************************************************************************)
Settled == \A d \in Devices : local[d].t = grafana.t \/ (local[d] = Nothing /\ grafana.v = 0)
Converges ==
  (\A p \in Pages : []<>(stage[p] = "asked") /\ []<>(stage[p] = "synced")) => <>[]Settled

=============================================================================
