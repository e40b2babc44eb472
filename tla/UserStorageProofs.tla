--------------------------- MODULE UserStorageProofs ---------------------------
(***************************************************************************)
(* Proofs about UserStorage, for any devices, pages and bounds.  What a    *)
(* replica's stamp says is an invariant of all replicas wherever they are  *)
(* (Fits), and a step makes one new replica at most (OneNew, NoneNew).     *)
(***************************************************************************)
EXTENDS UserStorage, TLAPS

(* What the older version wrote last: L is 1 for a value, 0 for a removal.     *)
Old == {0, 1}

(***************************************************************************)
(* No replica is stamped with a time that has not come; a stamp is the     *)
(* write the replica holds, apart from early writes and guessed stamps;    *)
(* and stamp 1 is that of what the older version wrote.                    *)
(***************************************************************************)
Fits(L, e) ==
  /\ e.t \in Nat /\ e.t <= clock
  /\ e.t > 0 /\ Dated(e) => WriteOf(e) = e.t
  /\ e.t = 1 => e.v = L \/ e.v \in unstamped

(* Data without a stamp is an early write on a device, and the old format on Grafana. *)
Undated(L) ==
  /\ clock >= 1
  /\ \A d \in Devices : local[d].t = 0 => local[d].v = 0 \/ local[d].v \in unstamped
  /\ grafana.t = 0 => grafana.v = L
  /\ \A p \in Pages : stage[p] = "dating" => got[p] = [v |-> L, t |-> 0]

(* What is sent to Grafana is stamped.                                         *)
Sendable ==
  /\ \A p \in Pages : /\ queue[p] # Nothing => queue[p].t > 0
                      /\ sending[p] # Nothing => sending[p].t > 0
                      /\ stage[p] \in {"migrating", "pushing"} => syncing[p].t > 0
  /\ \A e \in orphans : e.t > 0

AllFit(L) == \A e \in Held : Fits(L, e)

Inv(L) == TypeOK /\ StampsNameWrites /\ AllFit(L) /\ Undated(L) /\ Sendable
IInv == \E L \in Old : Inv(L)

(* The replicas are where the variables say, and nowhere else.                *)
LEMMA HeldWithin ==
  ASSUME NEW S,
         \A d \in Devices : local'[d] \in S,
         grafana' \in S, orphans' \subseteq S,
         \A p \in Pages : queue'[p] \in S /\ sending'[p] \in S /\ got'[p] \in S /\ syncing'[p] \in S
  PROVE  Held' \subseteq S
BY DEF Held

LEMMA HeldHas ==
  /\ \A d \in Devices : local[d] \in Held
  /\ grafana \in Held /\ orphans \subseteq Held
  /\ \A p \in Pages : queue[p] \in Held /\ sending[p] \in Held /\ got[p] \in Held /\ syncing[p] \in Held
BY DEF Held

LEMMA NothingIsEnvelope == Nothing \in Envelope /\ Nothing.t = 0 /\ Nothing.v = 0
BY DEF Nothing, Envelope

(* A replica that fits goes on fitting: time passes and the histories only grow. *)
LEMMA StillFits ==
  ASSUME NEW L \in Old, NEW e, Fits(L, e), clock \in Nat, clock' \in Nat, clock' >= clock,
         unstamped \subseteq unstamped', guessed \subseteq guessed'
  PROVE  Fits(L, e)'
BY DEF Fits, Dated, WriteOf

(***************************************************************************)
(* A step that moves replicas about and makes at most one, which fits and  *)
(* is stamped with a time of its own, or was made by a page without a      *)
(* mounted docs panel, or is what the older version wrote.                 *)
(***************************************************************************)
LEMMA OneNew ==
  ASSUME NEW L \in Old, Inv(L), clock' \in Nat, clock' >= clock,
         unstamped \subseteq unstamped', guessed \subseteq guessed',
         NEW n, Fits(L, n)', n.t > clock \/ n.v \in unstamped' \/ (n.t = 1 /\ n.v = L),
         Held' \subseteq Held \cup {Nothing, n}
  PROVE  (StampsNameWrites /\ AllFit(L))'
<1>1. clock \in Nat BY DEF Inv, TypeOK
<1>2. Fits(L, Nothing)' BY NothingIsEnvelope DEF Fits
<1>3. ASSUME NEW e \in Held' PROVE Fits(L, e)'
  <2>1. e \in Held \/ e = Nothing \/ e = n OBVIOUS
  <2>2. CASE e \in Held BY <1>1, <2>2, StillFits DEF Inv, AllFit
  <2>3. CASE e = Nothing BY <1>2, <2>3
  <2>4. CASE e = n BY <2>4 DEF Fits, Dated, WriteOf
  <2> QED BY <2>1, <2>2, <2>3, <2>4
<1>4. ASSUME NEW e \in Held', NEW f \in Held', e.t = f.t, e.t > 0
      PROVE  e.v = f.v \/ e.v \in unstamped' \/ f.v \in unstamped'
  <2>1. (e \in Held \/ e = n) /\ (f \in Held \/ f = n) BY <1>4, NothingIsEnvelope
  <2>2. CASE e \in Held /\ f \in Held BY <2>2, <1>4 DEF Inv, StampsNameWrites
  <2>3. CASE e = n /\ f = n BY <2>3
  <2>4. ASSUME NEW g \in Held, g.t = n.t PROVE g.v = n.v \/ g.v \in unstamped' \/ n.v \in unstamped'
    <3>1. g.t \in Nat /\ g.t <= clock /\ (g.t = 1 => g.v = L \/ g.v \in unstamped)
      BY DEF Inv, AllFit, Fits
    <3> QED BY <1>1, <2>4, <3>1
  <2> QED BY <1>4, <2>1, <2>2, <2>3, <2>4
<1> QED BY <1>3, <1>4 DEF StampsNameWrites, AllFit

LEMMA NoneNew ==
  ASSUME NEW L \in Old, Inv(L), clock' \in Nat, clock' >= clock, unstamped' = unstamped,
         guessed' = guessed, Held' \subseteq Held \cup {Nothing}
  PROVE  (StampsNameWrites /\ AllFit(L))'
<1>1. clock \in Nat BY DEF Inv, TypeOK
<1>2. Fits(L, Nothing)' BY NothingIsEnvelope DEF Fits
<1>3. \A e \in Held' : Fits(L, e)' BY <1>1, <1>2, StillFits DEF Inv, AllFit
<1>4. \A e \in Held' : e \in Held \/ e.t = 0 BY NothingIsEnvelope
<1>5. StampsNameWrites' BY <1>4 DEF Inv, StampsNameWrites
<1> QED BY <1>3, <1>5 DEF AllFit

LEMMA InitInvariant == Init => IInv
<1> SUFFICES ASSUME Init PROVE IInv OBVIOUS
<1> USE NothingIsEnvelope
<1>1. TypeOK
  <2>1. grafana \in Envelope BY DEF Init, Nothing, Envelope
  <2>2. local \in [Devices -> Envelope] /\ queue \in [Pages -> Envelope] /\ sending \in [Pages -> Envelope]
        /\ got \in [Pages -> Envelope] /\ syncing \in [Pages -> Envelope]
    BY DEF Init
  <2>3. stage \in [Pages -> Stages] BY DEF Init, Stages
  <2>4. \A p \in Pages : syncing[p] = Nothing /\ queue[p] = Nothing /\ sending[p] = Nothing
    BY DEF Init
  <2>5. clock \in Nat /\ faults \in Nat /\ orphans \subseteq Envelope /\ clears \subseteq Pages
        /\ unstamped \subseteq Nat /\ guessed \subseteq Nat /\ oldStamp \in {0, 1}
    BY DEF Init
  <2> QED BY <2>1, <2>2, <2>3, <2>4, <2>5 DEF TypeOK
<1>2. PICK L \in Old : grafana = [v |-> L, t |-> 0] BY DEF Init, Nothing, Old
<1>3. \A e \in Held : e.t = 0 BY DEF Init, Held, Nothing
<1>4. StampsNameWrites BY <1>3 DEF StampsNameWrites
<1>5. AllFit(L) BY <1>3 DEF AllFit, Fits, Init
<1>6. Undated(L) BY <1>2 DEF Undated, Init
<1>7. Sendable BY DEF Sendable, Init
<1> QED BY <1>1, <1>4, <1>5, <1>6, <1>7 DEF IInv, Inv

-----------------------------------------------------------------------------

LEMMA WritePlainStep ==
  ASSUME NEW L \in Old, Inv(L), NEW p \in Pages, NEW v \in Nat, WritePlain(p, v)
  PROVE  Inv(L)'
<1> USE DeviceOfAssumption
<1>0. PICK n : n = [Here(p) EXCEPT !.v = v] OBVIOUS
<1>1. Here(p) \in Envelope /\ DeviceOf[p] \in Devices BY DEF Inv, TypeOK, Here
<1>2. n \in Envelope /\ n.t = Here(p).t /\ n.v = v BY <1>0, <1>1 DEF Envelope
<1>3. local' = [local EXCEPT ![DeviceOf[p]] = n] BY <1>0 DEF WritePlain, Keep
<1>4. TypeOK'
  <2>1. clock' \in Nat /\ unstamped' \subseteq Nat BY DEF WritePlain, Now, Inv, TypeOK
  <2>2. local' \in [Devices -> Envelope] BY <1>2, <1>3 DEF Inv, TypeOK
  <2> QED BY <2>1, <2>2 DEF WritePlain, page, remote, gone, Inv, TypeOK
<1>5. Held' \subseteq Held \cup {Nothing, n}
  <2>1. \A d \in Devices : local'[d] \in Held \cup {Nothing, n}
    BY <1>3, HeldHas DEF Inv, TypeOK
  <2> QED BY <2>1, HeldHas, HeldWithin DEF WritePlain, page, remote, gone
<1>6. clock \in Nat /\ clock' \in Nat /\ clock' >= clock BY DEF WritePlain, Now, Inv, TypeOK
<1>7. unstamped \subseteq unstamped' /\ n.v \in unstamped' /\ guessed' = guessed BY <1>2 DEF WritePlain
<1>8. n.t \in Nat /\ n.t <= clock' BY <1>1, <1>2, <1>6, HeldHas DEF Inv, AllFit, Fits, Here, Envelope
<1>9. Undated(L)'
  <2>1. \A d \in Devices : local'[d].t = 0 => local'[d].v = 0 \/ local'[d].v \in unstamped'
    <3>1. \A d \in Devices : local'[d] = n \/ local'[d] = local[d] BY <1>3 DEF Inv, TypeOK
    <3> QED BY <1>7, <3>1 DEF Inv, Undated
  <2> QED BY <1>6, <2>1 DEF Inv, Undated, WritePlain, page, remote
<1>10. Fits(L, n)' BY <1>7, <1>8 DEF Fits, Dated
<1>11. (StampsNameWrites /\ AllFit(L))' BY <1>5, <1>6, <1>7, <1>10, OneNew
<1>12. Sendable' BY DEF Inv, Sendable, WritePlain, page, gone
<1> QED BY <1>4, <1>9, <1>11, <1>12 DEF Inv

LEMMA WriteHybridStep ==
  ASSUME NEW L \in Old, Inv(L), NEW p \in Pages, NEW v \in {clock + 1, 0}, WriteHybrid(p, v)
  PROVE  Inv(L)'
<1> USE DeviceOfAssumption
<1>0. PICK n : n = [v |-> v, t |-> clock'] OBVIOUS
<1>1. clock \in Nat /\ clock' = clock + 1 /\ clock >= 1 BY DEF WriteHybrid, Now, Inv, TypeOK, Undated
<1>2. n \in Envelope /\ n # Nothing BY <1>0, <1>1 DEF Envelope, Nothing
<1>3. local' = [local EXCEPT ![DeviceOf[p]] = n] /\ queue' = [queue EXCEPT ![p] = n]
  BY <1>0 DEF WriteHybrid, Keep
<1>4. TypeOK'
  <2>1. local' \in [Devices -> Envelope] /\ queue' \in [Pages -> Envelope] BY <1>2, <1>3 DEF Inv, TypeOK
  <2>2. \A q \in Pages :
           /\ syncing'[q] # Nothing => stage'[q] \in {"migrating", "pushing"}
           /\ queue'[q] # Nothing \/ sending'[q] # Nothing => stage'[q] # "plain"
    BY <1>3 DEF WriteHybrid, Inv, TypeOK
  <2> QED BY <1>1, <2>1, <2>2 DEF WriteHybrid, remote, gone, history, Inv, TypeOK
<1>5. Held' \subseteq Held \cup {Nothing, n}
  <2>1. \A d \in Devices : local'[d] \in Held \cup {Nothing, n} BY <1>3, HeldHas DEF Inv, TypeOK
  <2>2. \A q \in Pages : queue'[q] \in Held \cup {Nothing, n} BY <1>3, HeldHas DEF Inv, TypeOK
  <2> QED BY <2>1, <2>2, HeldHas, HeldWithin DEF WriteHybrid, remote, gone
<1>6. n.t = clock' /\ n.v = v /\ n.t > clock /\ clock' \in Nat /\ clock' >= clock BY <1>0, <1>1
<1>7. unstamped' = unstamped /\ guessed' = guessed BY DEF WriteHybrid, history
<1>8. Undated(L)'
  <2>1. \A d \in Devices : local'[d] = n \/ local'[d] = local[d] BY <1>3 DEF Inv, TypeOK
  <2>2. n.t # 0 BY <1>1, <1>6
  <2>3. \A d \in Devices : local'[d].t = 0 => local'[d].v = 0 \/ local'[d].v \in unstamped'
    BY <1>7, <2>1, <2>2 DEF Inv, Undated
  <2> QED BY <1>1, <2>3 DEF Inv, Undated, WriteHybrid, remote
<1>9. Fits(L, n)' BY <1>1, <1>6, <1>7 DEF Fits, Dated, WriteOf
<1>10. (StampsNameWrites /\ AllFit(L))' BY <1>5, <1>6, <1>7, <1>9, OneNew
<1>11. Sendable'
  <2>1. \A q \in Pages : queue'[q] = n \/ queue'[q] = queue[q] BY <1>3 DEF Inv, TypeOK
  <2> QED BY <1>1, <1>6, <2>1 DEF Inv, Sendable, WriteHybrid, gone
<1> QED BY <1>4, <1>8, <1>10, <1>11 DEF Inv

LEMMA QueueStep ==
  ASSUME NEW L \in Old, Inv(L), NEW p \in Pages, ProcessQueue(p) \/ QueueSent(p)
  PROVE  Inv(L)'
<1> USE NothingIsEnvelope, BoundsAssumption
<1>1. UNCHANGED <<clock, local, oldStamp, stage, got, syncing, orphans, clears, unstamped, guessed>>
      /\ clock \in Nat
  BY DEF ProcessQueue, QueueSent, Arrives, Fails, remote, gone, history, Inv, TypeOK
<1>2. /\ grafana' = grafana \/ (grafana' = sending[p] /\ sending[p] # Nothing)
      /\ faults' \in Nat
  BY DEF ProcessQueue, QueueSent, Arrives, Fails, remote, Inv, TypeOK
<1>3. \A q \in Pages : /\ queue'[q] \in {queue[q], Nothing}
                       /\ sending'[q] = sending[q] \/ sending'[q] = Nothing
                          \/ (sending'[q] = queue[q] /\ queue[q] # Nothing)
  BY DEF ProcessQueue, QueueSent, Inv, TypeOK
<1>4. TypeOK'
  <2>1. queue' \in [Pages -> Envelope] /\ sending' \in [Pages -> Envelope] /\ grafana' \in Envelope
    BY <1>2, NothingIsEnvelope DEF ProcessQueue, QueueSent, Inv, TypeOK
  <2>2. \A q \in Pages : queue'[q] # Nothing \/ sending'[q] # Nothing => stage[q] # "plain"
    BY <1>3 DEF Inv, TypeOK
  <2> QED BY <1>1, <1>2, <2>1, <2>2 DEF Inv, TypeOK
<1>5. Held' \subseteq Held \cup {Nothing}
  <2>1. grafana' \in Held \cup {Nothing} BY <1>2, HeldHas
  <2>2. \A q \in Pages : queue'[q] \in Held \cup {Nothing} /\ sending'[q] \in Held \cup {Nothing}
    BY <1>3, HeldHas
  <2> QED BY <1>1, <2>1, <2>2, HeldHas, HeldWithin
<1>6. Undated(L)' BY <1>1, <1>2 DEF Inv, Undated, Sendable
<1>7. Sendable' BY <1>1, <1>3 DEF Inv, Sendable
<1>8. unstamped' = unstamped /\ guessed' = guessed /\ clock' \in Nat /\ clock' >= clock BY <1>1
<1>9. (StampsNameWrites /\ AllFit(L))' BY <1>5, <1>8, NoneNew
<1> QED BY <1>4, <1>6, <1>7, <1>9 DEF Inv

(* The steps of a read that make no replica: the key is asked for, and its answers come or fail. *)
LEMMA ReadStep ==
  ASSUME NEW L \in Old, Inv(L), NEW p \in Pages, Mount(p) \/ ReadGrafana(p) \/ ReadFails(p) \/ ClearSent(p)
  PROVE  Inv(L)'
<1> USE NothingIsEnvelope
<1>1. UNCHANGED <<clock, local, grafana, queue, sending, syncing, orphans, clears, unstamped, guessed>>
      /\ clock \in Nat
  BY DEF Mount, ReadGrafana, ReadFails, ClearSent, Fails, remote, gone, history, Inv, TypeOK
<1>2. faults' \in Nat /\ oldStamp' \in {0, 1}
  BY DEF Mount, ReadGrafana, ReadFails, ClearSent, Fails, remote, Inv, TypeOK
<1>3. stage' \in [Pages -> Stages] /\ got' \in [Pages -> Envelope]
  BY DEF Mount, ReadGrafana, ReadFails, ClearSent, Stages, Inv, TypeOK
<1>4. \A q \in Pages : got'[q] \in {got[q], grafana, Nothing}
  BY DEF Mount, ReadGrafana, ReadFails, ClearSent, Inv, TypeOK
<1>5. /\ stage[p] \notin {"migrating", "pushing"} /\ stage'[p] \notin {"plain", "migrating", "pushing"}
      /\ \A q \in Pages \ {p} : stage'[q] = stage[q] /\ got'[q] = got[q]
      /\ stage'[p] = "dating" => got'[p] = grafana /\ ~(grafana.t > 0)
  BY DEF Mount, ReadGrafana, ReadFails, ClearSent, Inv, TypeOK
<1>6. TypeOK' BY <1>1, <1>2, <1>3, <1>5 DEF Inv, TypeOK
<1>7. Held' \subseteq Held \cup {Nothing}
  <2>1. \A q \in Pages : got'[q] \in Held \cup {Nothing} BY <1>4, HeldHas
  <2> QED BY <1>1, <2>1, HeldHas, HeldWithin
<1>8. Undated(L)'
  <2>1. grafana \in Envelope BY DEF Inv, TypeOK
  <2>2. ~(grafana.t > 0) => grafana = [v |-> L, t |-> 0] BY <2>1 DEF Inv, Undated, Envelope
  <2>3. \A q \in Pages : stage'[q] = "dating" => got'[q] = [v |-> L, t |-> 0]
    BY <1>5, <2>2 DEF Inv, Undated
  <2> QED BY <1>1, <2>3 DEF Inv, Undated
<1>9. Sendable' BY <1>1, <1>5 DEF Inv, Sendable
<1>10. unstamped' = unstamped /\ guessed' = guessed /\ clock' \in Nat /\ clock' >= clock BY <1>1
<1>11. (StampsNameWrites /\ AllFit(L))' BY <1>7, <1>10, NoneNew
<1> QED BY <1>6, <1>8, <1>9, <1>11 DEF Inv

(* The migration's replica is what the older version wrote, with its stamp or a guessed one. *)
LEMMA ReadDateStep ==
  ASSUME NEW L \in Old, Inv(L), NEW p \in Pages, ReadDate(p)
  PROVE  Inv(L)'
<1> USE NothingIsEnvelope
<1>1. UNCHANGED <<local, remote, queue, sending, gone, faults, unstamped>> /\ stage[p] = "dating"
  BY DEF ReadDate
<1>2. got[p] = [v |-> L, t |-> 0] /\ syncing[p] = Nothing /\ clock \in Nat /\ clock >= 1 /\ L \in Nat
  BY <1>1 DEF Inv, Undated, TypeOK, Old
<1>3. CASE oldStamp = 0 /\ got[p].v = 0 /\ stage' = [stage EXCEPT ![p] = "read"]
           /\ UNCHANGED <<clock, got, syncing, guessed>>
  <2>1. TypeOK' BY <1>1, <1>3 DEF Inv, TypeOK, Stages, remote, gone
  <2>2. Held' \subseteq Held \cup {Nothing} BY <1>1, <1>3, HeldHas, HeldWithin DEF remote, gone
  <2>3. Undated(L)' BY <1>1, <1>3 DEF Inv, TypeOK, Undated, remote
  <2>4. Sendable' BY <1>1, <1>3 DEF Inv, TypeOK, Sendable, gone
  <2>5. unstamped' = unstamped /\ guessed' = guessed /\ clock' \in Nat /\ clock' >= clock BY <1>1, <1>2, <1>3
  <2>6. (StampsNameWrites /\ AllFit(L))' BY <2>2, <2>5, NoneNew
  <2> QED BY <2>1, <2>3, <2>4, <2>6 DEF Inv
<1>4. ASSUME NEW t \in Nat, Migrates(p, t), clock' \in Nat, clock' >= clock, t <= clock', t >= 1,
             guessed \subseteq guessed', guessed' \subseteq Nat,
             t = 1 \/ (t > clock /\ t \in guessed')
      PROVE  Inv(L)'
  <2> DEFINE n == [v |-> L, t |-> t]
  <2>1. /\ got' = [got EXCEPT ![p] = n] /\ syncing' = [syncing EXCEPT ![p] = n]
        /\ stage' = [stage EXCEPT ![p] = "migrating"]
    <3>1. [got[p] EXCEPT !.t = t] = n BY <1>2
    <3>2. got' = [got EXCEPT ![p] = n] BY <1>4, <3>1 DEF Migrates, Inv, TypeOK
    <3> QED BY <1>4, <3>2 DEF Migrates, Inv, TypeOK
  <2>2. n \in Envelope /\ n.t = t /\ n.v = L BY <1>2 DEF Envelope
  <2> HIDE DEF n
  <2>3. TypeOK' BY <1>1, <1>4, <2>1, <2>2 DEF Inv, TypeOK, Stages, remote, gone
  <2>4. Held' \subseteq Held \cup {Nothing, n}
    <3>1. \A q \in Pages : got'[q] \in Held \cup {n} /\ syncing'[q] \in Held \cup {n}
      BY <2>1, HeldHas DEF Inv, TypeOK
    <3> QED BY <1>1, <3>1, HeldHas, HeldWithin DEF remote, gone
  <2>5. Fits(L, n)' BY <1>1, <1>4, <2>2 DEF Fits, Dated, WriteOf, Old
  <2>6. Undated(L)'
    <3>1. \A q \in Pages : stage'[q] = "dating" => stage[q] = "dating" /\ got'[q] = got[q]
      BY <2>1 DEF Inv, TypeOK
    <3> QED BY <1>1, <1>2, <1>4, <3>1 DEF Inv, Undated, remote
  <2>7. Sendable'
    <3>1. \A q \in Pages : stage'[q] \in {"migrating", "pushing"} => syncing'[q].t > 0
      BY <1>4, <2>1, <2>2 DEF Inv, TypeOK, Sendable
    <3> QED BY <1>1, <3>1 DEF Inv, Sendable, gone
  <2>8. (StampsNameWrites /\ AllFit(L))' BY <1>1, <1>4, <2>2, <2>4, <2>5, OneNew
  <2> QED BY <2>3, <2>6, <2>7, <2>8 DEF Inv
<1>5. CASE oldStamp > 0 /\ Migrates(p, oldStamp) /\ UNCHANGED <<clock, guessed>>
  <2>1. oldStamp = 1 /\ guessed \subseteq Nat BY <1>5 DEF Inv, TypeOK
  <2> QED BY <1>2, <1>4, <1>5, <2>1
<1>6. CASE Now /\ guessed' = guessed \cup {clock'} /\ Migrates(p, clock')
  <2>1. clock' = clock + 1 /\ guessed \subseteq Nat BY <1>6 DEF Now, Inv, TypeOK
  <2>2. clock' \in Nat /\ clock' >= clock /\ clock' >= 1 /\ clock' > clock /\ guessed' \subseteq Nat
    BY <1>2, <1>6, <2>1
  <2> QED BY <1>4, <1>6, <2>2
<1> QED BY <1>3, <1>5, <1>6 DEF ReadDate

(* What every decision does to the page that makes it.                        *)
LEMMA DecidesPage ==
  ASSUME NEW L \in Old, Inv(L), NEW p \in Pages, NEW e \in Envelope, Decides(p, e), e = Nothing \/ e.t > 0
  PROVE  /\ stage' \in [Pages -> Stages] /\ got' \in [Pages -> Envelope] /\ syncing' \in [Pages -> Envelope]
         /\ \A q \in Pages :
              /\ syncing'[q] # Nothing => stage'[q] \in {"migrating", "pushing"}
              /\ queue'[q] # Nothing \/ sending'[q] # Nothing => stage'[q] # "plain"
         /\ \A q \in Pages : got'[q] \in Held \cup {Nothing} /\ syncing'[q] \in Held \cup {Nothing, e}
         /\ \A q \in Pages : stage'[q] = "dating" => stage[q] = "dating" /\ got'[q] = got[q]
         /\ Sendable'
<1> USE NothingIsEnvelope
<1>1. stage' \in [Pages -> Stages] BY DEF Decides, Inv, TypeOK, Stages
<1>2. got' \in [Pages -> Envelope] /\ syncing' \in [Pages -> Envelope] BY DEF Decides, Inv, TypeOK
<1>3. \A q \in Pages : syncing'[q] # Nothing => stage'[q] \in {"migrating", "pushing"}
  BY DEF Decides, Inv, TypeOK
<1>4. \A q \in Pages : queue'[q] # Nothing \/ sending'[q] # Nothing => stage'[q] # "plain"
  BY DEF Decides, Inv, TypeOK
<1>5. \A q \in Pages : got'[q] \in Held \cup {Nothing} /\ syncing'[q] \in Held \cup {Nothing, e}
  BY HeldHas DEF Decides, Inv, TypeOK
<1>6. \A q \in Pages : stage'[q] = "dating" => stage[q] = "dating" /\ got'[q] = got[q]
  BY DEF Decides, Inv, TypeOK
<1>7. \A q \in Pages : stage'[q] \in {"migrating", "pushing"} => syncing'[q].t > 0
  BY DEF Decides, Inv, TypeOK, Sendable
<1>8. Sendable' BY <1>7 DEF Decides, Inv, Sendable, gone
<1> QED BY <1>1, <1>2, <1>3, <1>4, <1>5, <1>6, <1>8

LEMMA DecideStep ==
  ASSUME NEW L \in Old, Inv(L), NEW p \in Pages, Take(p) \/ Push(p) \/ Agrees(p)
  PROVE  Inv(L)'
<1> USE DeviceOfAssumption, NothingIsEnvelope
<1>1. Here(p) \in Envelope /\ Here(p) \in Held /\ got[p] \in Envelope /\ got[p] \in Held
  BY HeldHas DEF Inv, TypeOK, Here
<1>2. PICK e \in Envelope : Decides(p, e) /\ e \in Held \cup {Nothing} /\ (e = Nothing \/ e.t > 0)
  BY <1>1 DEF Take, Push, Agrees, Envelope
<1>3. \/ local' = local
      \/ local' = [local EXCEPT ![DeviceOf[p]] = got[p]] /\ got[p].t > 0
  BY <1>1 DEF Take, Push, Agrees, Keep, Envelope
<1>4. clock' = clock /\ clock \in Nat BY DEF Take, Push, Agrees, Inv, TypeOK
<1>5. local' \in [Devices -> Envelope]
      /\ \A d \in Devices : local'[d] = local[d] \/ (local'[d] = got[p] /\ got[p].t > 0)
  BY <1>1, <1>3 DEF Inv, TypeOK
<1>6. TypeOK'
  BY <1>2, <1>4, <1>5, DecidesPage DEF Decides, remote, gone, history, Inv, TypeOK
<1>7. Held' \subseteq Held \cup {Nothing}
  <2>1. \A q \in Pages : got'[q] \in Held \cup {Nothing} /\ syncing'[q] \in Held \cup {Nothing}
    BY <1>2, DecidesPage
  <2>2. \A d \in Devices : local'[d] \in Held \cup {Nothing} BY <1>1, <1>5, HeldHas
  <2> QED BY <1>2, <2>1, <2>2, HeldHas, HeldWithin DEF Decides, remote, gone
<1>8. unstamped' = unstamped /\ guessed' = guessed /\ clock' \in Nat /\ clock' >= clock
  BY <1>2, <1>4 DEF Decides, history
<1>9. Undated(L)'
  <2>1. \A q \in Pages : stage'[q] = "dating" => stage[q] = "dating" /\ got'[q] = got[q]
    BY <1>2, DecidesPage
  <2>2. \A d \in Devices : local'[d].t = 0 => local'[d].v = 0 \/ local'[d].v \in unstamped'
    BY <1>5, <1>8 DEF Inv, Undated
  <2> QED BY <1>2, <1>4, <2>1, <2>2 DEF Decides, remote, Inv, Undated
<1>10. Sendable' BY <1>2, DecidesPage
<1>11. (StampsNameWrites /\ AllFit(L))' BY <1>7, <1>8, NoneNew
<1> QED BY <1>6, <1>9, <1>10, <1>11 DEF Inv

LEMMA StampStep ==
  ASSUME NEW L \in Old, Inv(L), NEW p \in Pages, Stamp(p)
  PROVE  Inv(L)'
<1> USE DeviceOfAssumption, NothingIsEnvelope
<1>0. PICK n : n = [Here(p) EXCEPT !.t = clock'] OBVIOUS
<1>1. clock \in Nat /\ clock' = clock + 1 /\ clock >= 1 BY DEF Stamp, Inv, TypeOK, Undated
<1>2. Here(p) \in Envelope /\ Here(p) = local[DeviceOf[p]] /\ DeviceOf[p] \in Devices
  BY DEF Inv, TypeOK, Here
<1>3. n \in Envelope /\ n.t = clock' /\ n.v = Here(p).v BY <1>0, <1>1, <1>2 DEF Envelope
<1>4. Decides(p, n) /\ local' = [local EXCEPT ![DeviceOf[p]] = n] BY <1>0 DEF Stamp, Keep
<1>5. n.v \in unstamped BY <1>2, <1>3 DEF Stamp, Unstamped, Inv, Undated
<1>6. local' \in [Devices -> Envelope] /\ \A d \in Devices : local'[d] = n \/ local'[d] = local[d]
  BY <1>3, <1>4 DEF Inv, TypeOK
<1>7. unstamped' = unstamped /\ guessed' = guessed BY <1>4 DEF Decides, history
<1>8. clock' \in Nat /\ clock' >= clock /\ n.t > clock /\ n.t > 0 BY <1>1, <1>3
<1>9. TypeOK'
  BY <1>3, <1>4, <1>6, <1>8, DecidesPage DEF Decides, remote, gone, history, Inv, TypeOK
<1>10. Held' \subseteq Held \cup {Nothing, n}
  <2>1. \A q \in Pages : got'[q] \in Held \cup {Nothing} /\ syncing'[q] \in Held \cup {Nothing, n}
    BY <1>3, <1>4, <1>8, DecidesPage
  <2>2. \A d \in Devices : local'[d] \in Held \cup {Nothing, n} BY <1>6, HeldHas
  <2> QED BY <1>4, <2>1, <2>2, HeldHas, HeldWithin DEF Decides, remote, gone
<1>11. Undated(L)'
  <2>1. \A q \in Pages : stage'[q] = "dating" => stage[q] = "dating" /\ got'[q] = got[q]
    BY <1>3, <1>4, <1>8, DecidesPage
  <2>2. \A d \in Devices : local'[d].t = 0 => local'[d].v = 0 \/ local'[d].v \in unstamped'
    BY <1>6, <1>7, <1>8 DEF Inv, Undated
  <2> QED BY <1>1, <1>4, <2>1, <2>2 DEF Decides, remote, Inv, Undated
<1>12. Sendable' BY <1>3, <1>4, <1>8, DecidesPage
<1>13. Fits(L, n)' BY <1>1, <1>3, <1>5, <1>7 DEF Fits, Dated
<1>14. (StampsNameWrites /\ AllFit(L))' BY <1>7, <1>8, <1>10, <1>13, OneNew
<1> QED BY <1>9, <1>11, <1>12, <1>14 DEF Inv

LEMMA SyncSentStep ==
  ASSUME NEW L \in Old, Inv(L), NEW p \in Pages, SyncSent(p)
  PROVE  Inv(L)'
<1> USE NothingIsEnvelope
<1>1. UNCHANGED <<clock, local, oldStamp, queue, sending, got, orphans, clears, unstamped, guessed>>
      /\ clock \in Nat /\ faults' \in Nat
  BY DEF SyncSent, Arrives, Fails, remote, gone, history, Inv, TypeOK
<1>2. grafana' = grafana \/ (grafana' = syncing[p] /\ syncing[p].t > 0)
  BY DEF SyncSent, Arrives, Fails, remote, Inv, Sendable
<1>3. /\ stage' \in [Pages -> Stages] /\ syncing' \in [Pages -> Envelope] /\ grafana' \in Envelope
      /\ \A q \in Pages : \/ stage'[q] = stage[q] /\ syncing'[q] = syncing[q]
                          \/ stage'[q] \in {"clearing", "read", "synced"} /\ syncing'[q] = Nothing
  BY <1>2 DEF SyncSent, Inv, TypeOK, Stages
<1>4. TypeOK' BY <1>1, <1>3 DEF Inv, TypeOK
<1>5. Held' \subseteq Held \cup {Nothing}
  <2>1. grafana' \in Held \cup {Nothing} BY <1>2, HeldHas
  <2>2. \A q \in Pages : syncing'[q] \in Held \cup {Nothing} BY <1>3, HeldHas
  <2> QED BY <1>1, <2>1, <2>2, HeldHas, HeldWithin
<1>6. Undated(L)' BY <1>1, <1>2, <1>3 DEF Inv, Undated
<1>7. Sendable' BY <1>1, <1>3 DEF Inv, Sendable
<1>8. unstamped' = unstamped /\ guessed' = guessed /\ clock' \in Nat /\ clock' >= clock BY <1>1
<1>9. (StampsNameWrites /\ AllFit(L))' BY <1>5, <1>8, NoneNew
<1> QED BY <1>4, <1>6, <1>7, <1>9 DEF Inv

LEMMA ReloadStep ==
  ASSUME NEW L \in Old, Inv(L), NEW p \in Pages, Reload(p)
  PROVE  Inv(L)'
<1> USE NothingIsEnvelope, BoundsAssumption
<1>1. UNCHANGED <<clock, local, grafana, oldStamp, unstamped, guessed>> /\ clock \in Nat /\ faults' \in Nat
  BY DEF Reload, remote, history, Inv, TypeOK
<1>2. \A e \in orphans' : e \in orphans \/ (e \in {sending[p], syncing[p]} /\ e # Nothing) BY DEF Reload
<1>3. \A q \in Pages :
        \/ /\ stage'[q] = stage[q] /\ queue'[q] = queue[q] /\ sending'[q] = sending[q]
           /\ got'[q] = got[q] /\ syncing'[q] = syncing[q]
        \/ /\ stage'[q] = "plain" /\ queue'[q] = Nothing /\ sending'[q] = Nothing
           /\ got'[q] = Nothing /\ syncing'[q] = Nothing
  BY DEF Reload, Inv, TypeOK
<1>4. TypeOK'
  <2>1. stage' \in [Pages -> Stages] BY DEF Reload, Inv, TypeOK, Stages
  <2>2. queue' \in [Pages -> Envelope] /\ sending' \in [Pages -> Envelope] /\ got' \in [Pages -> Envelope]
        /\ syncing' \in [Pages -> Envelope]
    BY DEF Reload, Inv, TypeOK
  <2>3. orphans' \subseteq Envelope BY <1>2 DEF Inv, TypeOK
  <2>4. clears' \subseteq Pages BY DEF Reload, Inv, TypeOK
  <2>5. \A q \in Pages :
           /\ syncing'[q] # Nothing => stage'[q] \in {"migrating", "pushing"}
           /\ queue'[q] # Nothing \/ sending'[q] # Nothing => stage'[q] # "plain"
    BY <1>3 DEF Inv, TypeOK
  <2> QED BY <1>1, <2>1, <2>2, <2>3, <2>4, <2>5 DEF Inv, TypeOK
<1>5. Held' \subseteq Held \cup {Nothing}
  <2>1. orphans' \subseteq Held \cup {Nothing} BY <1>2, HeldHas
  <2>2. \A q \in Pages : /\ queue'[q] \in Held \cup {Nothing} /\ sending'[q] \in Held \cup {Nothing}
                         /\ got'[q] \in Held \cup {Nothing} /\ syncing'[q] \in Held \cup {Nothing}
    BY <1>3, HeldHas
  <2>3. \A d \in Devices : local'[d] \in Held \cup {Nothing} BY <1>1, HeldHas
  <2>4. grafana' \in Held \cup {Nothing} BY <1>1, HeldHas
  <2> QED BY <2>1, <2>2, <2>3, <2>4, HeldWithin
<1>6. Undated(L)' BY <1>1, <1>3 DEF Inv, Undated
<1>7. Sendable'
  <2>1. \A e \in orphans' : e.t > 0 BY <1>2 DEF Inv, TypeOK, Sendable
  <2> QED BY <1>3, <2>1 DEF Inv, Sendable
<1>8. unstamped' = unstamped /\ guessed' = guessed /\ clock' \in Nat /\ clock' >= clock BY <1>1
<1>9. (StampsNameWrites /\ AllFit(L))' BY <1>5, <1>8, NoneNew
<1> QED BY <1>4, <1>6, <1>7, <1>9 DEF Inv

LEMMA LateStep ==
  ASSUME NEW L \in Old, Inv(L),
         (\E e \in orphans : OrphanEnds(e)) \/ (\E p \in clears : ClearEnds(p)) \/ UNCHANGED vars
  PROVE  Inv(L)'
<1>1. UNCHANGED <<clock, local, page, faults, unstamped, guessed>> /\ clock \in Nat
  BY DEF OrphanEnds, ClearEnds, history, vars, Inv, TypeOK
<1>2. /\ grafana' = grafana \/ (grafana' \in orphans /\ grafana'.t > 0)
      /\ oldStamp' \in {0, 1} /\ orphans' \subseteq orphans /\ clears' \subseteq clears
  BY DEF OrphanEnds, ClearEnds, Arrives, vars, remote, gone, Inv, TypeOK, Sendable
<1>3. TypeOK' BY <1>1, <1>2 DEF page, Inv, TypeOK
<1>4. Held' \subseteq Held \cup {Nothing}
  <2>1. grafana' \in Held /\ orphans' \subseteq Held BY <1>2, HeldHas
  <2> QED BY <1>1, <2>1, HeldHas, HeldWithin DEF page
<1>5. Undated(L)' BY <1>1, <1>2 DEF page, Inv, Undated
<1>6. Sendable' BY <1>1, <1>2 DEF page, Inv, Sendable
<1>7. unstamped' = unstamped /\ guessed' = guessed /\ clock' \in Nat /\ clock' >= clock BY <1>1
<1>8. (StampsNameWrites /\ AllFit(L))' BY <1>4, <1>7, NoneNew
<1> QED BY <1>3, <1>5, <1>6, <1>8 DEF Inv

(* Every step keeps the invariant. *)
LEMMA NextInvariant == IInv /\ [Next]_vars => IInv'
<1> SUFFICES ASSUME NEW L \in Old, Inv(L), [Next]_vars PROVE Inv(L)'
  BY DEF IInv
<1>1. ASSUME NEW p \in Pages, Write(p) PROVE Inv(L)'
  <2>1. clock + 1 \in Nat /\ 0 \in Nat BY DEF Inv, TypeOK
  <2> QED BY <1>1, <2>1, WritePlainStep, WriteHybridStep DEF Write
<1>2. ASSUME NEW p \in Pages, ProcessQueue(p) \/ QueueSent(p) PROVE Inv(L)' BY <1>2, QueueStep
<1>3. ASSUME NEW p \in Pages, Mount(p) \/ ReadGrafana(p) \/ ReadFails(p) \/ ClearSent(p) PROVE Inv(L)'
  BY <1>3, ReadStep
<1>4. ASSUME NEW p \in Pages, ReadDate(p) PROVE Inv(L)' BY <1>4, ReadDateStep
<1>5. ASSUME NEW p \in Pages, Take(p) \/ Push(p) \/ Agrees(p) PROVE Inv(L)' BY <1>5, DecideStep
<1>6. ASSUME NEW p \in Pages, Stamp(p) PROVE Inv(L)' BY <1>6, StampStep
<1>7. ASSUME NEW p \in Pages, SyncSent(p) PROVE Inv(L)' BY <1>7, SyncSentStep
<1>8. ASSUME NEW p \in Pages, Reload(p) PROVE Inv(L)' BY <1>8, ReloadStep
<1> QED BY <1>1, <1>2, <1>3, <1>4, <1>5, <1>6, <1>7, <1>8, LateStep DEF Next, Sync

(* The inductive invariant of the user storage.                               *)
THEOREM Invariance == Spec => []IInv
BY InitInvariant, NextInvariant, PTL DEF Spec

(* Every variable keeps its type, and what a page sends it still waits for.    *)
THEOREM TypeCorrect == Spec => []TypeOK
<1>1. IInv => TypeOK BY DEF IInv, Inv
<1> QED BY <1>1, Invariance, PTL

(* Replicas with one timestamp hold one write (syncFromGrafanaStorage, 558-637). *)
THEOREM StampsNamed == Spec => []StampsNameWrites
<1>1. IInv => StampsNameWrites BY DEF IInv, Inv
<1> QED BY <1>1, Invariance, PTL

-----------------------------------------------------------------------------

(* No step of any page moves a device's timestamp back.                         *)
LEMMA StampsRise ==
  ASSUME IInv, [Next]_vars
  PROVE  \A d \in Devices : local'[d].t >= local[d].t
<1> USE DeviceOfAssumption
<1>0. \A d \in Devices : local[d] \in Envelope /\ local[d].t \in Nat /\ local[d].t <= clock /\ clock \in Nat
  BY HeldHas DEF IInv, Inv, TypeOK, AllFit, Fits
<1>1. ASSUME NEW p \in Pages, NEW e, Keep(p, e), e.t \in Nat, e.t >= Here(p).t
      PROVE  \A d \in Devices : local'[d].t >= local[d].t
  BY <1>0, <1>1 DEF Keep, Here, IInv, Inv, TypeOK
<1>2. ASSUME NEW p \in Pages, Write(p) PROVE \A d \in Devices : local'[d].t >= local[d].t
  <2>1. PICK v : WritePlain(p, v) \/ WriteHybrid(p, v) BY <1>2 DEF Write
  <2>2. CASE WritePlain(p, v)
    <3>1. Here(p) \in Envelope BY <1>0 DEF Here
    <3>2. [Here(p) EXCEPT !.v = v].t = Here(p).t /\ Here(p).t \in Nat BY <3>1 DEF Envelope
    <3>3. Keep(p, [Here(p) EXCEPT !.v = v]) BY <2>2 DEF WritePlain
    <3>4. Here(p).t >= Here(p).t BY <3>2
    <3> HIDE DEF Here, Keep
    <3> QED BY <1>1, <3>2, <3>3, <3>4
  <2>3. CASE WriteHybrid(p, v)
    <3>1. clock' \in Nat /\ clock' >= Here(p).t BY <1>0, <2>3 DEF WriteHybrid, Now, Here
    <3> QED BY <1>1, <2>3, <3>1 DEF WriteHybrid
  <2> QED BY <2>1, <2>2, <2>3
<1>3. ASSUME NEW p \in Pages, Take(p) PROVE \A d \in Devices : local'[d].t >= local[d].t
  <2>1. got[p].t \in Nat /\ got[p].t >= Here(p).t
    BY <1>0, <1>3 DEF Take, IInv, Inv, TypeOK, Envelope, Here
  <2> QED BY <1>1, <1>3, <2>1 DEF Take
<1>4. ASSUME NEW p \in Pages, Stamp(p) PROVE \A d \in Devices : local'[d].t >= local[d].t
  <2>1. clock' \in Nat /\ clock' >= Here(p).t BY <1>0, <1>4 DEF Stamp, Here
  <2>2. [Here(p) EXCEPT !.t = clock'].t = clock' BY <1>0 DEF Here, Envelope
  <2> QED BY <1>1, <1>4, <2>1, <2>2 DEF Stamp
<1>5. ASSUME local' = local PROVE \A d \in Devices : local'[d].t >= local[d].t
  BY <1>0, <1>5
<1> QED
  BY <1>2, <1>3, <1>4, <1>5
  DEF vars, Next, Sync, ProcessQueue, QueueSent, Mount, ReadGrafana, ReadDate, ReadFails, ClearSent,
      Push, Agrees, SyncSent, Reload, OrphanEnds, ClearEnds

(* A device's timestamp is the write it holds, unless that was an early or an undated one. *)
StampsAreWrites ==
  \A d \in Devices : local[d].t \in Nat /\ (Dated(local[d]) => WriteOf(local[d]) = local[d].t)

(* The invariant says as much of every stored record (createUserStorage, 310-321). *)
LEMMA StampIsWrite == IInv => StampsAreWrites
<1> SUFFICES ASSUME NEW L \in Old, Inv(L), NEW d \in Devices
             PROVE  local[d].t \in Nat /\ (Dated(local[d]) => WriteOf(local[d]) = local[d].t)
  BY DEF IInv, StampsAreWrites
<1>1. Fits(L, local[d]) BY HeldHas DEF Inv, AllFit
<1>2. local[d].t = 0 => local[d].v = 0 \/ local[d].v \in unstamped BY DEF Inv, Undated
<1>3. CASE local[d].t = 0 BY <1>2, <1>3 DEF Dated, WriteOf
<1>4. CASE local[d].t # 0 BY <1>1, <1>4 DEF Fits
<1> QED BY <1>1, <1>3, <1>4 DEF Fits

(***************************************************************************)
(* Last write wins: no step of any page moves a device's timestamp back,   *)
(* or replaces a write by an older one, but for early writes and values    *)
(* that a migration found undated (syncFromGrafanaStorage, 558-637).       *)
(***************************************************************************)
THEOREM LastWriteWins == Spec => NeverOlder
<1>1. IInv /\ IInv' /\ StampsAreWrites /\ StampsAreWrites' /\ [Next]_vars
        => [\A d \in Devices :
              /\ local'[d].t >= local[d].t
              /\ Dated(local[d])' /\ Dated(local[d]) => WriteOf(local'[d]) >= WriteOf(local[d])]_vars
  <2> SUFFICES ASSUME IInv, IInv', StampsAreWrites, StampsAreWrites', [Next]_vars, NEW d \in Devices
               PROVE  /\ local'[d].t >= local[d].t
                      /\ Dated(local[d])' /\ Dated(local[d]) => WriteOf(local'[d]) >= WriteOf(local[d])
    OBVIOUS
  <2>1. local'[d].t >= local[d].t BY StampsRise
  <2>2. Dated(local[d]) => WriteOf(local[d]) = local[d].t BY DEF StampsAreWrites
  <2>3. Dated(local[d])' => WriteOf(local'[d]) = local'[d].t BY DEF StampsAreWrites, WriteOf
  <2> QED BY <2>1, <2>2, <2>3
<1>2. Spec => []StampsAreWrites BY Invariance, StampIsWrite, PTL
<1> QED BY <1>1, <1>2, Invariance, PTL DEF Spec, NeverOlder
=============================================================================
