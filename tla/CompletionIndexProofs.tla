------------------------- MODULE CompletionIndexProofs -------------------------
(***************************************************************************)
(* The backend's cache of completion records, for any number of requests   *)
(* and of records: its types, the single flight, that neither the cache    *)
(* nor any answer goes back in time, and that it implements RecordReads.   *)
(***************************************************************************)
EXTENDS CompletionIndex, TLAPS

USE DEF NoIndex, Index

(* A LIST is under way exactly for the request that holds the flight.       *)
FlightHeld == \A c \in Callers : pc[c] \in {"listing", "listed"} <=> flight = c

(* The cache is not ahead of the namespace, and no request ahead of the     *)
(* cache; while a flight lasts, the cache is as the flight found it.        *)
NoneAhead ==
  /\ entry <= records
  /\ \A c \in Callers : seen[c] <= entry
  /\ \A c \in Callers : flight = c => seen[c] = entry

(* What a LIST has brought is no older than what is cached meanwhile.       *)
ListIsCurrent(c) ==
  /\ pc[c] = "listing" => outcome[c] = Nothing
                          \/ (outcome[c].err = "none" /\ outcome[c].index \in entry..records)
  /\ pc[c] = "listed" => outcome[c].err # "none" \/ outcome[c].index \in entry..records

(* What a flight hands on satisfies its own request and all that wait for it. *)
FlightServes(c) ==
  pc[c] = "closing" =>
    /\ seen[c] <= outcome[c].index
    /\ \A w \in Callers : pc[w] = "waiting" /\ joined[w] = c => seen[w] <= outcome[c].index

IInv ==
  /\ TypeOK /\ FlightHeld /\ NoneAhead
  /\ \A c \in Callers : ListIsCurrent(c)
  /\ \A c \in Callers : FlightServes(c)
  /\ AnswersAreCurrent

LEMMA OutcomeFacts ==
  /\ Nothing \in Outcome /\ Nothing.err = "none" /\ Nothing.index = NoIndex
  /\ \A i \in Index : Served(i) \in Outcome /\ Served(i).err = "none" /\ Served(i).index = i
  /\ \A o \in Outcome : o.err # "cancelled" /\ o.index \in Index
  /\ \A o \in Outcome, i \in Index :
       [o EXCEPT !.index = i] \in Outcome /\ [o EXCEPT !.index = i].index = i
BY FailingAssumption DEF Nothing, Served, Outcome

LEMMA InitIInv == Init => IInv
<1> SUFFICES ASSUME Init PROVE IInv
  OBVIOUS
<1> USE DEF Init
<1>1. TypeOK
  BY OutcomeFacts, NoCallerAssumption, MaxRecordsAssumption DEF TypeOK
<1>2. FlightHeld /\ NoneAhead
  BY NoCallerAssumption, MaxRecordsAssumption DEF FlightHeld, NoneAhead
<1>3. (\A c \in Callers : ListIsCurrent(c)) /\ (\A c \in Callers : FlightServes(c))
  BY DEF ListIsCurrent, FlightServes
<1>4. AnswersAreCurrent
  BY OutcomeFacts DEF AnswersAreCurrent
<1>5. QED
  BY <1>1, <1>2, <1>3, <1>4 DEF IInv

(***************************************************************************)
(* One lemma for each part of a request: the invariant survives it.        *)
(***************************************************************************)
LEMMA AskIInv ==
  ASSUME IInv, NEW c \in Callers, NEW forced \in BOOLEAN, Asks(c, forced),
         \/ Hit(c, forced) \/ Cool(c, forced) \/ Join(c, forced) \/ Fly(c, forced)
  PROVE  IInv' /\ entry' >= entry
<1> USE DEF IInv
<1>1. pc[c] = "idle" /\ seen' = [seen EXCEPT ![c] = entry] /\ UNCHANGED <<records, entry, expired, failure>>
  BY DEF Asks
<1>2. throttled' \in BOOLEAN /\ entry \in Index /\ records \in 0..MaxRecords
  BY DEF Asks, TypeOK
<1>3. seen' \in [Callers -> Index] /\ (\A d \in Callers : seen'[d] <= entry)
  BY <1>1, <1>2, MaxRecordsAssumption DEF TypeOK, NoneAhead
<1>4. CASE Hit(c, forced) \/ Cool(c, forced)
  <2>1. PICK o \in Outcome : Told(c, o) /\ (o.index >= entry)
    <3>1. CASE entry = NoIndex
      BY <3>1, <1>2, <1>4, OutcomeFacts, MaxRecordsAssumption DEF Hit, IsHit, Cool, TypeOK
    <3>2. CASE entry # NoIndex
      BY <3>2, <1>2, <1>4, OutcomeFacts, MaxRecordsAssumption DEF Hit, Cool
    <3>3. QED
      BY <3>1, <3>2
  <2>2. UNCHANGED <<flight, pc, joined, outcome>> /\ answer' = [answer EXCEPT ![c] = o]
    BY <2>1 DEF Told
  <2>3. TypeOK'
    BY <1>1, <1>2, <1>3, <2>2 DEF TypeOK
  <2>4. FlightHeld' /\ NoneAhead'
    BY <1>1, <1>3, <2>2 DEF FlightHeld, NoneAhead
  <2>5. ASSUME NEW d \in Callers PROVE ListIsCurrent(d)' /\ FlightServes(d)'
    BY <1>1, <2>2 DEF ListIsCurrent, FlightServes, TypeOK
  <2>6. AnswersAreCurrent'
    BY <1>1, <1>2, <2>1, <2>2 DEF AnswersAreCurrent, TypeOK
  <2>7. QED
    BY <1>1, <1>2, <2>3, <2>4, <2>5, <2>6, MaxRecordsAssumption
<1>5. CASE Join(c, forced) \/ Fly(c, forced)
  <2>1. answer' = [answer EXCEPT ![c] = Nothing]
    BY <1>5 DEF Join, Fly, BeginFlight
  <2>2. CASE Join(c, forced)
    <3>1. /\ pc' = [pc EXCEPT ![c] = "waiting"] /\ joined' = [joined EXCEPT ![c] = flight]
          /\ UNCHANGED <<flight, outcome>> /\ flight \in Callers
      BY <2>2 DEF Join, TypeOK
    <3>2. TypeOK'
      BY <1>1, <1>2, <1>3, <2>1, <3>1, OutcomeFacts DEF TypeOK
    <3>3. FlightHeld' /\ NoneAhead'
      BY <1>1, <1>3, <3>1 DEF FlightHeld, NoneAhead, TypeOK
    <3>4. ASSUME NEW d \in Callers PROVE ListIsCurrent(d)'
      BY <1>1, <3>1 DEF ListIsCurrent, TypeOK
    <3>5. ASSUME NEW d \in Callers PROVE FlightServes(d)'
      BY <1>1, <3>1 DEF FlightServes, FlightHeld, TypeOK
    <3>6. AnswersAreCurrent'
      BY <1>1, <2>1, <3>1 DEF AnswersAreCurrent, TypeOK
    <3>7. QED
      BY <1>1, <1>2, <3>2, <3>3, <3>4, <3>5, <3>6, MaxRecordsAssumption
  <2>3. CASE Fly(c, forced)
    <3>1. /\ pc' = [pc EXCEPT ![c] = "listing"] /\ outcome' = [outcome EXCEPT ![c] = Nothing]
          /\ UNCHANGED joined /\ flight = NoCaller /\ flight' = c
      BY <2>3 DEF Fly, BeginFlight
    <3>2. TypeOK'
      BY <1>1, <1>2, <1>3, <2>1, <3>1, OutcomeFacts DEF TypeOK
    <3>3. FlightHeld' /\ NoneAhead'
      BY <1>1, <1>3, <3>1, NoCallerAssumption DEF FlightHeld, NoneAhead, TypeOK
    <3>4. ASSUME NEW d \in Callers PROVE ListIsCurrent(d)'
      BY <1>1, <3>1, NoCallerAssumption DEF ListIsCurrent, TypeOK
    <3>5. ASSUME NEW d \in Callers PROVE FlightServes(d)'
      BY <1>1, <3>1 DEF FlightServes, TypeOK
    <3>6. AnswersAreCurrent'
      BY <1>1, <2>1, <3>1 DEF AnswersAreCurrent, TypeOK
    <3>7. QED
      BY <1>1, <1>2, <3>2, <3>3, <3>4, <3>5, <3>6, MaxRecordsAssumption
  <2>4. QED
    BY <1>5, <2>2, <2>3
<1>7. QED
  BY <1>4, <1>5

(* The LIST only touches what its own request has brought.                  *)
LEMMA ListIInv ==
  ASSUME IInv, NEW c \in Callers,
         ReadFirstPage(c) \/ List(c) \/ (\E err \in Failing : FailList(c, err))
  PROVE  IInv' /\ entry' >= entry
<1> USE DEF IInv
<1>1. UNCHANGED <<records, cache, joined, seen, answer>> /\ pc[c] = "listing"
  BY DEF ReadFirstPage, List, FailList, EndList
<1>2. PICK o \in Outcome, to \in {"listing", "listed"} :
        /\ pc' = [pc EXCEPT ![c] = to] /\ outcome' = [outcome EXCEPT ![c] = o]
        /\ to = "listing" => (o.err = "none" /\ o.index \in entry..records)
        /\ to = "listed" => (o.err # "none" \/ o.index \in entry..records)
  <2>1. CASE ReadFirstPage(c)
    <3>1. Served(records) \in Outcome /\ Served(records).err = "none" /\ Served(records).index = records
      BY OutcomeFacts, MaxRecordsAssumption DEF TypeOK
    <3>2. records \in entry..records /\ pc' = [pc EXCEPT ![c] = "listing"]
      BY <2>1, MaxRecordsAssumption DEF ReadFirstPage, NoneAhead, TypeOK
    <3>3. outcome' = [outcome EXCEPT ![c] = Served(records)]
      BY <2>1 DEF ReadFirstPage
    <3>4. QED
      BY <3>1, <3>2, <3>3
  <2>2. CASE List(c)
    BY <2>2, <1>1 DEF List, EndList, ListIsCurrent, TypeOK
  <2>3. CASE \E err \in Failing : FailList(c, err)
    <3>1. PICK err \in Failing : FailList(c, err)
      BY <2>3
    <3>2. [index |-> NoIndex, err |-> err] \in Outcome /\ err # "none"
      BY FailingAssumption DEF Outcome
    <3>3. QED
      BY <3>1, <3>2 DEF FailList, EndList
  <2>4. QED
    BY <2>1, <2>2, <2>3
<1>3. TypeOK'
  BY <1>1, <1>2 DEF TypeOK, cache
<1>4. FlightHeld' /\ NoneAhead'
  BY <1>1, <1>2 DEF FlightHeld, NoneAhead, TypeOK, cache
<1>5. ASSUME NEW d \in Callers PROVE ListIsCurrent(d)' /\ FlightServes(d)'
  BY <1>1, <1>2 DEF ListIsCurrent, FlightServes, TypeOK, cache
<1>6. AnswersAreCurrent'
  BY <1>1, <1>2 DEF AnswersAreCurrent, TypeOK, cache
<1>7. QED
  BY <1>1, <1>3, <1>4, <1>5, <1>6, MaxRecordsAssumption DEF TypeOK, cache

(* What ends a flight: it brought an index no older than the cached one, or  *)
(* hands on the one that was cached when it began, which still is.           *)
LEMMA PublishIInv ==
  ASSUME IInv, NEW c \in Callers, Publish(c) \/ PublishFailure(c)
  PROVE  IInv' /\ entry' >= entry
<1> USE DEF IInv
<1>1. PICK o \in Outcome : EndFlight(c, o) /\ o.index >= entry' /\ failure' \in Outcome
                           /\ expired' \in BOOLEAN /\ entry' \in entry..records
  <2>1. flight = c /\ pc[c] = "listed" /\ outcome[c] \in Outcome /\ seen[c] = entry /\ entry \in Index
    BY DEF Publish, PublishFailure, FlightHeld, NoneAhead, TypeOK
  <2>2. CASE Publish(c)
    <3>1. outcome[c].err = "none" /\ outcome[c].index \in entry..records
      BY <2>1, <2>2 DEF Publish, ListIsCurrent
    <3>2. EndFlight(c, outcome[c]) /\ entry' = outcome[c].index /\ expired' = FALSE /\ failure' = Nothing
      BY <2>2 DEF Publish
    <3>3. outcome[c].index >= entry'
      BY <2>1, <3>2, OutcomeFacts, MaxRecordsAssumption
    <3>4. QED
      BY <2>1, <3>1, <3>2, <3>3, OutcomeFacts
  <2>3. CASE PublishFailure(c)
    <3>1. [outcome[c] EXCEPT !.index = seen[c]] \in Outcome
          /\ [outcome[c] EXCEPT !.index = seen[c]].index = entry
      BY <2>1, OutcomeFacts
    <3>2. entry \in entry..records /\ failure' \in Outcome
      BY <2>1, <2>3, MaxRecordsAssumption DEF PublishFailure, NoneAhead, TypeOK
    <3>3. EndFlight(c, [outcome[c] EXCEPT !.index = seen[c]]) /\ UNCHANGED <<entry, expired>>
      BY <2>3 DEF PublishFailure
    <3>4. [outcome[c] EXCEPT !.index = seen[c]].index >= entry' /\ entry' \in entry..records
          /\ expired' \in BOOLEAN
      BY <2>1, <3>1, <3>2, <3>3, MaxRecordsAssumption DEF TypeOK
    <3>5. QED
      BY <3>1, <3>2, <3>3, <3>4
  <2>4. QED
    BY <2>2, <2>3
<1>2. /\ flight = c /\ flight' = NoCaller /\ pc' = [pc EXCEPT ![c] = "closing"]
      /\ outcome' = [outcome EXCEPT ![c] = o]
      /\ UNCHANGED <<records, throttled, joined, seen, answer>>
  BY <1>1 DEF EndFlight, Publish, PublishFailure, FlightHeld
<1>3. entry \in Int /\ records \in Int /\ entry' \in Index /\ entry' >= entry /\ entry' <= records
  BY <1>1, MaxRecordsAssumption DEF TypeOK
<1>4. TypeOK'
  BY <1>1, <1>2, <1>3 DEF TypeOK
<1>5. FlightHeld' /\ NoneAhead'
  BY <1>1, <1>2, <1>3, NoCallerAssumption, MaxRecordsAssumption DEF FlightHeld, NoneAhead, TypeOK
<1>6. ASSUME NEW d \in Callers PROVE ListIsCurrent(d)'
  BY <1>2, NoCallerAssumption DEF ListIsCurrent, FlightHeld, TypeOK
<1>7. ASSUME NEW d \in Callers PROVE FlightServes(d)'
  BY <1>1, <1>2, <1>3, MaxRecordsAssumption, OutcomeFacts DEF FlightServes, NoneAhead, TypeOK
<1>8. AnswersAreCurrent'
  BY <1>2 DEF AnswersAreCurrent, TypeOK
<1>9. QED
  BY <1>3, <1>4, <1>5, <1>6, <1>7, <1>8

(* The end of a request: the flight's owner with all that wait, or one alone. *)
LEMMA EndIInv ==
  ASSUME IInv, NEW c \in Callers, Close(c) \/ Leave(c)
  PROVE  IInv' /\ entry' >= entry
<1> USE DEF IInv
<1>1. UNCHANGED <<records, cache, seen>>
  BY DEF Close, Leave
<1>2. CASE Leave(c)
  <2>1. /\ pc[c] = "waiting" /\ pc' = [pc EXCEPT ![c] = "idle"]
        /\ joined' = [joined EXCEPT ![c] = NoCaller] /\ UNCHANGED outcome
        /\ answer' = [answer EXCEPT ![c] = Cancelled(c)]
    BY <1>2 DEF Leave
  <2>2. TypeOK'
    BY <1>1, <2>1 DEF TypeOK, cache
  <2>3. FlightHeld' /\ NoneAhead'
    BY <1>1, <2>1 DEF FlightHeld, NoneAhead, TypeOK, cache
  <2>4. ASSUME NEW d \in Callers PROVE ListIsCurrent(d)' /\ FlightServes(d)'
    BY <1>1, <2>1 DEF ListIsCurrent, FlightServes, TypeOK, cache
  <2>5. AnswersAreCurrent'
    BY <1>1, <2>1 DEF AnswersAreCurrent, TypeOK, cache, Cancelled
  <2>6. QED
    BY <1>1, <2>2, <2>3, <2>4, <2>5, MaxRecordsAssumption DEF TypeOK, cache
<1>3. CASE Close(c)
  <2> DEFINE told == {c} \cup {w \in Callers : pc[w] = "waiting" /\ joined[w] = c}
  <2>1. /\ pc[c] = "closing"
        /\ pc' = [d \in Callers |-> IF d \in told THEN "idle" ELSE pc[d]]
        /\ joined' = [d \in Callers |-> IF d \in told THEN NoCaller ELSE joined[d]]
        /\ answer' = [d \in Callers |-> IF d \in told THEN outcome[c] ELSE answer[d]]
        /\ outcome' = [outcome EXCEPT ![c] = Nothing]
    BY <1>3 DEF Close
  <2>2. \A d \in told : d \in Callers /\ outcome[c].index >= seen[d]
    BY <2>1, MaxRecordsAssumption, OutcomeFacts DEF FlightServes, TypeOK
  <2>3. TypeOK'
    BY <1>1, <2>1, OutcomeFacts DEF TypeOK, cache
  <2>4. FlightHeld' /\ NoneAhead'
    BY <1>1, <2>1 DEF FlightHeld, NoneAhead, TypeOK, cache
  <2>5. ASSUME NEW d \in Callers PROVE ListIsCurrent(d)' /\ FlightServes(d)'
    BY <1>1, <2>1 DEF ListIsCurrent, FlightServes, TypeOK, cache
  <2>6. AnswersAreCurrent'
    BY <1>1, <2>1, <2>2 DEF AnswersAreCurrent, TypeOK, cache
  <2>7. QED
    BY <1>1, <2>3, <2>4, <2>5, <2>6, MaxRecordsAssumption DEF TypeOK, cache
<1>4. QED
  BY <1>2, <1>3

(* Time and new records change no request; only `records` grows.             *)
LEMMA WorldIInv ==
  ASSUME IInv, Age \/ AddRecord
  PROVE  IInv' /\ entry' >= entry
<1> USE DEF IInv
<1>1. UNCHANGED <<entry, flight, requests>> /\ expired' \in BOOLEAN /\ throttled' \in BOOLEAN
      /\ failure' \in Outcome /\ records' \in records..MaxRecords
  <2>1. expired \in BOOLEAN /\ throttled \in BOOLEAN /\ failure \in Outcome /\ records \in 0..MaxRecords
        /\ Nothing \in Outcome
    BY OutcomeFacts DEF TypeOK
  <2>2. CASE Age
    <3>1. UNCHANGED <<records, entry, flight, requests>>
      BY <2>2 DEF Age
    <3>2. expired' \in BOOLEAN /\ throttled' \in BOOLEAN /\ failure' \in Outcome
      BY <2>1, <2>2 DEF Age
    <3>3. records' \in records..MaxRecords
      BY <2>1, <3>1, MaxRecordsAssumption
    <3>4. QED
      BY <3>1, <3>2, <3>3
  <2>3. CASE AddRecord
    <3>1. UNCHANGED <<cache, requests>> /\ records' \in records..MaxRecords
      BY <2>1, <2>3, MaxRecordsAssumption DEF AddRecord
    <3>2. UNCHANGED <<entry, flight, requests, expired, throttled, failure>>
      BY <3>1 DEF cache
    <3>3. QED
      BY <2>1, <3>1, <3>2
  <2>4. QED
    BY <2>2, <2>3
<1>2. records \in Int /\ entry \in Int /\ records' \in 0..MaxRecords
  BY <1>1, MaxRecordsAssumption DEF TypeOK
<1>3. TypeOK' /\ FlightHeld' /\ NoneAhead'
  BY <1>1, <1>2, MaxRecordsAssumption DEF TypeOK, FlightHeld, NoneAhead, requests
<1>4. ASSUME NEW d \in Callers PROVE ListIsCurrent(d)' /\ FlightServes(d)'
  BY <1>1, <1>2, MaxRecordsAssumption DEF ListIsCurrent, FlightServes, requests
<1>5. AnswersAreCurrent'
  BY <1>1 DEF AnswersAreCurrent, requests
<1>6. QED
  BY <1>1, <1>2, <1>3, <1>4, <1>5

LEMMA NextIInv ==
  ASSUME IInv, [Next]_vars
  PROVE  IInv' /\ entry' >= entry
<1>1. ASSUME NEW c \in Callers, Request(c) PROVE IInv' /\ entry' >= entry
  <2>1. ASSUME NEW forced \in BOOLEAN,
               Hit(c, forced) \/ Cool(c, forced) \/ Join(c, forced) \/ Fly(c, forced)
        PROVE  IInv' /\ entry' >= entry
    BY <2>1, AskIInv DEF Hit, Cool, Join, Fly
  <2>2. QED
    BY <1>1, <2>1, ListIInv, PublishIInv, EndIInv DEF Request
<1>2. CASE UNCHANGED vars
  <2>1. entry' = entry /\ entry \in Int
    BY <1>2, MaxRecordsAssumption DEF vars, cache, IInv, TypeOK
  <2>2. IInv'
    BY <1>2 DEF vars, cache, requests, IInv, TypeOK, FlightHeld, NoneAhead, ListIsCurrent, FlightServes,
                AnswersAreCurrent
  <2>3. QED
    BY <2>1, <2>2
<1>3. QED
  BY <1>1, <1>2, WorldIInv DEF Next

-----------------------------------------------------------------------------

(* Every state of the cache and its requests satisfies the invariant.        *)
THEOREM Invariance == Spec => []IInv
BY InitIInv, NextIInv, PTL DEF Spec

(* Every variable of the cache keeps its type.                               *)
THEOREM TypeCorrect == Spec => []TypeOK
BY Invariance, PTL DEF IInv

(* getCompletionIndex never runs two LISTs of one namespace at a time.       *)
THEOREM SingleFlight == Spec => []OneRefresh
<1>1. IInv => OneRefresh
  BY DEF IInv, FlightHeld, OneRefresh
<1>2. QED
  BY <1>1, Invariance, PTL

(* No answer is older than what was cached when the request came in.         *)
THEOREM AnswersCurrent == Spec => []AnswersAreCurrent
BY Invariance, PTL DEF IInv

(* The cached index is never replaced by an older one, nor dropped.          *)
THEOREM NeverRegresses == Spec => EntryNeverRegresses
<1>1. IInv /\ [Next]_vars => [entry' >= entry]_vars
  BY NextIInv
<1>2. QED
  BY <1>1, Invariance, PTL DEF Spec, EntryNeverRegresses

(***************************************************************************)
(* The refinement: what those who ask are promised (RecordReads).          *)
(***************************************************************************)
(* What a LIST brings is an index or a failure, never both.                 *)
Clean(o) == (o.err = "none" => o.index # NoIndex) /\ (o.err # "none" => o.index = NoIndex)

(* The failure that everybody is told of is the namespace's.                *)
FailureIsShared == failure # Nothing => NamespaceGlobal(failure.err) /\ Clean(failure)

(* What is handed on is not ahead of the cache, and never nothing.          *)
HandsOn(c) ==
  /\ pc[c] \in {"listing", "listed"} => outcome[c] = Nothing \/ Clean(outcome[c])
  /\ pc[c] = "listed" => outcome[c] # Nothing
  /\ pc[c] = "closing" => /\ outcome[c].index <= entry
                          /\ outcome[c].index # NoIndex \/ outcome[c].err # "none"

Honest == FailureIsShared /\ \A c \in Callers : HandsOn(c)

Asking == {c \in Callers : pc[c] # "idle"}
ReadVars == <<records, entry, Asking, seen, answer>>
ReadStep == [Reads!Next]_ReadVars

(* Outcomes are answers. *)
LEMMA RecordFacts ==
  /\ Nothing = Reads!Answer(NoIndex, "none")
  /\ \A i \in Index : Served(i) = Reads!Answer(i, "none") /\ (Clean(Served(i)) <=> i # NoIndex)
  /\ \A o \in Outcome : o = Reads!Answer(o.index, o.err) /\ o.err \in Failing \cup {"none"}
  /\ \A c \in Callers : Cancelled(c) = Reads!Answer(NoIndex, "cancelled")
BY FailingAssumption DEF Nothing, Served, Clean, Reads!Answer, Outcome, Cancelled

(* An ask that the cache answers, or that has to wait.                      *)
LEMMA AskReads ==
  ASSUME IInv, Honest, NEW c \in Callers, NEW forced \in BOOLEAN,
         \/ Hit(c, forced) \/ Cool(c, forced) \/ Join(c, forced) \/ Fly(c, forced)
  PROVE  Honest' /\ ReadStep
<1>1. /\ c \notin Asking /\ seen' = [seen EXCEPT ![c] = entry]
      /\ UNCHANGED <<records, entry, failure>>
  BY DEF Hit, Cool, Join, Fly, Asks, Asking
<1>2. CASE Hit(c, forced) \/ Cool(c, forced)
  <2>1. UNCHANGED <<flight, pc, joined, outcome, Asking>>
    BY <1>2 DEF Hit, Cool, Told, Asking
  <2>2. Honest'
    BY <1>1, <2>1 DEF Honest, FailureIsShared, HandsOn
  <2>3. CASE entry # NoIndex
    <3>1. answer' = [answer EXCEPT ![c] = Reads!Answer(entry, "none")]
      BY <1>2, <2>3, RecordFacts DEF Hit, Cool, Told, IInv, TypeOK
    <3>. QED
      BY <1>1, <2>1, <2>2, <2>3, <3>1
         DEF ReadStep, Reads!Next, Reads!AnswerNow, Reads!Asks, Asking, Reads!None
  <2>4. CASE entry = NoIndex
    <3>1. answer' = [answer EXCEPT ![c] = failure] /\ failure # Nothing
      BY <1>2, <2>4 DEF Hit, IsHit, Cool, IsCooling, Told
    <3>2. NamespaceGlobal(failure.err) /\ failure = Reads!Answer(NoIndex, failure.err)
          /\ failure.err \in Failing
      BY <3>1, RecordFacts, FailingAssumption
         DEF Honest, FailureIsShared, Clean, IInv, TypeOK, NamespaceGlobal
    <3>. QED
      BY <1>1, <2>1, <2>2, <2>4, <3>1, <3>2
         DEF ReadStep, Reads!Next, Reads!AnswerNow, Reads!Asks, Asking, Reads!None
  <2>. QED
    BY <2>3, <2>4
<1>3. CASE Join(c, forced) \/ Fly(c, forced)
  <2>1. PICK to \in {"waiting", "listing"} : pc' = [pc EXCEPT ![c] = to]
    BY <1>3 DEF Join, Fly, BeginFlight
  <2>2. /\ answer' = [answer EXCEPT ![c] = Reads!Answer(NoIndex, "none")]
        /\ \/ UNCHANGED outcome /\ to = "waiting"
           \/ outcome' = [outcome EXCEPT ![c] = Nothing] /\ to = "listing"
    BY <1>3, <2>1, RecordFacts DEF Join, Fly, BeginFlight, IInv, TypeOK
  <2>3. Asking' = Asking \cup {c}
    BY <2>1 DEF Asking, IInv, TypeOK
  <2>4. Honest'
    BY <1>1, <2>1, <2>2 DEF Honest, FailureIsShared, HandsOn, IInv, TypeOK
  <2>. QED
    BY <1>1, <2>2, <2>3, <2>4
       DEF ReadStep, Reads!Next, Reads!Wait, Reads!Asks, Asking, Reads!None
<1>. QED
  BY <1>2, <1>3

(* A LIST tells nobody anything.                                            *)
LEMMA ListReads ==
  ASSUME IInv, Honest, NEW c \in Callers,
         ReadFirstPage(c) \/ List(c) \/ (\E err \in Failing : FailList(c, err))
  PROVE  Honest' /\ ReadStep
<1>1. UNCHANGED <<records, cache, joined, seen, answer>> /\ pc[c] = "listing"
  BY DEF ReadFirstPage, List, FailList, EndList
<1>2. PICK o \in Outcome, to \in {"listing", "listed"} :
        /\ pc' = [pc EXCEPT ![c] = to] /\ outcome' = [outcome EXCEPT ![c] = o]
        /\ Clean(o) /\ (to = "listed" => o # Nothing)
  <2>1. CASE ReadFirstPage(c)
    <3>1. records \in Index /\ records # NoIndex
      BY MaxRecordsAssumption DEF IInv, TypeOK
    <3>2. Clean(Served(records)) /\ Served(records) \in Outcome
      BY <3>1, RecordFacts, OutcomeFacts
    <3>3. pc' = [pc EXCEPT ![c] = "listing"] /\ outcome' = [outcome EXCEPT ![c] = Served(records)]
      BY <1>1, <2>1 DEF ReadFirstPage, IInv, TypeOK
    <3>. QED
      BY <3>2, <3>3
  <2>2. CASE List(c)
    BY <2>2, <1>1 DEF List, EndList, Honest, HandsOn, IInv, TypeOK
  <2>3. CASE \E err \in Failing : FailList(c, err)
    <3>1. PICK err \in Failing : FailList(c, err)
      BY <2>3
    <3>2. LET o == [index |-> NoIndex, err |-> err]
          IN  o \in Outcome /\ Clean(o) /\ o # Nothing
      BY FailingAssumption DEF Clean, Nothing, Outcome
    <3>. QED
      BY <3>1, <3>2 DEF FailList, EndList
  <2>. QED
    BY <2>1, <2>2, <2>3
<1>3. Honest'
  BY <1>1, <1>2 DEF Honest, FailureIsShared, HandsOn, IInv, TypeOK, cache
<1>4. UNCHANGED ReadVars
  BY <1>1, <1>2 DEF ReadVars, Asking, IInv, TypeOK, cache
<1>. QED
  BY <1>3, <1>4 DEF ReadStep

(* Publishing tells the cache only.                                         *)
LEMMA PublishReads ==
  ASSUME IInv, Honest, IInv', NEW c \in Callers, Publish(c) \/ PublishFailure(c)
  PROVE  Honest' /\ ReadStep
<1>1. /\ pc[c] = "listed" /\ flight = c /\ seen[c] = entry
      /\ outcome[c] \in Outcome /\ Clean(outcome[c])
      /\ pc' = [pc EXCEPT ![c] = "closing"]
      /\ UNCHANGED <<records, seen, answer>>
  BY DEF Publish, PublishFailure, EndFlight, Honest, HandsOn, IInv, FlightHeld, NoneAhead, TypeOK
<1>2. Asking' = Asking
  BY <1>1 DEF Asking, IInv, TypeOK
<1>3. entry' \in 0..records \/ entry' = entry
  <2>1. CASE Publish(c)
    <3>1. entry' = outcome[c].index /\ outcome[c].index # NoIndex /\ outcome[c].index \in entry..records
      BY <1>1, <2>1 DEF Publish, Clean, IInv, ListIsCurrent
    <3>. QED
      BY <3>1, MaxRecordsAssumption DEF IInv, TypeOK
  <2>. QED
    BY <2>1 DEF PublishFailure
<1>4. entry' >= entry
  BY PublishIInv
<1>5. FailureIsShared'
  <2>1. CASE Publish(c)
    BY <2>1 DEF Publish, FailureIsShared
  <2>2. CASE PublishFailure(c)
    BY <1>1, <2>2 DEF PublishFailure, FailureIsShared, Honest
  <2>. QED
    BY <2>1, <2>2
<1>6. PICK o \in Outcome : /\ outcome' = [outcome EXCEPT ![c] = o]
                           /\ o.index <= entry' /\ (o.index # NoIndex \/ o.err # "none")
  <2>1. CASE Publish(c)
    <3>1. outcome[c].index <= outcome[c].index /\ outcome[c].index # NoIndex
      BY <1>1, <2>1, MaxRecordsAssumption DEF Publish, Clean, Outcome
    <3>. QED
      BY <1>1, <2>1, <3>1 DEF Publish, EndFlight
  <2>2. CASE PublishFailure(c)
    <3>1. /\ [outcome[c] EXCEPT !.index = seen[c]] \in Outcome
          /\ [outcome[c] EXCEPT !.index = seen[c]].index = entry
          /\ [outcome[c] EXCEPT !.index = seen[c]].err = outcome[c].err
      BY <1>1 DEF Outcome, IInv, TypeOK
    <3>2. entry <= entry /\ entry' = entry
      BY <2>2, MaxRecordsAssumption DEF PublishFailure, IInv, TypeOK
    <3>. QED
      BY <1>1, <2>2, <3>1, <3>2 DEF PublishFailure, EndFlight
  <2>. QED
    BY <2>1, <2>2
<1>7. \A d \in Callers : HandsOn(d)'
  <2>. SUFFICES ASSUME NEW d \in Callers PROVE HandsOn(d)'
    OBVIOUS
  <2>1. CASE d = c
    BY <1>1, <1>6, <2>1 DEF HandsOn, IInv, TypeOK
  <2>2. CASE d # c
    <3>1. outcome[d].index \in Int /\ entry \in Int /\ entry' \in Int
      BY MaxRecordsAssumption DEF IInv, TypeOK, Outcome
    <3>2. pc'[d] = pc[d] /\ outcome'[d] = outcome[d] /\ HandsOn(d)
      BY <1>1, <1>6, <2>2 DEF Honest, IInv, TypeOK
    <3>. QED
      BY <1>4, <3>1, <3>2 DEF HandsOn
  <2>. QED
    BY <2>1, <2>2
<1>8. ReadStep
  <2>1. CASE entry' = entry
    BY <1>1, <1>2, <2>1 DEF ReadStep, ReadVars
  <2>2. CASE entry' \in 0..records
    <3>1. entry' \in 0..MaxRecords /\ entry <= entry' /\ entry' <= records
      BY <1>4, <2>2, MaxRecordsAssumption DEF IInv, TypeOK
    <3>. QED
      BY <1>1, <1>2, <3>1 DEF ReadStep, Reads!Next, Reads!Learn, Asking
  <2>. QED
    BY <1>3, <2>1, <2>2
<1>. QED
  BY <1>5, <1>7, <1>8 DEF Honest

(* The end of a wait: one answer for the flight's owner and all that joined. *)
LEMMA EndReads ==
  ASSUME IInv, Honest, NEW c \in Callers, Close(c) \/ Leave(c)
  PROVE  Honest' /\ ReadStep
<1>1. UNCHANGED <<records, cache, seen>>
  BY DEF Close, Leave
<1>2. CASE Leave(c)
  <2>1. /\ pc[c] = "waiting" /\ pc' = [pc EXCEPT ![c] = "idle"] /\ UNCHANGED outcome
        /\ answer' = [answer EXCEPT ![c] = Reads!Answer(NoIndex, "cancelled")]
    BY <1>2, RecordFacts DEF Leave
  <2>2. Asking' = Asking \ {c} /\ {c} \subseteq Asking
    BY <2>1 DEF Asking, IInv, TypeOK
  <2>3. answer' = [d \in Callers |-> IF d \in {c} THEN Reads!Answer(NoIndex, "cancelled") ELSE answer[d]]
    BY <2>1 DEF IInv, TypeOK
  <2>4. Honest'
    BY <1>1, <2>1 DEF Honest, FailureIsShared, HandsOn, IInv, TypeOK, cache
  <2>5. Reads!Cancel(c)
    BY <1>1, <2>2, <2>3 DEF Reads!Cancel, Reads!Tell, Reads!None, Asking, cache
  <2>. QED
    BY <2>4, <2>5 DEF ReadStep, Reads!Next
<1>3. CASE Close(c)
  <2>. DEFINE callers == {c} \cup {w \in Callers : pc[w] = "waiting" /\ joined[w] = c}
              index == outcome[c].index
              err == outcome[c].err
              answered == Reads!Answer(index, err)
  <2>1. /\ pc[c] = "closing"
        /\ pc' = [d \in Callers |-> IF d \in callers THEN "idle" ELSE pc[d]]
        /\ answer' = [d \in Callers |-> IF d \in callers THEN outcome[c] ELSE answer[d]]
        /\ outcome' = [outcome EXCEPT ![c] = Nothing]
    BY <1>3 DEF Close
  <2>2. callers \in SUBSET Callers /\ callers \subseteq Asking /\ Asking' = Asking \ callers
    BY <2>1 DEF Asking
  <2>3. /\ outcome[c] = answered /\ index \in Index /\ err \in Failing \cup {"none"}
        /\ index <= entry /\ (index # NoIndex \/ err # "none")
    BY <2>1, RecordFacts, OutcomeFacts DEF IInv, TypeOK, Honest, HandsOn
  <2>4. \A d \in callers : seen[d] <= index
    BY <2>1 DEF IInv, FlightServes
  <2>5. Honest'
    BY <1>1, <2>1 DEF Honest, FailureIsShared, HandsOn, IInv, TypeOK, cache
  <2>. HIDE DEF callers, index, err, answered
  <2>6. answer' = [d \in Callers |-> IF d \in callers THEN answered ELSE answer[d]]
    BY <2>1, <2>3
  <2>7. Reads!Reply(callers, index, err)
    BY <1>1, <2>2, <2>3, <2>4, <2>6 DEF answered, Reads!Reply, Reads!Tell, Reads!None, Asking, cache
  <2>8. index \in {Reads!None} \cup 0..MaxRecords
    BY <2>3 DEF Reads!None
  <2>9. \E cs \in SUBSET Callers, i \in {Reads!None} \cup 0..MaxRecords,
              e \in Failing \cup {"none"} : Reads!Reply(cs, i, e)
    BY <2>2, <2>3, <2>7, <2>8 DEF Reads!Reply, Reads!Tell
  <2>10. Reads!Next
    BY <2>9 DEF Reads!Next
  <2>. QED
    BY <2>5, <2>10 DEF ReadStep
<1>. QED
  BY <1>2, <1>3

(* Time tells nobody anything.                                              *)
LEMMA WorldReads ==
  ASSUME IInv, Honest, Age \/ AddRecord
  PROVE  Honest' /\ ReadStep
<1>1. UNCHANGED <<entry, requests>> /\ (failure' = failure \/ failure' = Nothing)
  BY DEF Age, AddRecord, cache
<1>2. Honest'
  BY <1>1 DEF Honest, FailureIsShared, HandsOn, requests
<1>3. CASE Age
  BY <1>1, <1>2, <1>3 DEF Age, ReadStep, ReadVars, Asking, requests
<1>4. CASE AddRecord
  BY <1>1, <1>2, <1>4 DEF AddRecord, ReadStep, Reads!Next, Reads!AddRecord, Asking, requests
<1>. QED
  BY <1>3, <1>4

(* Every step of the cache is a step of its promise, or a stutter.          *)
LEMMA NextReads ==
  ASSUME IInv, Honest, [Next]_vars
  PROVE  Honest' /\ ReadStep
<1>1. IInv'
  BY NextIInv
<1>2. ASSUME NEW c \in Callers, Request(c) PROVE Honest' /\ ReadStep
  <2>1. ASSUME NEW forced \in BOOLEAN,
               Hit(c, forced) \/ Cool(c, forced) \/ Join(c, forced) \/ Fly(c, forced)
        PROVE  Honest' /\ ReadStep
    BY <2>1, AskReads
  <2>. QED
    BY <1>1, <1>2, <2>1, ListReads, PublishReads, EndReads DEF Request
<1>3. CASE UNCHANGED vars
  BY <1>3 DEF vars, cache, requests, Honest, FailureIsShared, HandsOn, ReadStep, ReadVars, Asking
<1>. QED
  BY <1>2, <1>3, WorldReads DEF Next

(* Refinement: getCompletionIndex keeps its promise to those who ask, for   *)
(* any requests and failures.  No answer is older than what was cached when *)
(* it was asked for, and the failure of one request's identity is told only *)
(* to those who were waiting then, never to who asks later.                 *)
THEOREM ReadPromiseKept == Spec => KeepsReadPromise
<1>1. Init => Honest /\ Reads!Init
  <2>. SUFFICES ASSUME Init PROVE Honest /\ Reads!Init
    OBVIOUS
  <2>1. Honest
    BY DEF Init, Honest, FailureIsShared, HandsOn
  <2>. QED
    BY <2>1, RecordFacts DEF Init, Reads!Init, Reads!None
<1>2. IInv /\ Honest /\ [Next]_vars => Honest' /\ [Reads!Next]_ReadVars
  BY NextReads DEF ReadStep
<1>3. Reads!reads = ReadVars
  BY DEF Reads!reads, ReadVars, Asking
<1>. QED
  BY <1>1, <1>2, <1>3, Invariance, PTL
     DEF Spec, KeepsReadPromise, Reads!Spec, Reads!reads, ReadVars, Asking
=============================================================================
