---------------------------- MODULE CompletionIndex ----------------------------
(***************************************************************************)
(* The cache of collated completion records that the plugin's backend      *)
(* keeps for a namespace (pkg/plugin/completion_records.go), and the HTTP  *)
(* requests that read it at the same time.                                 *)
(*                                                                         *)
(* getCompletionIndex holds a mutex twice: to decide what to do and, after *)
(* an upstream LIST that runs unlocked, to publish what it brought; each   *)
(* of the two sections is one action.  The maps of the code are keyed by   *)
(* namespace and share nothing but the mutex: one namespace is modelled.   *)
(*                                                                         *)
(* An index is named by the number of records it covers: the LIST is a     *)
(* snapshot taken when its first page is read, and its continue tokens go  *)
(* on from there.  Records are only ever added.  Ages are what the code    *)
(* compares them with: past the limit or not.                              *)
(***************************************************************************)
EXTENDS Integers, FiniteSets

CONSTANTS
  Callers,       \* requests that may be under way at the same time
  NoCaller,
  Failing,       \* how a LIST may fail
  MaxRecords     \* bound: records of the namespace

ASSUME NoCallerAssumption == NoCaller \notin Callers
ASSUME MaxRecordsAssumption == MaxRecords \in Nat

(***************************************************************************)
(* How a LIST fails: the caller's identity is rejected (401 or 403), its   *)
(* token cannot be minted, the API is down (429, 5xx, network, deadline)   *)
(* or gone (any other 4xx), or its answer cannot be decoded.               *)
(***************************************************************************)
ASSUME FailingAssumption == Failing \subseteq {"denied", "mint", "down", "gone", "garbled"}

VARIABLES
  records,       \* upstream: how many records there are
  entry,         \* completionCacheEntries: the cached index
  expired,       \* it is older than completionCacheTTL
  flight,        \* completionFlights: who runs the refresh in flight
  failure,       \* completionLastFailure, until completionFailureCooldown has passed
  throttled,     \* completionLastForced is less than completionForcedRefreshInterval ago
  pc,            \* where each request is
  joined,        \* the request whose flight it waits for
  seen,          \* its local `entry`: what was cached when it asked
  outcome,       \* what its LIST has brought so far, then fl.index and fl.err of its flight
  answer         \* history: what it was told last, until it waits again

cache == <<entry, expired, flight, failure, throttled>>
requests == <<pc, joined, seen, outcome, answer>>
vars == <<records, cache, requests>>

NoIndex == -1
Index == {NoIndex} \cup 0..MaxRecords

NamespaceGlobal(err) == err \in {"down", "gone"}

(* An index, an error or both.                                              *)
Outcome == [index : Index, err : Failing \cup {"none"}]
Cancelled(c) == [index |-> NoIndex, err |-> "cancelled"]
Nothing == [index |-> NoIndex, err |-> "none"]
Served(index) == [Nothing EXCEPT !.index = index]

TypeOK ==
  /\ records \in 0..MaxRecords
  /\ entry \in Index
  /\ expired \in BOOLEAN /\ throttled \in BOOLEAN
  /\ flight \in Callers \cup {NoCaller}
  /\ failure \in Outcome
  /\ pc \in [Callers -> {"idle", "waiting", "listing", "listed", "closing"}]
  /\ joined \in [Callers -> Callers \cup {NoCaller}]
  /\ seen \in [Callers -> Index]
  /\ outcome \in [Callers -> Outcome]
  /\ answer \in [Callers -> Outcome \cup {Cancelled(c) : c \in Callers}]

Init ==
  /\ records \in 0..MaxRecords
  /\ entry = NoIndex /\ expired = FALSE /\ flight = NoCaller
  /\ failure = Nothing /\ throttled = FALSE
  /\ pc = [c \in Callers |-> "idle"]
  /\ joined = [c \in Callers |-> NoCaller]
  /\ seen = [c \in Callers |-> NoIndex]
  /\ outcome = [c \in Callers |-> Nothing]
  /\ answer = [c \in Callers |-> Nothing]

-----------------------------------------------------------------------------
(* The first section: what a request finds decides what it does.             *)

Granted(forced) == forced /\ ~throttled
IsHit(forced) == entry # NoIndex /\ ~expired /\ ~Granted(forced)
IsCooling(forced) == ~IsHit(forced) /\ ~Granted(forced) /\ failure # Nothing
MustRefresh(forced) == ~IsHit(forced) /\ ~IsCooling(forced)

Asks(c, forced) ==
  /\ pc[c] = "idle"
  /\ seen' = [seen EXCEPT ![c] = entry]
  /\ throttled' = (throttled \/ forced)
  /\ UNCHANGED <<records, entry, expired, failure>>

Told(c, o) ==
  /\ answer' = [answer EXCEPT ![c] = o]
  /\ UNCHANGED <<flight, pc, joined, outcome>>

Hit(c, forced) ==
  /\ Asks(c, forced) /\ IsHit(forced)
  /\ Told(c, Served(entry))

(* A global failure is recent: the stale index, or the failure once more.    *)
Cool(c, forced) ==
  /\ Asks(c, forced) /\ IsCooling(forced)
  /\ Told(c, IF entry # NoIndex THEN Served(entry) ELSE failure)

Join(c, forced) ==
  /\ Asks(c, forced) /\ MustRefresh(forced)
  /\ flight # NoCaller
  /\ pc' = [pc EXCEPT ![c] = "waiting"]
  /\ joined' = [joined EXCEPT ![c] = flight]
  /\ answer' = [answer EXCEPT ![c] = Nothing]
  /\ UNCHANGED <<flight, outcome>>

BeginFlight(c) ==
  /\ flight' = c
  /\ pc' = [pc EXCEPT ![c] = "listing"]
  /\ outcome' = [outcome EXCEPT ![c] = Nothing]
  /\ answer' = [answer EXCEPT ![c] = Nothing]
  /\ UNCHANGED joined

(* Mutant: whoever needs a refresh runs one. *)
FlyAlone(c, forced) ==
  /\ Asks(c, forced) /\ MustRefresh(forced)
  /\ BeginFlight(c)

Fly(c, forced) ==
  /\ Asks(c, forced) /\ MustRefresh(forced)
  /\ flight = NoCaller
  /\ BeginFlight(c)

-----------------------------------------------------------------------------
(* The LIST, unlocked and detached from its request (buildCompletionIndex).  *)

ReadFirstPage(c) ==
  /\ pc[c] = "listing" /\ outcome[c] = Nothing
  /\ outcome' = [outcome EXCEPT ![c] = Served(records)]
  /\ UNCHANGED <<records, cache, pc, joined, seen, answer>>

EndList(c, o) ==
  /\ pc[c] = "listing"
  /\ pc' = [pc EXCEPT ![c] = "listed"]
  /\ outcome' = [outcome EXCEPT ![c] = o]
  /\ UNCHANGED <<records, cache, joined, seen, answer>>

List(c) == outcome[c] # Nothing /\ EndList(c, outcome[c])

(* Mutant: the LIST runs in the context of its request, and ends with it.    *)
FailListAttached(c, err) == EndList(c, Cancelled(c))

(* Any page may fail, and completionAggregateDeadline bounds them all.      *)
FailList(c, err) == EndList(c, [index |-> NoIndex, err |-> err])

-----------------------------------------------------------------------------
(* The second section, and close(fl.done) after it.                           *)

EndFlight(c, o) ==
  /\ flight' = NoCaller
  /\ pc' = [pc EXCEPT ![c] = "closing"]
  /\ outcome' = [outcome EXCEPT ![c] = o]
  /\ UNCHANGED <<records, throttled, joined, seen, answer>>

Publish(c) ==
  /\ pc[c] = "listed" /\ outcome[c].err = "none"
  /\ entry' = outcome[c].index /\ expired' = FALSE
  /\ failure' = Nothing
  /\ EndFlight(c, outcome[c])

(* Mutant: the failure is handed on without the index that is still cached. *)
PublishBareFailure(c) ==
  /\ pc[c] = "listed" /\ outcome[c].err # "none"
  /\ failure' = IF NamespaceGlobal(outcome[c].err) THEN outcome[c] ELSE failure
  /\ EndFlight(c, outcome[c])
  /\ UNCHANGED <<entry, expired>>

(* Mutant: a failure that is not shared returns before the flight is deleted. *)
PublishFailureEarly(c) ==
  /\ pc[c] = "listed" /\ outcome[c].err # "none"
  /\ IF NamespaceGlobal(outcome[c].err)
     THEN /\ failure' = outcome[c]
          /\ EndFlight(c, [outcome[c] EXCEPT !.index = seen[c]])
     ELSE /\ pc' = [pc EXCEPT ![c] = "closing"]
          /\ outcome' = [outcome EXCEPT ![c].index = seen[c]]
          /\ UNCHANGED <<records, failure, flight, throttled, joined, seen, answer>>
  /\ UNCHANGED <<entry, expired>>

(* Mutant: whatever failed, the next request is told of it too.             *)
PublishFailureShared(c) ==
  /\ pc[c] = "listed" /\ outcome[c].err # "none"
  /\ failure' = outcome[c]
  /\ EndFlight(c, [outcome[c] EXCEPT !.index = seen[c]])
  /\ UNCHANGED <<entry, expired>>

(* The index cached when the flight began is served beside the failure.       *)
PublishFailure(c) ==
  /\ pc[c] = "listed" /\ outcome[c].err # "none"
  /\ failure' = IF NamespaceGlobal(outcome[c].err) THEN outcome[c] ELSE failure
  /\ EndFlight(c, [outcome[c] EXCEPT !.index = seen[c]])
  /\ UNCHANGED <<entry, expired>>

Close(c) ==
  /\ pc[c] = "closing"
  /\ LET told == {c} \cup {w \in Callers : pc[w] = "waiting" /\ joined[w] = c} IN
     /\ pc' = [d \in Callers |-> IF d \in told THEN "idle" ELSE pc[d]]
     /\ answer' = [d \in Callers |-> IF d \in told THEN outcome[c] ELSE answer[d]]
     /\ joined' = [d \in Callers |-> IF d \in told THEN NoCaller ELSE joined[d]]
  /\ outcome' = [outcome EXCEPT ![c] = Nothing]
  /\ UNCHANGED <<records, cache, seen>>

(* The client of a waiting request goes away; the refresh goes on.             *)
Leave(c) ==
  /\ pc[c] = "waiting"
  /\ pc' = [pc EXCEPT ![c] = "idle"]
  /\ joined' = [joined EXCEPT ![c] = NoCaller]
  /\ answer' = [answer EXCEPT ![c] = Cancelled(c)]
  /\ UNCHANGED <<records, cache, seen, outcome>>

-----------------------------------------------------------------------------
(* Time passes, and records are added.                                        *)

Age ==
  /\ \/ entry # NoIndex /\ ~expired /\ expired' = TRUE /\ UNCHANGED <<failure, throttled>>
     \/ failure # Nothing /\ failure' = Nothing /\ UNCHANGED <<expired, throttled>>
     \/ throttled /\ throttled' = FALSE /\ UNCHANGED <<expired, failure>>
  /\ UNCHANGED <<records, entry, flight, requests>>

AddRecord ==
  /\ records < MaxRecords
  /\ records' = records + 1
  /\ UNCHANGED <<cache, requests>>

Request(c) ==
  \/ \E forced \in BOOLEAN : Hit(c, forced) \/ Cool(c, forced) \/ Join(c, forced) \/ Fly(c, forced)
  \/ ReadFirstPage(c) \/ List(c) \/ (\E err \in Failing : FailList(c, err))
  \/ Publish(c) \/ PublishFailure(c) \/ Close(c) \/ Leave(c)

Next == (\E c \in Callers : Request(c)) \/ Age \/ AddRecord

(* A LIST ends, by its deadline at the latest, and its request goes on.         *)
Fairness ==
  \A c \in Callers :
    /\ WF_vars(List(c) \/ \E err \in Failing : FailList(c, err))
    /\ WF_vars(Publish(c) \/ PublishFailure(c))
    /\ WF_vars(Close(c))

Spec == Init /\ [][Next]_vars
FairSpec == Spec /\ Fairness

-----------------------------------------------------------------------------

(***************************************************************************)
(* "Concurrent refreshes single-flight": however requests arrive, leave    *)
(* and fail, at most one LIST of the namespace is under way, and until the *)
(* cache has its result no other begins.                                   *)
(***************************************************************************)
OneRefresh ==
  \A c, d \in Callers :
    pc[c] \in {"listing", "listed"} /\ pc[d] \in {"listing", "listed"} => c = d

(***************************************************************************)
(* "Warm cache + upstream failure -> serve stale", and never backwards: a  *)
(* request that was not cancelled is told of an index at least as recent   *)
(* as the one cached when it asked, if there was one, whichever way it got *)
(* its answer and whatever was published between its question and its      *)
(* answer.                                                                 *)
(***************************************************************************)
AnswersAreCurrent ==
  \A c \in Callers :
    pc[c] = "idle" /\ answer[c].err # "cancelled" => answer[c].index >= seen[c]

(* "Never overwrite last-good data with an error entry", nor with an index  *)
(* listed before it.                                                        *)
EntryNeverRegresses == [][entry' >= entry]_vars

(* No request waits for ever, be it for its own LIST or for another's.      *)
RequestsAnswered == \A c \in Callers : pc[c] # "idle" ~> pc[c] = "idle"

(***************************************************************************)
(* What the cache is to those who ask.                                     *)
(***************************************************************************)
Reads == INSTANCE RecordReads WITH
           Failures <- Failing, Shared <- {err \in Failing : NamespaceGlobal(err)},
           known <- entry, asking <- {c \in Callers : pc[c] # "idle"},
           asked <- seen, told <- answer

(***************************************************************************)
(* "Caller A's denied token or failed token mint must not become a cached  *)
(* error served to caller B", and the rest of what getCompletionIndex's    *)
(* comment promises its callers (completion_records.go, 198-205).          *)
(***************************************************************************)
KeepsReadPromise == Reads!Spec
=============================================================================
