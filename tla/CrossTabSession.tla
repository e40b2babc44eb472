---------------------------- MODULE CrossTabSession ----------------------------
(***************************************************************************)
(* The two-tab controller: a controller tab that shows a guide             *)
(* (src/global-state/controller-channel.tsx) drives the live Grafana tab   *)
(* that opened it (src/integrations/cross-tab/live-tab-executor.ts) over a *)
(* BroadcastChannel, once the live tab's user has accepted the pairing     *)
(* (PairingManager).                                                       *)
(*                                                                         *)
(* The channel delivers each tab's messages in order.  What the tabs do    *)
(* between two messages is asynchronous: the controller signs a command    *)
(* before it posts it and the live tab verifies the signature before it    *)
(* acts on it, and those WebCrypto calls end in any order.  Signatures,    *)
(* proofs and the replay ledger are abstracted: every message here is      *)
(* genuine and signed once.  Step progress and simple steps, which report  *)
(* nothing back, are left out; check-requirements and fix-requirement      *)
(* differ only in what the answer says and are both requests.              *)
(***************************************************************************)
EXTENDS Naturals, Sequences, FiniteSets, SequencesExt

CONSTANTS
  Me,            \* the controller's session
  Launch,        \* the launch its tab was opened with
  None,          \* no session
  MaxCopies,     \* bound of PairingManager, and of accept proofs under verification
  Runs,          \* runs of composite (multi-step or guided) steps: runId
  Steps,         \* composite steps
  StepOf,        \* the step each run is of
  Requests,      \* requirement checks and fixes: requestId
  MaxWork,       \* bound: runs and requests that are started, and moves of the sidebar
  MaxWire,       \* bound: the controller ticks only while fewer messages are on the wires
  MaxQuiet,      \* bound: losses with which a live tab that is still there falls silent for HEARTBEAT_STALE_MS
  MaxLapse,      \* bound: times SIGNED_MESSAGE_STALE_MS passes with messages on the wire
  MaxGone,       \* bound: losses with which one of the two tabs goes away
  TTLs,          \* bound: FALSE, no TTL of the pairing manager (30 s, 5 minutes) passes
  MaxMoves,      \* bound: times the live tab's user changes what its sidebar shows
  Sidebars       \* what the live tab's sidebar may show at first

ASSUME StepOfAssumption == StepOf \in [Runs -> Steps]
ASSUME BoundsAssumption == {MaxCopies, MaxWire} \subseteq Nat \ {0} /\ {MaxWork, MaxQuiet, MaxLapse, MaxGone, MaxMoves} \subseteq Nat
ASSUME MeAssumption == Me # None
(* The docs are docked, or in a floating panel or on the full-screen page; or the sidebar is    *)
(* closed, or another extension's.                                                              *)
Surfaces == {"docked", "undocked", "closed", "taken"}

ASSUME SidebarsAssumption == Sidebars \subseteq Surfaces /\ TTLs \in BOOLEAN

VARIABLES
  \* The controller tab.
  tab,           \* "none" before it is opened, "open", "leaving" (unmounted, a last signature pending), "closed"
  keyed,         \* privateKeyRef and pairingChallengeRef are set
  paired,        \* pairedLiveIdRef holds the live tab
  lastSeen,      \* lastLiveSeenRef: "never", "fresh", or "stale" (over HEARTBEAT_STALE_MS ago)
  connected,     \* the presence badge
  prepared,      \* preparedHandBackRef: "none", "fresh", or "old" (over SIGNED_MESSAGE_STALE_MS)
  signing,       \* signatures being made: messages to post, and hand-backs to prepare
  proofs,        \* accept proofs being verified
  run,           \* stepCompletionRef and what the step shows
  request,       \* pendingRef and what the requester got
  \* The wires.
  up, down,      \* messages to the live tab, and from it
  \* The live tab.
  live,          \* "up" or "gone" (closed or reloaded: the executor, session and launches are lost)
  gate,          \* signed messages being verified
  queue,         \* runs queued for replay, the head being replayed
  evaluating,    \* requests being evaluated
  sidebar,       \* what is shown: one of the Surfaces
  handedOff,     \* handedOffSidebar
  ran,           \* history: what happened to each run
  quiet, lapses, moves, \* counters of MaxQuiet, MaxLapse and MaxMoves
  \* The live tab's pairing manager.
  launches, pending, fresh, checking, accepted, rejected, announcing, accepts

pairingVars == <<launches, pending, fresh, checking, accepted, rejected, announcing, accepts>>
pairVars == <<keyed, paired, lastSeen, connected>>
cryptoVars == <<prepared, signing, proofs>>
controllerVars == <<tab, pairVars, cryptoVars, run, request>>
liveVars == <<live, gate, queue, evaluating, sidebar, handedOff, ran>>
clockVars == <<quiet, lapses, moves>>
vars == <<controllerVars, up, down, liveVars, clockVars, pairingVars>>

Pairing == INSTANCE PairingManager WITH
             Sessions <- {Me}, Launches <- {Launch}, LaunchOf <- [s \in {Me} |-> Launch]

-----------------------------------------------------------------------------
(* Messages. *)

ControllerBeat == [kind |-> "heartbeat", role |-> "controller"]
LiveBeat == [kind |-> "heartbeat", role |-> "live"]
Challenge == [kind |-> "pairing-challenge"]
PairingAccept(a) == [kind |-> "pairing-accept", accept |-> a]
StepCommand(r) == [kind |-> "step-command", runId |-> r]
StepComplete(r, ok) == [kind |-> "step-complete", runId |-> r, ok |-> ok]
Ask(q) == [kind |-> "request", requestId |-> q]
Answer(q) == [kind |-> "result", requestId |-> q]
Handoff(action) == [kind |-> "sidebar-handoff", action |-> action]

(* SIGNED_MESSAGE_KINDS *)
SignedMessage == {StepCommand(r) : r \in Runs} \cup {Ask(q) : q \in Requests}
                 \cup {Handoff("close"), Handoff("reopen")}

(* A signed message that will be refused when it arrives: it is too old. *)
Lapsed == [kind |-> "lapsed"]

UpMessage == SignedMessage \cup {ControllerBeat, Challenge, Lapsed}
DownMessage == {LiveBeat} \cup {PairingAccept(a) : a \in Pairing!AcceptMessage}
               \cup {StepComplete(r, ok) : r \in Runs, ok \in BOOLEAN} \cup {Answer(q) : q \in Requests}

(***************************************************************************)
(* A hand-back signed ahead of time, so that it can be posted without      *)
(* waiting when the tab goes away; the one made on binding is followed by  *)
(* the message that takes the sidebar over.                                *)
(***************************************************************************)
HandBack == [kind |-> "hand-back", thenClose |-> FALSE]
FirstHandBack == [kind |-> "hand-back", thenClose |-> TRUE]

TypeOK ==
  /\ tab \in {"none", "open", "leaving", "closed"}
  /\ {keyed, paired, connected, handedOff} \subseteq BOOLEAN
  /\ lastSeen \in {"never", "fresh", "stale"}
  /\ prepared \in {"none", "fresh", "old"}
  /\ signing \subseteq SignedMessage \cup {HandBack, FirstHandBack}
  /\ proofs \in 0..MaxCopies
  /\ run \in [Runs -> {"idle", "waiting", "done", "failed", "cancelled"}]
  /\ request \in [Requests -> {"idle", "waiting", "answered", "fallback"}]
  /\ up \in Seq(UpMessage)
  /\ down \in Seq(DownMessage)
  /\ live \in {"up", "gone"}
  /\ gate \subseteq SignedMessage
  /\ queue \in Seq(Runs)
  /\ evaluating \subseteq Requests
  /\ sidebar \in Surfaces
  /\ ran \in [Runs -> {"no", "ok", "failed"}]
  /\ quiet \in 0..MaxQuiet
  /\ lapses \in 0..MaxLapse
  /\ moves \in 0..MaxMoves
  /\ Pairing!TypeOK

Init ==
  /\ tab = "none"
  /\ keyed = FALSE /\ paired = FALSE /\ lastSeen = "never" /\ connected = FALSE
  /\ prepared = "none" /\ signing = {} /\ proofs = 0
  /\ run = [r \in Runs |-> "idle"]
  /\ request = [q \in Requests |-> "idle"]
  /\ up = <<>> /\ down = <<>>
  /\ live = "up" /\ gate = {} /\ queue = <<>> /\ evaluating = {}
  /\ sidebar \in Sidebars /\ handedOff = FALSE
  /\ ran = [r \in Runs |-> "no"]
  /\ quiet = 0 /\ lapses = 0 /\ moves = 0
  /\ Pairing!Init

-----------------------------------------------------------------------------
(* The controller tab. *)

(* What has gone wrong: beats that were lost and tabs that have gone away. *)
Losses == quiet + (IF tab \in {"leaving", "closed"} THEN 1 ELSE 0) + (IF live = "gone" THEN 1 ELSE 0)

(* Messages to a tab that is gone reach nobody. *)
PostUp(messages) == up' = IF live = "up" THEN up \o messages ELSE up

(* signForLive captures the bound tab and the key; unbound, nothing is signed or posted. *)
Sign(tasks) == IF paired THEN signing \cup tasks ELSE signing

(* Mutant: the waiters of composite runs are released as if they had succeeded. *)
FailAllPendingResolves ==
  /\ run' = [r \in Runs |-> IF run[r] = "waiting" THEN "done" ELSE run[r]]
  /\ request' = [q \in Requests |-> IF request[q] = "waiting" THEN "fallback" ELSE request[q]]

(* Mutant: only the requests are released. *)
FailRequestsOnly ==
  /\ request' = [q \in Requests |-> IF request[q] = "waiting" THEN "fallback" ELSE request[q]]
  /\ UNCHANGED run

(* failAllPending: every waiter is released, with a failure. *)
FailAllPending ==
  /\ run' = [r \in Runs |-> IF run[r] = "waiting" THEN "failed" ELSE run[r]]
  /\ request' = [q \in Requests |-> IF request[q] = "waiting" THEN "fallback" ELSE request[q]]

(* The user opens the guide in a controller tab; the launch is minted and the overlay mounts. *)
OpenController ==
  /\ tab = "none"
  /\ live = "up"
  /\ tab' = "open"
  /\ Pairing!MintLaunch(Launch)
  /\ UNCHANGED <<pairVars, cryptoVars, run, request, up, down, liveVars, clockVars>>

(* The key pair and the challenge's proof are ready: the challenge is posted at once. *)
KeysReady ==
  /\ tab = "open"
  /\ ~keyed
  /\ keyed' = TRUE
  /\ PostUp(<<Challenge>>)
  /\ UNCHANGED <<tab, paired, lastSeen, connected, cryptoVars, run, request, down, liveVars,
                 clockVars, pairingVars>>

(* Mutant: a bound controller stops pinging. *)
TickSilentOnceBound ==
  /\ tab = "open"
  /\ Len(up) + Len(down) < MaxWire
  /\ PostUp(IF paired THEN <<>> ELSE IF keyed THEN <<ControllerBeat, Challenge>> ELSE <<ControllerBeat>>)
  /\ signing' = IF prepared = "fresh" THEN signing ELSE Sign({HandBack})
  /\ \/ /\ lastSeen = "stale"
        /\ paired' = FALSE
        /\ connected' = FALSE
        /\ FailAllPending
     \/ /\ lastSeen # "stale"
        /\ UNCHANGED <<paired, connected, run, request>>
  /\ UNCHANGED <<tab, keyed, lastSeen, prepared, proofs, down, liveVars, clockVars, pairingVars>>

(***************************************************************************)
(* The heartbeat: ping the live tab, repeat the challenge while unbound,   *)
(* renew the prepared hand-back while bound (which only shows if it is not *)
(* fresh), and then, if the last beat of the bound tab is too old, unbind  *)
(* it and fail everything that waits.                                      *)
(***************************************************************************)
Tick ==
  /\ tab = "open"
  /\ Len(up) + Len(down) < MaxWire
  /\ PostUp(IF ~paired /\ keyed THEN <<ControllerBeat, Challenge>> ELSE <<ControllerBeat>>)
  /\ signing' = IF prepared = "fresh" THEN signing ELSE Sign({HandBack})
  /\ \/ /\ lastSeen = "stale"
        /\ paired' = FALSE
        /\ connected' = FALSE
        /\ FailAllPending
     \/ /\ lastSeen # "stale"
        /\ UNCHANGED <<paired, connected, run, request>>
  /\ UNCHANGED <<tab, keyed, lastSeen, prepared, proofs, down, liveVars, clockVars, pairingVars>>

(* What the users have done: runs and requests started, and moves of the sidebar. *)
Work == Cardinality({r \in Runs : run[r] # "idle"})
        + Cardinality({q \in Requests : request[q] # "idle"}) + moves

(* A composite step is started: "Do it" is disabled while a run of the step is waiting. *)
StartRun(r) ==
  /\ tab = "open"
  /\ run[r] = "idle"
  /\ Work < MaxWork
  /\ \A other \in Runs : StepOf[other] = StepOf[r] => run[other] # "waiting"
  /\ run' = [run EXCEPT ![r] = "waiting"]
  /\ signing' = Sign({StepCommand(r)})
  /\ UNCHANGED <<tab, pairVars, prepared, proofs, request, up, down, liveVars, clockVars, pairingVars>>

(* The reader cancels a run: cancelStepComplete releases its waiter, the live tab is not told. *)
CancelRun(r) ==
  /\ tab = "open"
  /\ run[r] = "waiting"
  /\ run' = [run EXCEPT ![r] = "cancelled"]
  /\ UNCHANGED <<tab, pairVars, cryptoVars, request, up, down, liveVars, clockVars, pairingVars>>

(* A step asks for its requirements to be checked, or fixed, on the live tab. *)
StartRequest(q) ==
  /\ tab = "open"
  /\ request[q] = "idle"
  /\ Work < MaxWork
  /\ request' = [request EXCEPT ![q] = "waiting"]
  /\ signing' = Sign({Ask(q)})
  /\ UNCHANGED <<tab, pairVars, prepared, proofs, run, up, down, liveVars, clockVars, pairingVars>>

(* REQUEST_TIMEOUT_MS passes: the requester gets its fallback. *)
RequestTimesOut(q) ==
  /\ tab = "open"
  /\ request[q] = "waiting"
  /\ request' = [request EXCEPT ![q] = "fallback"]
  /\ UNCHANGED <<tab, pairVars, cryptoVars, run, up, down, liveVars, clockVars, pairingVars>>

(***************************************************************************)
(* A signature is ready.  A message is posted, whatever the binding is by  *)
(* now; a hand-back is kept, and after the first one the message that      *)
(* takes the sidebar over is signed.  A tab that was only waiting for the  *)
(* hand-back's signature stops its transport.                              *)
(***************************************************************************)
Signed(task) ==
  /\ task \in signing
  /\ \/ /\ task \in SignedMessage
        /\ PostUp(<<task>>)
        /\ tab' = IF tab = "leaving" /\ task = Handoff("reopen") THEN "closed" ELSE tab
        /\ signing' = IF tab' = "closed" THEN {} ELSE signing \ {task}
        /\ UNCHANGED prepared
     \/ /\ task \in {HandBack, FirstHandBack}
        /\ prepared' = "fresh"
        /\ signing' = (signing \ {task})
                      \cup (IF task.thenClose /\ paired THEN {Handoff("close")} ELSE {})
        /\ UNCHANGED <<tab, up>>
  /\ UNCHANGED <<pairVars, proofs, run, request, down, liveVars, clockVars, pairingVars>>

(* The page goes away: pagehide posts the prepared hand-back if its signature is recent enough. *)
CloseTab ==
  /\ tab = "leaving" \/ (tab = "open" /\ Losses < MaxGone)
  /\ tab' = "closed"
  /\ PostUp(IF tab = "open" /\ prepared = "fresh" THEN <<Handoff("reopen")>> ELSE <<>>)
  /\ signing' = {}
  /\ proofs' = 0
  /\ UNCHANGED <<pairVars, prepared, run, request, down, liveVars, clockVars, pairingVars>>

(***************************************************************************)
(* The overlay unmounts: everything that waits fails, and the prepared     *)
(* hand-back is posted or, if there is none and a tab is bound, signed now *)
(* with the transport kept until then.                                     *)
(***************************************************************************)
Unmount ==
  /\ tab = "open"
  /\ Losses < MaxGone
  /\ FailAllPending
  /\ proofs' = 0
  /\ \/ /\ prepared = "fresh" \/ ~paired
        /\ tab' = "closed"
        /\ PostUp(IF prepared = "fresh" THEN <<Handoff("reopen")>> ELSE <<>>)
        /\ signing' = {}
     \/ /\ prepared # "fresh"
        /\ paired
        /\ tab' = "leaving"
        /\ signing' = signing \cup {Handoff("reopen")}
        /\ UNCHANGED up
  /\ UNCHANGED <<pairVars, prepared, down, liveVars, clockVars, pairingVars>>

(* The controller takes the next message off the wire; once closed, its transport drops them. *)
Receive(message) ==
  /\ down # <<>>
  /\ message = Head(down)
  /\ down' = Tail(down)

(* A pairing-accept for this session and launch, while unbound, is verified. *)
ReceiveAccept(a) ==
  /\ Receive(PairingAccept(a))
  /\ \/ /\ tab = "open" /\ ~paired /\ a = [session |-> Me, launch |-> Launch]
        /\ proofs < MaxCopies
        /\ proofs' = proofs + 1
     \/ /\ ~(tab = "open" /\ ~paired /\ a = [session |-> Me, launch |-> Launch])
        /\ UNCHANGED proofs
  /\ UNCHANGED <<tab, pairVars, prepared, signing, run, request, up, liveVars, clockVars, pairingVars>>

(* Mutant: an accept binds without its proof being verified. *)
BindLiveUnverified ==
  /\ tab = "open"
  /\ proofs' = proofs - 1
  /\ \/ /\ ~paired
        /\ paired' = TRUE
        /\ signing' = signing \cup {FirstHandBack}
     \/ /\ paired
        /\ UNCHANGED <<paired, signing>>
  /\ UNCHANGED <<tab, keyed, lastSeen, connected, prepared, run, request, up, down, liveVars,
                 clockVars, pairingVars>>

(* The accept's proof is verified: the live tab is bound, unless one is bound already. *)
BindLive ==
  /\ proofs > 0
  /\ proofs' = proofs - 1
  /\ \/ /\ ~paired
        /\ paired' = TRUE
        /\ signing' = signing \cup {FirstHandBack}
     \/ /\ paired
        /\ UNCHANGED <<paired, signing>>
  /\ UNCHANGED <<tab, keyed, lastSeen, connected, prepared, run, request, up, down, liveVars,
                 clockVars, pairingVars>>

(* Mutant: a beat is enough to bind the tab it comes from. *)
ReceiveBeatBinds ==
  /\ Receive(LiveBeat)
  /\ \/ /\ tab = "open"
        /\ paired' = TRUE
        /\ lastSeen' = "fresh"
        /\ connected' = TRUE
     \/ /\ tab # "open"
        /\ UNCHANGED <<paired, lastSeen, connected>>
  /\ UNCHANGED <<tab, keyed, cryptoVars, run, request, up, liveVars, clockVars, pairingVars>>

(* A beat of the bound tab makes the controller connected. *)
ReceiveBeat ==
  /\ Receive(LiveBeat)
  /\ \/ /\ tab = "open" /\ paired
        /\ lastSeen' = "fresh"
        /\ connected' = TRUE
     \/ /\ ~(tab = "open" /\ paired)
        /\ UNCHANGED <<lastSeen, connected>>
  /\ UNCHANGED <<tab, keyed, paired, cryptoVars, run, request, up, liveVars, clockVars, pairingVars>>

(* A completion of the bound tab settles the waiter of that very run, if there still is one. *)
ReceiveComplete(r, ok) ==
  /\ Receive(StepComplete(r, ok))
  /\ run' = IF tab = "open" /\ paired /\ run[r] = "waiting"
            THEN [run EXCEPT ![r] = IF ok THEN "done" ELSE "failed"]
            ELSE run
  /\ UNCHANGED <<tab, pairVars, cryptoVars, request, up, liveVars, clockVars, pairingVars>>

(* An answer of the bound tab settles its request, if it still waits. *)
ReceiveAnswer(q) ==
  /\ Receive(Answer(q))
  /\ request' = IF tab = "open" /\ paired /\ request[q] = "waiting"
                THEN [request EXCEPT ![q] = "answered"]
                ELSE request
  /\ UNCHANGED <<tab, pairVars, cryptoVars, run, up, liveVars, clockVars, pairingVars>>

-----------------------------------------------------------------------------
(* The live tab. *)

(* The executor takes the next message off the wire. *)
LiveReceive(message) ==
  /\ up # <<>>
  /\ message = Head(up)
  /\ up' = Tail(up)

(* Any controller ping is answered with a beat. *)
ReceivePing ==
  /\ LiveReceive(ControllerBeat)
  /\ down' = Append(down, LiveBeat)
  /\ UNCHANGED <<controllerVars, liveVars, clockVars, pairingVars>>

ReceiveChallenge ==
  /\ LiveReceive(Challenge)
  /\ Pairing!SetPendingChallenge(Me)
  /\ UNCHANGED <<controllerVars, down, liveVars, clockVars>>

(* A signed message: without an accepted session it is refused, otherwise its signature is verified. *)
ReceiveSigned(message) ==
  /\ LiveReceive(message)
  /\ gate' = IF accepted = Me THEN gate \cup {message} ELSE gate
  /\ UNCHANGED <<controllerVars, down, live, queue, evaluating, sidebar, handedOff, ran, clockVars,
                 pairingVars>>

ReceiveLapsed ==
  /\ LiveReceive(Lapsed)
  /\ UNCHANGED <<controllerVars, down, liveVars, clockVars, pairingVars>>

(* An authorized command joins the queue of replays, which run one after the other. *)
AuthorizeCommand(r) ==
  /\ StepCommand(r) \in gate
  /\ gate' = gate \ {StepCommand(r)}
  /\ queue' = Append(queue, r)
  /\ UNCHANGED <<controllerVars, up, down, live, evaluating, sidebar, handedOff, ran, clockVars,
                 pairingVars>>

(* An authorized request is evaluated beside the queue. *)
AuthorizeRequest(q) ==
  /\ Ask(q) \in gate
  /\ gate' = gate \ {Ask(q)}
  /\ evaluating' = evaluating \cup {q}
  /\ UNCHANGED <<controllerVars, up, down, live, queue, sidebar, handedOff, ran, clockVars,
                 pairingVars>>

(* getIsSidebarMounted: any surface of the docs counts, whatever its name says. *)
SidebarMounted == sidebar \in {"docked", "undocked"}

(* What closing the extension sidebar leaves: a floating panel or a full-screen page stays. *)
Closed == IF sidebar = "docked" THEN "closed" ELSE sidebar

(* openSidebar where no other extension has the sidebar: nothing opens beside an undocked surface. *)
Opened == IF sidebar = "closed" THEN "docked" ELSE sidebar

(* Mutant: a second takeover forgets that the sidebar was given up by the first. *)
AuthorizeCloseForgets ==
  /\ Handoff("close") \in gate
  /\ gate' = gate \ {Handoff("close")}
  /\ sidebar' = Closed
  /\ handedOff' = SidebarMounted
  /\ UNCHANGED <<controllerVars, up, down, live, queue, evaluating, ran, clockVars, pairingVars>>

(* The controller takes the sidebar over, if the docs are mounted. *)
AuthorizeClose ==
  /\ Handoff("close") \in gate
  /\ gate' = gate \ {Handoff("close")}
  /\ \/ /\ SidebarMounted
        /\ sidebar' = Closed
        /\ handedOff' = TRUE
     \/ /\ ~SidebarMounted
        /\ UNCHANGED <<sidebar, handedOff>>
  /\ UNCHANGED <<controllerVars, up, down, live, queue, evaluating, ran, clockVars, pairingVars>>

(***************************************************************************)
(* The controller gives the sidebar back: it opens if this tab gave it up  *)
(* and no other extension has taken it since.  Either way the tab forgets  *)
(* that it gave it up.                                                     *)
(***************************************************************************)
AuthorizeReopen ==
  /\ Handoff("reopen") \in gate
  /\ gate' = gate \ {Handoff("reopen")}
  /\ sidebar' = IF handedOff /\ sidebar # "taken" THEN Opened ELSE sidebar
  /\ handedOff' = FALSE
  /\ UNCHANGED <<controllerVars, up, down, live, queue, evaluating, ran, clockVars, pairingVars>>

(* The user opens, closes or moves the docs, or another extension takes the sidebar or leaves it. *)
SidebarMoves ==
  /\ live = "up"
  /\ moves < MaxMoves
  /\ Work < MaxWork
  /\ moves' = moves + 1
  /\ sidebar' \in Surfaces \ {sidebar}
  /\ UNCHANGED <<controllerVars, up, down, live, gate, queue, evaluating, handedOff, ran, quiet, lapses,
                 pairingVars>>

(* The replay at the head of the queue ends, well or not, and its completion is posted. *)
FinishReplay(ok) ==
  /\ queue # <<>>
  /\ ran' = [ran EXCEPT ![Head(queue)] = IF ok THEN "ok" ELSE "failed"]
  /\ queue' = Tail(queue)
  /\ down' = Append(down, StepComplete(Head(queue), ok))
  /\ UNCHANGED <<controllerVars, up, live, gate, evaluating, sidebar, handedOff, clockVars,
                 pairingVars>>

(* A check or a fix ends, and its result is posted. *)
FinishRequest(q) ==
  /\ q \in evaluating
  /\ evaluating' = evaluating \ {q}
  /\ down' = Append(down, Answer(q))
  /\ UNCHANGED <<controllerVars, up, live, gate, queue, sidebar, handedOff, ran, clockVars,
                 pairingVars>>

(* The executor posts the accept of a session whose proof is computed. *)
AnnounceAccept ==
  /\ live = "up"
  /\ Pairing!Announce(Me)
  /\ down' = Append(down, PairingAccept([session |-> accepted, launch |-> Launch]))
  /\ UNCHANGED <<controllerVars, up, liveVars, clockVars>>

(* The live tab's user, its WebCrypto and its timers act on the pairing. *)
PairingVerified == Pairing!ChallengeVerified(Me)
UserAccepts == Pairing!AcceptSession
UserRejects == Pairing!RejectSession
PairingTimers ==
  /\ TTLs
  /\ \/ Pairing!LaunchExpires(Launch)
     \/ Pairing!PromptLapses
     \/ Pairing!ExpirePendingChallenge
     \/ Pairing!RejectionForgotten(Me)

PairingStep ==
  /\ live = "up"
  /\ PairingVerified \/ UserAccepts \/ UserRejects \/ PairingTimers
  /\ UNCHANGED <<controllerVars, up, down, liveVars, clockVars>>

(* The live tab is closed or reloaded: all it had in memory is lost. *)
LiveGone ==
  /\ live = "up"
  /\ Losses < MaxGone
  /\ tab # "none"
  /\ live' = "gone"
  /\ up' = <<>> /\ gate' = {} /\ queue' = <<>> /\ evaluating' = {}
  /\ UNCHANGED <<controllerVars, down, sidebar, handedOff, ran, clockVars, pairingVars>>

-----------------------------------------------------------------------------
(* Time. *)

(***************************************************************************)
(* HEARTBEAT_STALE_MS passes without a beat of the bound tab: it is gone,  *)
(* or busy, frozen or throttled.                                           *)
(***************************************************************************)
GoesQuiet ==
  /\ lastSeen = "fresh"
  /\ lastSeen' = "stale"
  /\ \/ /\ live = "gone"
        /\ UNCHANGED quiet
     \/ /\ live = "up"
        /\ Losses < MaxQuiet
        /\ quiet' = quiet + 1
  /\ UNCHANGED <<tab, keyed, paired, connected, cryptoVars, run, request, up, down, liveVars, lapses,
                 moves, pairingVars>>

(* SIGNED_MESSAGE_STALE_MS passes: signed messages still on the wire are too old. *)
SignaturesLapse ==
  /\ lastSeen # "fresh"
  /\ lapses < MaxLapse
  /\ lapses' = lapses + 1
  /\ up' = [i \in DOMAIN up |-> IF up[i] \in SignedMessage THEN Lapsed ELSE up[i]]
  /\ prepared' = IF prepared = "fresh" THEN "old" ELSE prepared
  /\ UNCHANGED <<tab, pairVars, signing, proofs, run, request, down, liveVars, quiet, moves,
                 pairingVars>>

-----------------------------------------------------------------------------

ControllerStep ==
  \/ OpenController \/ KeysReady \/ Tick \/ CloseTab \/ Unmount \/ BindLive \/ ReceiveBeat
  \/ \E task \in signing : Signed(task)
  \/ \E r \in Runs : StartRun(r) \/ CancelRun(r) \/ \E ok \in BOOLEAN : ReceiveComplete(r, ok)
  \/ \E q \in Requests : StartRequest(q) \/ RequestTimesOut(q) \/ ReceiveAnswer(q)
  \/ \E a \in Pairing!AcceptMessage : ReceiveAccept(a)

LiveStep ==
  \/ ReceivePing \/ ReceiveChallenge \/ ReceiveLapsed \/ AnnounceAccept \/ PairingStep \/ LiveGone
  \/ AuthorizeClose \/ AuthorizeReopen \/ SidebarMoves
  \/ \E message \in SignedMessage : ReceiveSigned(message)
  \/ \E r \in Runs : AuthorizeCommand(r)
  \/ \E q \in Requests : AuthorizeRequest(q) \/ FinishRequest(q)
  \/ \E ok \in BOOLEAN : FinishReplay(ok)

Next == ControllerStep \/ LiveStep \/ GoesQuiet \/ SignaturesLapse

(***************************************************************************)
(* Messages on the wire are delivered, WebCrypto calls end, intervals and  *)
(* timeouts fire, replays end (a guided action that is not performed times *)
(* out) and a tab that is gone falls silent.  Users are not fair.          *)
(***************************************************************************)
Fairness ==
  /\ WF_vars(KeysReady) /\ WF_vars(Tick) /\ WF_vars(BindLive)
  /\ \A task \in SignedMessage \cup {HandBack, FirstHandBack} : WF_vars(Signed(task))
  /\ WF_vars(ReceiveBeat)
  /\ WF_vars(\E r \in Runs, ok \in BOOLEAN : ReceiveComplete(r, ok))
  /\ WF_vars(\E q \in Requests : ReceiveAnswer(q))
  /\ WF_vars(\E a \in Pairing!AcceptMessage : ReceiveAccept(a))
  /\ \A q \in Requests : WF_vars(RequestTimesOut(q))
  /\ WF_vars(ReceivePing) /\ WF_vars(ReceiveChallenge) /\ WF_vars(ReceiveLapsed)
  /\ WF_vars(\E message \in SignedMessage : ReceiveSigned(message))
  /\ \A r \in Runs : WF_vars(AuthorizeCommand(r))
  /\ \A q \in Requests : WF_vars(AuthorizeRequest(q)) /\ WF_vars(FinishRequest(q))
  /\ WF_vars(AuthorizeClose) /\ WF_vars(AuthorizeReopen)
  /\ WF_vars(\E ok \in BOOLEAN : FinishReplay(ok))
  /\ WF_vars(AnnounceAccept)
  /\ WF_vars(live = "up" /\ PairingVerified /\ UNCHANGED <<controllerVars, up, down, liveVars, clockVars>>)
  /\ WF_vars(live = "gone" /\ GoesQuiet)

Spec == Init /\ [][Next]_vars
FairSpec == Spec /\ Fairness

-----------------------------------------------------------------------------

(***************************************************************************)
(* The controller tab keeps its promise about remote runs: a run is done   *)
(* only if that very run succeeded on the live tab, it is replayed at most *)
(* once, and no late completion, cancellation or reconnection revises a    *)
(* verdict.  (runId: "prevents a late reply from a previous run of the     *)
(* same step from settling or updating the current run".)                  *)
(***************************************************************************)
Promise == INSTANCE RemoteRuns
KeepsPromise == Promise!Spec

(***************************************************************************)
(* The controller is bound to a live tab that has accepted this very       *)
(* session, through losses of the binding and late accepts.                *)
(***************************************************************************)
BoundToAccepter == paired => live = "gone" \/ accepted = Me

(***************************************************************************)
(* Once the user has accepted, the badge turns to connected: the accept    *)
(* reaches the controller, binds it, and the next ping is answered.        *)
(***************************************************************************)
ComesConnected ==
  (tab = "open" /\ keyed /\ live = "up" /\ accepted = Me /\ lastSeen = "never")
    ~> (connected \/ live = "gone" \/ tab # "open")

(* The command of run r, or its completion, is on its way. *)
Posted(r) ==
  \/ StepCommand(r) \in signing \cup ToSet(up) \cup gate
  \/ r \in ToSet(queue)
  \/ \E ok \in BOOLEAN : StepComplete(r, ok) \in ToSet(down)

(***************************************************************************)
(* "If the paired tab goes stale, the controller clears the binding and    *)
(* fails pending requests and composite runs": a run posted to a tab that  *)
(* has been seen alive gets its completion, or fails when that tab falls   *)
(* silent.                                                                 *)
(***************************************************************************)
PostedRunsSettle ==
  \A r \in Runs :
    (run[r] = "waiting" /\ Posted(r) /\ lastSeen # "never")
      ~> (run[r] # "waiting" \/ tab # "open")

(***************************************************************************)
(* A heartbeat loss is followed by a re-pair: while both tabs are open and *)
(* the session stays accepted, a controller that lost its live tab becomes *)
(* connected again.                                                        *)
(***************************************************************************)
Reconnects ==
  (tab = "open" /\ live = "up" /\ accepted = Me /\ lastSeen = "stale" /\ ~connected)
    ~> (connected \/ live = "gone" \/ tab # "open")

(***************************************************************************)
(* The docs are not lost to a hand-off: while they are docked, or known to *)
(* have been given up, only the user leaves the live tab with nothing in   *)
(* the sidebar and no memory of it, however many times the controller      *)
(* takes the sidebar over and gives it back (a place that another          *)
(* extension or an undocked panel has taken meanwhile is not reclaimed).   *)
(***************************************************************************)
HandOffIsRemembered ==
  [][sidebar = "docked" \/ handedOff => sidebar' # "closed" \/ handedOff' \/ SidebarMoves]_vars

=============================================================================
