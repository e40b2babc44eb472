--------------------------- MODULE PairingManager ---------------------------
(***************************************************************************)
(* The pairing state of a live Grafana tab (src/lib/pairing-manager.ts).   *)
(*                                                                         *)
(* A live tab mints one launch for each controller tab it opens.  A        *)
(* controller tab that loads generates a session (an id and a key pair)    *)
(* and repeats, every heartbeat, a challenge that proves it knows the      *)
(* secret of its launch.  The tab verifies the proof (an awaited HMAC),    *)
(* prompts its user, and binds the session the user accepts.  Reloading a  *)
(* controller tab keeps its launch and makes a new session, so several     *)
(* sessions can share one launch.                                          *)
(*                                                                         *)
(* Proofs are abstracted: only genuine challenges are sent here, the ones  *)
(* the code would drop for a wrong proof change nothing.  `accepts` is a   *)
(* history of the pairing-accept messages posted.                          *)
(***************************************************************************)
EXTENDS Naturals, FiniteSets

CONSTANTS
  Sessions,      \* the controller sessions: one per load of a controller tab
  Launches,      \* the launches the live tab mints
  LaunchOf,      \* the launch a session's tab was opened with
  None,          \* no session
  MaxCopies      \* bound: challenges of one session under verification, and accepts of one being signed

ASSUME LaunchOfAssumption == LaunchOf \in [Sessions -> Launches]
ASSUME NoneAssumption == None \notin Sessions
ASSUME MaxCopiesAssumption == MaxCopies \in Nat \ {0}

(***************************************************************************)
(* expectedLaunches only holds the "expected" ones; the other values tell  *)
(* why a launch is not in it, which the code does not keep.                *)
(***************************************************************************)
LaunchState == {"unminted", "expected", "expired", "denied", "accepted", "rejected"}

VARIABLES
  launches,      \* expectedLaunches, and why a launch left it
  pending,       \* pendingChallenge, or None
  fresh,         \* pendingChallengeExpiresAt is still ahead
  checking,      \* challenges whose proof is being verified, by session
  accepted,      \* acceptedSession, or None
  rejected,      \* rejectedChallenges, the ledger of refused sessions
  announcing,    \* accept proofs being computed, by the session they were started for
  accepts        \* history: the pairing-accept messages posted

pairingVars == <<launches, pending, fresh, checking, accepted, rejected, announcing, accepts>>

(* A pairing-accept names the session it is for and carries the proof of a launch. *)
AcceptMessage == [session : Sessions, launch : Launches]

TypeOK ==
  /\ launches \in [Launches -> LaunchState]
  /\ pending \in Sessions \cup {None}
  /\ fresh \in BOOLEAN
  /\ checking \in [Sessions -> 0..MaxCopies]
  /\ accepted \in Sessions \cup {None}
  /\ rejected \subseteq Sessions
  /\ announcing \in [Sessions -> 0..MaxCopies]
  /\ accepts \subseteq AcceptMessage

Init ==
  /\ launches = [l \in Launches |-> "unminted"]
  /\ pending = None
  /\ fresh = FALSE
  /\ checking = [s \in Sessions |-> 0]
  /\ accepted = None
  /\ rejected = {}
  /\ announcing = [s \in Sessions |-> 0]
  /\ accepts = {}

-----------------------------------------------------------------------------

(* clearPendingChallenge: the prompt goes away. *)
ClearPendingChallenge ==
  /\ pending' = None
  /\ fresh' = FALSE

(* The user opens a controller tab: createControllerPairingLaunch registers its launch. *)
MintLaunch(l) ==
  /\ launches[l] = "unminted"
  /\ launches' = [launches EXCEPT ![l] = "expected"]
  /\ UNCHANGED <<pending, fresh, checking, accepted, rejected, announcing, accepts>>

(* PAIRING_LAUNCH_TTL_MS passes: the launch is pruned before the next verification. *)
LaunchExpires(l) ==
  /\ launches[l] = "expected"
  /\ launches' = [launches EXCEPT ![l] = "expired"]
  /\ UNCHANGED <<pending, fresh, checking, accepted, rejected, announcing, accepts>>

(***************************************************************************)
(* A challenge of session s arrives.  The session already accepted is      *)
(* accepted again; a challenge of an expected launch starts verifying,     *)
(* with the launch captured; any other is dropped.                         *)
(***************************************************************************)
SetPendingChallenge(s) ==
  /\ \/ /\ accepted = s
        /\ announcing[s] < MaxCopies
        /\ announcing' = [announcing EXCEPT ![s] = @ + 1]
        /\ UNCHANGED checking
     \/ /\ accepted # s
        /\ launches[LaunchOf[s]] = "expected"
        /\ checking[s] < MaxCopies
        /\ checking' = [checking EXCEPT ![s] = @ + 1]
        /\ UNCHANGED announcing
     \/ /\ accepted # s
        /\ launches[LaunchOf[s]] # "expected"
        /\ UNCHANGED <<checking, announcing>>
  /\ UNCHANGED <<launches, pending, fresh, accepted, rejected, accepts>>

(* Mutant: a second challenge leaves the prompt that is up, and is ignored. *)
ChallengeKeepsFirstPrompt(s) ==
  /\ checking[s] > 0
  /\ checking' = [checking EXCEPT ![s] = @ - 1]
  /\ \/ /\ s \in rejected \/ fresh
        /\ UNCHANGED <<pending, fresh>>
     \/ /\ s \notin rejected
        /\ ~fresh
        /\ pending' = s
        /\ fresh' = TRUE
  /\ UNCHANGED <<launches, accepted, rejected, announcing, accepts>>

(***************************************************************************)
(* The proof of a challenge of s is verified and setPendingChallenge       *)
(* resumes: a refused session is ignored, a prompt already up is kept if   *)
(* it is the same challenge and otherwise denied together with this one,   *)
(* and with no (fresh) prompt up this challenge becomes the prompt.        *)
(***************************************************************************)
ChallengeVerified(s) ==
  /\ checking[s] > 0
  /\ checking' = [checking EXCEPT ![s] = @ - 1]
  /\ \/ /\ s \in rejected
        /\ UNCHANGED <<launches, pending, fresh>>
     \/ /\ s \notin rejected
        /\ fresh
        /\ pending = s
        /\ UNCHANGED <<launches, pending, fresh>>
     \/ /\ s \notin rejected
        /\ fresh
        /\ pending # s
        /\ launches' = [l \in Launches |->
                          IF l \in {LaunchOf[s], LaunchOf[pending]} THEN "denied" ELSE launches[l]]
        /\ ClearPendingChallenge
     \/ /\ s \notin rejected
        /\ ~fresh
        /\ pending' = s
        /\ fresh' = TRUE
        /\ UNCHANGED launches
  /\ UNCHANGED <<accepted, rejected, announcing, accepts>>

(* PENDING_CHALLENGE_TTL_MS passes; the timer that clears the prompt runs at or after that. *)
PromptLapses ==
  /\ fresh
  /\ fresh' = FALSE
  /\ UNCHANGED <<launches, pending, checking, accepted, rejected, announcing, accepts>>

(* expirePendingChallenge, by its timer or because the user answers too late. *)
ExpirePendingChallenge ==
  /\ pending # None
  /\ ~fresh
  /\ ClearPendingChallenge
  /\ UNCHANGED <<launches, checking, accepted, rejected, announcing, accepts>>

(***************************************************************************)
(* The user accepts the prompt: the session is bound, its launch is used   *)
(* up, and the executor starts computing the accept proof.                 *)
(***************************************************************************)
AcceptSession ==
  /\ fresh
  /\ announcing[pending] < MaxCopies
  /\ accepted' = pending
  /\ launches' = [launches EXCEPT ![LaunchOf[pending]] = "accepted"]
  /\ announcing' = [announcing EXCEPT ![pending] = @ + 1]
  /\ ClearPendingChallenge
  /\ UNCHANGED <<checking, rejected, accepts>>

(* Mutant: the prompt is cleared before the refusal is recorded. *)
RejectAfterClear ==
  /\ fresh
  /\ ClearPendingChallenge
  /\ rejected' = rejected \cup {pending'}
  /\ launches' = [launches EXCEPT ![LaunchOf[pending]] = "rejected"]
  /\ UNCHANGED <<checking, accepted, announcing, accepts>>

(* Mutant: a refusal does not take the launch away. *)
RejectKeepsLaunch ==
  /\ fresh
  /\ rejected' = rejected \cup {pending}
  /\ ClearPendingChallenge
  /\ UNCHANGED <<launches, checking, accepted, announcing, accepts>>

(* The user refuses the prompt: the session is remembered and its launch is used up. *)
RejectSession ==
  /\ fresh
  /\ rejected' = rejected \cup {pending}
  /\ launches' = [launches EXCEPT ![LaunchOf[pending]] = "rejected"]
  /\ ClearPendingChallenge
  /\ UNCHANGED <<checking, accepted, announcing, accepts>>

(***************************************************************************)
(* REJECTED_CHALLENGE_TTL_MS (5 minutes) passes and the ledger forgets a   *)
(* refusal.  A proof under verification since before the refusal is long   *)
(* done by then.                                                           *)
(***************************************************************************)
RejectionForgotten(s) ==
  /\ s \in rejected
  /\ checking[s] = 0
  /\ rejected' = rejected \ {s}
  /\ UNCHANGED <<launches, pending, fresh, checking, accepted, announcing, accepts>>

(* Mutant: the accept's secret is looked up among the launches still expected. *)
AnnounceFromLaunches(s) ==
  /\ announcing[s] > 0
  /\ announcing' = [announcing EXCEPT ![s] = @ - 1]
  /\ accepts' = IF launches[LaunchOf[s]] = "expected"
                THEN accepts \cup {[session |-> accepted, launch |-> LaunchOf[s]]}
                ELSE accepts
  /\ UNCHANGED <<launches, pending, fresh, checking, accepted, rejected>>

(***************************************************************************)
(* The listener of live-tab-executor.ts posts the accept: the proof was    *)
(* computed for session s, the session id is the one accepted now.         *)
(***************************************************************************)
Announce(s) ==
  /\ announcing[s] > 0
  /\ announcing' = [announcing EXCEPT ![s] = @ - 1]
  /\ accepts' = accepts \cup {[session |-> accepted, launch |-> LaunchOf[s]]}
  /\ UNCHANGED <<launches, pending, fresh, checking, accepted, rejected>>

-----------------------------------------------------------------------------

Next ==
  \/ \E l \in Launches : MintLaunch(l) \/ LaunchExpires(l)
  \/ \E s \in Sessions : SetPendingChallenge(s) \/ ChallengeVerified(s)
                         \/ RejectionForgotten(s) \/ Announce(s)
  \/ PromptLapses \/ ExpirePendingChallenge
  \/ AcceptSession \/ RejectSession

(***************************************************************************)
(* A controller tab repeats its challenge on every tick, WebCrypto answers *)
(* and timers run.  Nothing obliges the user to answer or to open tabs.    *)
(***************************************************************************)
Fairness ==
  /\ WF_pairingVars(PromptLapses)
  /\ WF_pairingVars(ExpirePendingChallenge)
  /\ \A s \in Sessions :
       /\ WF_pairingVars(SetPendingChallenge(s))
       /\ WF_pairingVars(ChallengeVerified(s))
       /\ WF_pairingVars(Announce(s))

Spec == Init /\ [][Next]_pairingVars /\ Fairness

-----------------------------------------------------------------------------

(***************************************************************************)
(* A refused session is never prompted again, not even once the ledger has *)
(* forgotten it: rejectSession must also take its launch away              *)
(* (pairing-manager.ts:356-359), and a challenge under verification at the *)
(* time must still meet the ledger.                                        *)
(***************************************************************************)
RejectionIsFinal == \A s \in Sessions : [](s \in rejected => [](pending # s))

(***************************************************************************)
(* A session the user accepts is told so, with the proof of its own        *)
(* launch, unless the user has meanwhile accepted another one: the session *)
(* id is read again after the proof is computed                            *)
(* (live-tab-executor.ts:136-142).                                         *)
(***************************************************************************)
AcceptIsAnnounced ==
  \A s \in Sessions :
    accepted = s ~> (accepted # s \/ [session |-> s, launch |-> LaunchOf[s]] \in accepts)

(***************************************************************************)
(* A session whose launch stays expected is prompted for: a prompt nobody  *)
(* answers goes away by itself (PENDING_CHALLENGE_TTL_MS) and the          *)
(* challenge, repeated on every tick, gets its turn.                       *)
(***************************************************************************)
PromptComes ==
  \A s \in Sessions :
    launches[LaunchOf[s]] = "expected"
      ~> (pending = s \/ launches[LaunchOf[s]] # "expected")

=============================================================================
