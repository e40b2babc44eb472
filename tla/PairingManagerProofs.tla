------------------------- MODULE PairingManagerProofs -------------------------
(***************************************************************************)
(* Type correctness and the finality of a refusal in the pairing manager,  *)
(* for every set of sessions and launches and any number of challenges     *)
(* under verification.                                                     *)
(***************************************************************************)
EXTENDS PairingManager, TLAPS

(***************************************************************************)
(* What stays true of a session once it has been refused.  Its launch is   *)
(* no longer expected, so no new challenge of it can start verifying, and  *)
(* one that was under verification keeps the ledger from forgetting the    *)
(* refusal it will meet.                                                   *)
(***************************************************************************)
Refused(s) ==
  /\ launches[LaunchOf[s]] \notin {"unminted", "expected"}
  /\ pending # s
  /\ checking[s] > 0 => s \in rejected

(***************************************************************************)
(* The inductive invariant: a fresh prompt is a prompt, an accept is only  *)
(* announced once a session is accepted, and every session on the ledger   *)
(* is refused for good.                                                    *)
(***************************************************************************)
IInv ==
  /\ TypeOK
  /\ fresh => pending # None
  /\ \A s \in Sessions : announcing[s] > 0 => accepted \in Sessions
  /\ \A s \in Sessions : s \in rejected => Refused(s)

(* A tab that has just loaded has accepted and refused nobody. *)
LEMMA InitInvariant == Init => IInv
<1>. SUFFICES ASSUME Init
              PROVE  IInv
  OBVIOUS
<1>1. TypeOK
  <2>1. 0 \in 0..MaxCopies
    BY MaxCopiesAssumption
  <2>. QED
    BY <2>1, Zenon DEF Init, TypeOK, LaunchState
<1>2. \A s \in Sessions : s \notin rejected /\ ~(announcing[s] > 0)
  BY DEF Init
<1>. QED
  BY <1>1, <1>2 DEF Init, IInv

(* Clearing, expiring, posting and forgetting keep the types and the first two facts. *)
LEMMA NextShape ==
  ASSUME IInv, [Next]_pairingVars
  PROVE  /\ TypeOK'
         /\ (fresh => pending # None)'
         /\ (\A s \in Sessions : announcing[s] > 0 => accepted \in Sessions)'
<1>. USE LaunchOfAssumption, NoneAssumption, MaxCopiesAssumption DEF IInv, TypeOK, LaunchState
<1>1. ASSUME NEW l \in Launches, MintLaunch(l) \/ LaunchExpires(l)
      PROVE  TypeOK' /\ (fresh => pending # None)'
             /\ (\A s \in Sessions : announcing[s] > 0 => accepted \in Sessions)'
  BY <1>1 DEF MintLaunch, LaunchExpires
<1>2. ASSUME NEW s \in Sessions, SetPendingChallenge(s)
      PROVE  TypeOK' /\ (fresh => pending # None)'
             /\ (\A t \in Sessions : announcing[t] > 0 => accepted \in Sessions)'
  BY <1>2 DEF SetPendingChallenge
<1>3. ASSUME NEW s \in Sessions, ChallengeVerified(s)
      PROVE  TypeOK' /\ (fresh => pending # None)'
             /\ (\A t \in Sessions : announcing[t] > 0 => accepted \in Sessions)'
  <2>1. checking' \in [Sessions -> 0..MaxCopies]
    BY <1>3 DEF ChallengeVerified
  <2>2. launches' \in [Launches -> LaunchState]
    BY <1>3 DEF ChallengeVerified
  <2>3. \/ pending' = pending /\ fresh' = fresh
        \/ pending' = None /\ fresh' = FALSE
        \/ pending' = s /\ fresh' = TRUE
    BY <1>3 DEF ChallengeVerified, ClearPendingChallenge
  <2>4. UNCHANGED <<accepted, rejected, announcing, accepts>>
    BY <1>3 DEF ChallengeVerified
  <2>5. pending' \in Sessions \cup {None} /\ fresh' \in BOOLEAN
    BY <2>3, Zenon DEF IInv, TypeOK
  <2>6. fresh' => pending' # None
    BY <2>3
  <2>7. TypeOK'
    BY <2>1, <2>2, <2>4, <2>5
  <2>. QED
    BY <2>4, <2>6, <2>7
<1>4. ASSUME NEW s \in Sessions, RejectionForgotten(s)
      PROVE  TypeOK' /\ (fresh => pending # None)'
             /\ (\A t \in Sessions : announcing[t] > 0 => accepted \in Sessions)'
  BY <1>4 DEF RejectionForgotten
<1>5. ASSUME NEW s \in Sessions, Announce(s)
      PROVE  TypeOK' /\ (fresh => pending # None)'
             /\ (\A t \in Sessions : announcing[t] > 0 => accepted \in Sessions)'
  <2>1. [session |-> accepted, launch |-> LaunchOf[s]] \in AcceptMessage
    BY <1>5 DEF Announce, AcceptMessage
  <2>. QED
    BY <1>5, <2>1 DEF Announce
<1>6. CASE PromptLapses \/ ExpirePendingChallenge
  BY <1>6 DEF PromptLapses, ExpirePendingChallenge, ClearPendingChallenge
<1>7. CASE AcceptSession
  <2>1. pending \in Sessions
    BY <1>7 DEF AcceptSession
  <2>2. launches' \in [Launches -> LaunchState] /\ announcing' \in [Sessions -> 0..MaxCopies]
    BY <1>7, <2>1 DEF AcceptSession
  <2>. QED
    BY <1>7, <2>1, <2>2 DEF AcceptSession, ClearPendingChallenge
<1>8. CASE RejectSession
  <2>1. pending \in Sessions
    BY <1>8 DEF RejectSession
  <2>2. rejected' \subseteq Sessions /\ launches' \in [Launches -> LaunchState]
    BY <1>8, <2>1 DEF RejectSession
  <2>. QED
    BY <1>8, <2>2 DEF RejectSession, ClearPendingChallenge
<1>9. CASE UNCHANGED pairingVars
  BY <1>9 DEF pairingVars, AcceptMessage
<1>. QED
  BY <1>1, <1>2, <1>3, <1>4, <1>5, <1>6, <1>7, <1>8, <1>9 DEF Next

(***************************************************************************)
(* Nothing undoes a refusal: the launch of a refused session never becomes *)
(* expected again, so its challenges are dropped on arrival, and the one   *)
(* that was under verification meets the ledger.                           *)
(***************************************************************************)
LEMMA RefusedStaysRefused ==
  ASSUME IInv, [Next]_pairingVars, NEW s \in Sessions, Refused(s)
  PROVE  Refused(s)'
<1>. USE LaunchOfAssumption, NoneAssumption DEF IInv, TypeOK, Refused
<1>1. ASSUME NEW l \in Launches, MintLaunch(l) \/ LaunchExpires(l)
      PROVE  Refused(s)'
  BY <1>1 DEF MintLaunch, LaunchExpires
<1>2. ASSUME NEW t \in Sessions, SetPendingChallenge(t)
      PROVE  Refused(s)'
  BY <1>2 DEF SetPendingChallenge
<1>3. ASSUME NEW t \in Sessions, ChallengeVerified(t)
      PROVE  Refused(s)'
  <2>1. (checking[s] > 0 => s \in rejected)'
    BY <1>3 DEF ChallengeVerified
  <2>2. pending' # s
    BY <1>3 DEF ChallengeVerified, ClearPendingChallenge
  <2>3. launches'[LaunchOf[s]] \notin {"unminted", "expected"}
    BY <1>3 DEF ChallengeVerified
  <2>. QED
    BY <2>1, <2>2, <2>3
<1>4. ASSUME NEW t \in Sessions, RejectionForgotten(t) \/ Announce(t)
      PROVE  Refused(s)'
  BY <1>4 DEF RejectionForgotten, Announce
<1>5. CASE PromptLapses \/ ExpirePendingChallenge
  BY <1>5 DEF PromptLapses, ExpirePendingChallenge, ClearPendingChallenge
<1>6. CASE AcceptSession \/ RejectSession
  BY <1>6 DEF AcceptSession, RejectSession, ClearPendingChallenge
<1>7. CASE UNCHANGED pairingVars
  BY <1>7 DEF pairingVars
<1>. QED
  BY <1>1, <1>2, <1>3, <1>4, <1>5, <1>6, <1>7 DEF Next

(* A session enters the ledger only by the refusal that also takes its launch away. *)
LEMMA NewlyRejected ==
  ASSUME IInv, [Next]_pairingVars, NEW s \in Sessions, s \in rejected', s \notin rejected
  PROVE  Refused(s)'
<1>1. RejectSession
  BY DEF Next, pairingVars, MintLaunch, LaunchExpires, SetPendingChallenge, ChallengeVerified,
         RejectionForgotten, Announce, PromptLapses, ExpirePendingChallenge, AcceptSession
<1>2. s = pending
  BY <1>1 DEF RejectSession
<1>. QED
  BY <1>1, <1>2, LaunchOfAssumption, NoneAssumption
     DEF RejectSession, ClearPendingChallenge, Refused, IInv, TypeOK

(* Every step keeps the invariant. *)
LEMMA NextInvariant == IInv /\ [Next]_pairingVars => IInv'
<1>. SUFFICES ASSUME IInv, [Next]_pairingVars
              PROVE  IInv'
  OBVIOUS
<1>1. ASSUME NEW s \in Sessions, s \in rejected'
      PROVE  Refused(s)'
  <2>1. CASE s \in rejected
    BY <2>1, RefusedStaysRefused DEF IInv
  <2>2. CASE s \notin rejected
    BY <1>1, <2>2, NewlyRejected
  <2>. QED
    BY <2>1, <2>2
<1>. QED
  BY <1>1, NextShape DEF IInv

-----------------------------------------------------------------------------

(* The invariant holds of every reachable state. *)
THEOREM Invariance == Spec => []IInv
BY InitInvariant, NextInvariant, PTL DEF Spec

(***************************************************************************)
(* Type correctness: in particular a posted accept always names a session  *)
(* that was accepted, whatever was accepted while its proof was computed   *)
(* (live-tab-executor.ts:132-147).                                         *)
(***************************************************************************)
THEOREM TypeCorrect == Spec => []TypeOK
<1>1. IInv => TypeOK
  BY DEF IInv
<1>. QED
  BY <1>1, Invariance, PTL

(***************************************************************************)
(* A refusal is final for any number of sessions, launches and challenges  *)
(* under verification, even after the ledger has forgotten it              *)
(* (pairing-manager.ts:214-220, 285-307, 348-362).                         *)
(***************************************************************************)
THEOREM RejectionFinal == Spec => RejectionIsFinal
<1>. SUFFICES ASSUME NEW s \in Sessions
              PROVE  Spec => [](s \in rejected => [](pending # s))
  BY DEF RejectionIsFinal
<1>1. IInv /\ s \in rejected => Refused(s)
  BY DEF IInv
<1>2. IInv /\ Refused(s) /\ [Next]_pairingVars => Refused(s)'
  BY RefusedStaysRefused
<1>3. Refused(s) => pending # s
  BY DEF Refused
<1>. QED
  BY <1>1, <1>2, <1>3, Invariance, PTL DEF Spec

=============================================================================
