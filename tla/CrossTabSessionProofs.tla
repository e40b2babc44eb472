------------------------ MODULE CrossTabSessionProofs ------------------------
(***************************************************************************)
(* The two-tab session keeps its promise: for any number of runs,          *)
(* requests, messages on the wires and losses, every step of it is a step  *)
(* of RemoteRuns, and a controller is bound only to a live tab that        *)
(* accepted it.  The argument follows the one command of a run through the *)
(* system (it is in one place at most, and gone once the run is replayed)  *)
(* and the accept back to its user.                                        *)
(***************************************************************************)
EXTENDS CrossTabSession, SequenceTheorems, TLAPS

(***************************************************************************)
(* What is on a wire, a sequence of messages, when messages are posted to  *)
(* it and taken off it.                                                    *)
(***************************************************************************)
(* Message m is on the wire, and it is there once at most. *)
On(wire, m) == \E i \in 1..Len(wire) : wire[i] = m
Once(wire, m) == \A i, j \in 1..Len(wire) : wire[i] = m /\ wire[j] = m => i = j

(* An empty wire has no message. *)
LEMMA NoMessage ==
  ASSUME NEW S
  PROVE  <<>> \in Seq(S) /\ \A m : ~On(<<>>, m) /\ Once(<<>>, m)
BY EmptySeq DEF On, Once

(* Taking the head off a wire takes that message off, if it was there once, and adds none. *)
LEMMA TakeMessage ==
  ASSUME NEW S, NEW wire \in Seq(S), wire # <<>>
  PROVE  /\ Tail(wire) \in Seq(S)
         /\ Head(wire) \in S
         /\ On(wire, Head(wire))
         /\ \A m : On(Tail(wire), m) => On(wire, m)
         /\ \A m : Once(wire, m) => Once(Tail(wire), m)
         /\ Once(wire, Head(wire)) => ~On(Tail(wire), Head(wire))
<1>1. /\ Tail(wire) \in Seq(S) /\ Head(wire) \in S /\ Len(wire) \in Nat
      /\ Len(wire) >= 1 /\ Len(Tail(wire)) = Len(wire) - 1
      /\ \A i \in 1..Len(Tail(wire)) : Tail(wire)[i] = wire[i + 1]
      /\ Head(wire) = wire[1]
  BY HeadTailProperties, EmptySeq
<1>2. \A i \in 1..Len(Tail(wire)) : i + 1 \in 1..Len(wire) /\ i + 1 # 1
  BY <1>1
<1>3. 1 \in 1..Len(wire)
  BY <1>1
<1>4. \A m : On(Tail(wire), m) => On(wire, m)
  BY <1>1, <1>2 DEF On
<1>5. ASSUME NEW m, Once(wire, m)
      PROVE  Once(Tail(wire), m)
  <2>. SUFFICES ASSUME NEW i \in 1..Len(Tail(wire)), NEW j \in 1..Len(Tail(wire)),
                       Tail(wire)[i] = m, Tail(wire)[j] = m
                PROVE  i = j
    BY DEF Once
  <2>1. wire[i + 1] = m /\ wire[j + 1] = m
    BY <1>1
  <2>2. i + 1 = j + 1
    BY <2>1, <1>2, <1>5 DEF Once
  <2>. QED
    BY <2>2
<1>6. Once(wire, Head(wire)) => ~On(Tail(wire), Head(wire))
  BY <1>1, <1>2, <1>3 DEF On, Once
<1>. QED
  BY <1>1, <1>3, <1>4, <1>5, <1>6 DEF On

(* Posting messages adds those messages, and no second copy of one that was not among them. *)
LEMMA PostMessages ==
  ASSUME NEW S, NEW wire \in Seq(S), NEW messages \in Seq(S)
  PROVE  /\ wire \o messages \in Seq(S)
         /\ \A m : On(wire \o messages, m) => On(wire, m) \/ On(messages, m)
         /\ \A m : Once(wire, m) /\ ~On(messages, m) => Once(wire \o messages, m)
         /\ \A m : ~On(wire, m) /\ Once(messages, m) => Once(wire \o messages, m)
<1>1. /\ wire \o messages \in Seq(S)
      /\ Len(wire) \in Nat /\ Len(messages) \in Nat
      /\ Len(wire \o messages) = Len(wire) + Len(messages)
      /\ \A i \in 1..(Len(wire) + Len(messages)) :
           (wire \o messages)[i] = IF i <= Len(wire) THEN wire[i] ELSE messages[i - Len(wire)]
  BY ConcatProperties, LenProperties
<1>2. ASSUME NEW i \in 1..Len(wire \o messages)
      PROVE  \/ i \in 1..Len(wire) /\ (wire \o messages)[i] = wire[i]
             \/ i - Len(wire) \in 1..Len(messages) /\ (wire \o messages)[i] = messages[i - Len(wire)]
  BY <1>1
<1>3. \A m : On(wire \o messages, m) => On(wire, m) \/ On(messages, m)
  BY <1>2 DEF On
<1>4. ASSUME NEW m, \/ Once(wire, m) /\ ~On(messages, m)
                    \/ ~On(wire, m) /\ Once(messages, m)
      PROVE  Once(wire \o messages, m)
  <2>. SUFFICES ASSUME NEW i \in 1..Len(wire \o messages), NEW j \in 1..Len(wire \o messages),
                       (wire \o messages)[i] = m, (wire \o messages)[j] = m
                PROVE  i = j
    BY DEF Once
  <2>1. CASE Once(wire, m) /\ ~On(messages, m)
    <3>1. i \in 1..Len(wire) /\ wire[i] = m /\ j \in 1..Len(wire) /\ wire[j] = m
      BY <1>2, <2>1 DEF On
    <3>. QED
      BY <3>1, <2>1 DEF Once
  <2>2. CASE ~On(wire, m) /\ Once(messages, m)
    <3>1. /\ i - Len(wire) \in 1..Len(messages) /\ messages[i - Len(wire)] = m
          /\ j - Len(wire) \in 1..Len(messages) /\ messages[j - Len(wire)] = m
      BY <1>2, <2>2 DEF On
    <3>2. i - Len(wire) = j - Len(wire)
      BY <3>1, <2>2 DEF Once
    <3>. QED
      BY <3>2, <1>1
  <2>. QED
    BY <1>4, <2>1, <2>2
<1>. QED
  BY <1>1, <1>3, <1>4

(* The messages posted together are one or two. *)
LEMMA FewMessages ==
  ASSUME NEW S, NEW x \in S, NEW y \in S
  PROVE  /\ <<x>> \in Seq(S) /\ <<x, y>> \in Seq(S)
         /\ \A m : Once(<<x>>, m)
         /\ \A m : On(<<x>>, m) => m = x
         /\ \A m : On(<<x, y>>, m) => m \in {x, y}
BY DEF On, Once

(* Posting one message. *)
LEMMA AppendMessage ==
  ASSUME NEW S, NEW wire \in Seq(S), NEW x \in S
  PROVE  /\ Append(wire, x) \in Seq(S)
         /\ \A m : On(Append(wire, x), m) => On(wire, m) \/ m = x
         /\ \A m : Once(wire, m) /\ m # x => Once(Append(wire, x), m)
         /\ ~On(wire, x) => Once(Append(wire, x), x)
<1>1. Append(wire, x) = wire \o <<x>>
  BY AppendIsConcat
<1>2. <<x>> \in Seq(S) /\ \A m : Once(<<x>>, m) /\ (On(<<x>>, m) => m = x)
  BY FewMessages
<1>3. /\ wire \o <<x>> \in Seq(S)
      /\ \A m : On(wire \o <<x>>, m) => On(wire, m) \/ On(<<x>>, m)
      /\ \A m : Once(wire, m) /\ ~On(<<x>>, m) => Once(wire \o <<x>>, m)
      /\ \A m : ~On(wire, m) /\ Once(<<x>>, m) => Once(wire \o <<x>>, m)
  BY <1>2, PostMessages
<1>. QED
  BY <1>1, <1>2, <1>3, Zenon

(* Replacing messages in place keeps the length of the wire. *)
LEMMA MapMessages ==
  ASSUME NEW S, NEW wire \in Seq(S), NEW f \in [DOMAIN wire -> S]
  PROVE  /\ f \in Seq(S)
         /\ Len(f) = Len(wire)
<1>1. Len(wire) \in Nat /\ DOMAIN wire = 1..Len(wire)
  BY LenProperties
<1>2. f \in Seq(S)
  BY <1>1, SeqDef
<1>3. Len(f) \in Nat /\ 1..Len(f) = 1..Len(wire)
  BY <1>1, <1>2, LenProperties
<1>4. ASSUME NEW n \in Nat, NEW k \in Nat, 1..n = 1..k
      PROVE  ~(n < k)
  <2>1. SUFFICES ASSUME n < k PROVE FALSE
    OBVIOUS
  <2>2. k \in 1..k /\ k \notin 1..n
    BY <2>1
  <2>. QED
    BY <1>4, <2>2
<1>. QED
  BY <1>1, <1>2, <1>3, <1>4

(***************************************************************************)
(* The pairing manager inside the session                                  *)
(***************************************************************************)
(* The pairing of the live tab, with what is proved of it. *)
PairingProofs == INSTANCE PairingManagerProofs WITH
                   Sessions <- {Me}, Launches <- {Launch}, LaunchOf <- [s \in {Me} |-> Launch]

(* What PairingManager assumes of its constants. *)
LEMMA PairingAssumptions ==
  /\ [s \in {Me} |-> Launch] \in [{Me} -> {Launch}]
  /\ None \notin {Me}
  /\ MaxCopies \in Nat \ {0}
BY MeAssumption, BoundsAssumption

(* The steps of the pairing manager with one session and one launch. *)
PairingNext ==
  \/ Pairing!MintLaunch(Launch) \/ Pairing!LaunchExpires(Launch)
  \/ Pairing!SetPendingChallenge(Me) \/ Pairing!ChallengeVerified(Me)
  \/ Pairing!RejectionForgotten(Me) \/ Pairing!Announce(Me)
  \/ Pairing!PromptLapses \/ Pairing!ExpirePendingChallenge
  \/ Pairing!AcceptSession \/ Pairing!RejectSession

(* They are steps of the pairing manager. *)
LEMMA PairingStepIsNext == PairingNext => PairingProofs!Next
<1>1. /\ Pairing!MintLaunch(Launch) => PairingProofs!MintLaunch(Launch)
      /\ Pairing!LaunchExpires(Launch) => PairingProofs!LaunchExpires(Launch)
  BY DEF Pairing!MintLaunch, PairingProofs!MintLaunch, Pairing!LaunchExpires, PairingProofs!LaunchExpires
<1>2. /\ Pairing!SetPendingChallenge(Me) => PairingProofs!SetPendingChallenge(Me)
      /\ Pairing!RejectionForgotten(Me) => PairingProofs!RejectionForgotten(Me)
      /\ Pairing!Announce(Me) => PairingProofs!Announce(Me)
  BY DEF Pairing!SetPendingChallenge, PairingProofs!SetPendingChallenge, Pairing!RejectionForgotten,
         PairingProofs!RejectionForgotten, Pairing!Announce, PairingProofs!Announce
<1>3. Pairing!ChallengeVerified(Me) => PairingProofs!ChallengeVerified(Me)
  BY DEF Pairing!ChallengeVerified, PairingProofs!ChallengeVerified, Pairing!ClearPendingChallenge,
         PairingProofs!ClearPendingChallenge
<1>4. /\ Pairing!PromptLapses => PairingProofs!PromptLapses
      /\ Pairing!ExpirePendingChallenge => PairingProofs!ExpirePendingChallenge
  BY DEF Pairing!PromptLapses, PairingProofs!PromptLapses, Pairing!ExpirePendingChallenge,
         PairingProofs!ExpirePendingChallenge, Pairing!ClearPendingChallenge, PairingProofs!ClearPendingChallenge
<1>5. /\ Pairing!AcceptSession => PairingProofs!AcceptSession
      /\ Pairing!RejectSession => PairingProofs!RejectSession
  BY DEF Pairing!AcceptSession, PairingProofs!AcceptSession, Pairing!RejectSession,
         PairingProofs!RejectSession, Pairing!ClearPendingChallenge, PairingProofs!ClearPendingChallenge
<1>. QED
  BY <1>1, <1>2, <1>3, <1>4, <1>5 DEF PairingNext, PairingProofs!Next

(* So they keep its invariant. *)
LEMMA PairingShape ==
  ASSUME PairingProofs!IInv, PairingNext \/ UNCHANGED pairingVars
  PROVE  PairingProofs!IInv'
<1>1. [PairingProofs!Next]_(PairingProofs!pairingVars)
  BY PairingStepIsNext DEF pairingVars, PairingProofs!pairingVars
<1>. QED
  BY <1>1, PairingAssumptions, PairingProofs!NextInvariant

-----------------------------------------------------------------------------
(* The command of a run is no other message. *)
LEMMA Commands ==
  \A r \in Runs :
    /\ StepCommand(r) \in SignedMessage
    /\ \A other : StepCommand(other) = StepCommand(r) => other = r
    /\ \A q : StepCommand(r) # Ask(q)
    /\ \A action : StepCommand(r) # Handoff(action)
    /\ StepCommand(r) \notin {ControllerBeat, Challenge, Lapsed, HandBack, FirstHandBack}
BY DEF StepCommand, SignedMessage, Ask, Handoff, ControllerBeat, Challenge, Lapsed, HandBack, FirstHandBack

(* A completion tells its run and its verdict, and is no other message. *)
LEMMA Completions ==
  \A r, ok :
    /\ \A other, verdict : StepComplete(other, verdict) = StepComplete(r, ok) => other = r /\ verdict = ok
    /\ \A q : StepComplete(r, ok) # Answer(q)
    /\ \A a : StepComplete(r, ok) # PairingAccept(a)
    /\ StepComplete(r, ok) # LiveBeat
BY DEF StepComplete, Answer, PairingAccept, LiveBeat

(* Each message travels in one direction. *)
LEMMA MessageTypes ==
  /\ {ControllerBeat, Challenge, Lapsed} \subseteq UpMessage
  /\ {Handoff("close"), Handoff("reopen")} \subseteq SignedMessage
  /\ \A r \in Runs : StepCommand(r) \in SignedMessage
  /\ \A q \in Requests : Ask(q) \in SignedMessage
  /\ SignedMessage \subseteq UpMessage
  /\ LiveBeat \in DownMessage
  /\ \A a \in Pairing!AcceptMessage : PairingAccept(a) \in DownMessage
  /\ \A r \in Runs, ok \in BOOLEAN : StepComplete(r, ok) \in DownMessage
  /\ \A q \in Requests : Answer(q) \in DownMessage
<1>1. {ControllerBeat, Challenge, Lapsed} \subseteq UpMessage /\ SignedMessage \subseteq UpMessage
  BY Zenon DEF UpMessage
<1>2. {Handoff("close"), Handoff("reopen")} \subseteq SignedMessage
  BY Zenon DEF SignedMessage
<1>3. /\ \A r \in Runs : StepCommand(r) \in SignedMessage
      /\ \A q \in Requests : Ask(q) \in SignedMessage
  BY DEF SignedMessage
<1>4. LiveBeat \in DownMessage
  BY DEF DownMessage
<1>5. \A a \in Pairing!AcceptMessage : PairingAccept(a) \in DownMessage
  BY DEF DownMessage
<1>6. \A r \in Runs, ok \in BOOLEAN : StepComplete(r, ok) \in DownMessage
  BY DEF DownMessage
<1>7. \A q \in Requests : Answer(q) \in DownMessage
  BY DEF DownMessage
<1>. QED
  BY <1>1, <1>2, <1>3, <1>4, <1>5, <1>6, <1>7

(* Posting keeps the type of the wire to the live tab. *)
LEMMA PostedTypes ==
  ASSUME up \in Seq(UpMessage), NEW messages \in Seq(UpMessage), PostUp(messages)
  PROVE  up' \in Seq(UpMessage)
BY PostMessages DEF PostUp

(* Every step of the session is a step of the pairing manager, or leaves it alone. *)
LEMMA PairingStays ==
  ASSUME Next \/ UNCHANGED vars
  PROVE  PairingNext \/ UNCHANGED pairingVars
<1>. USE DEF vars, controllerVars, liveVars
<1>1. CASE ControllerStep
  BY <1>1 DEF ControllerStep, OpenController, KeysReady, Tick, CloseTab, Unmount, BindLive, ReceiveBeat,
              Signed, StartRun, CancelRun, ReceiveComplete, StartRequest, RequestTimesOut, ReceiveAnswer,
              ReceiveAccept, PairingNext
<1>2. CASE LiveStep
  BY <1>2 DEF LiveStep, ReceivePing, ReceiveChallenge, ReceiveLapsed, AnnounceAccept, PairingStep,
              LiveGone, AuthorizeClose, AuthorizeReopen, SidebarMoves, ReceiveSigned, AuthorizeCommand,
              AuthorizeRequest, FinishRequest, FinishReplay, PairingNext, PairingVerified,
              UserAccepts, UserRejects, PairingTimers
<1>3. CASE GoesQuiet \/ SignaturesLapse
  BY <1>3 DEF GoesQuiet, SignaturesLapse
<1>. QED
  BY <1>1, <1>2, <1>3 DEF Next

(***************************************************************************)
(* The accept posted is one of this session: its user accepted it and      *)
(* nothing undoes that (live-tab-executor.ts:132-147).                     *)
(***************************************************************************)
LEMMA AcceptOfMe ==
  ASSUME PairingProofs!IInv, AnnounceAccept
  PROVE  /\ accepted = Me
         /\ PairingAccept([session |-> accepted, launch |-> Launch]) \in DownMessage
<1>1. accepted = Me
  BY DEF AnnounceAccept, PairingProofs!IInv, Pairing!Announce
<1>2. [session |-> accepted, launch |-> Launch] \in Pairing!AcceptMessage
  BY <1>1 DEF Pairing!AcceptMessage
<1>. QED
  BY <1>1, <1>2, MessageTypes

(* Every step keeps the types, given that the pairing manager keeps its own. *)
LEMMA TypesStay ==
  ASSUME TypeOK, PairingProofs!IInv, PairingProofs!IInv', Next \/ UNCHANGED vars
  PROVE  TypeOK'
<1>. USE MessageTypes, BoundsAssumption
     DEF TypeOK, vars, controllerVars, pairVars, cryptoVars, liveVars, clockVars
<1>1. Pairing!TypeOK'
  BY DEF Pairing!TypeOK, PairingProofs!IInv, PairingProofs!TypeOK, Pairing!LaunchState,
         PairingProofs!LaunchState, Pairing!AcceptMessage, PairingProofs!AcceptMessage
<1>2. /\ <<>> \in Seq(UpMessage)
      /\ \A m \in UpMessage : <<m>> \in Seq(UpMessage)
      /\ \A m, n \in UpMessage : <<m, n>> \in Seq(UpMessage)
  BY FewMessages, NoMessage
<1>3. CASE OpenController \/ KeysReady \/ Tick
  BY <1>1, <1>2, <1>3, PostedTypes DEF OpenController, KeysReady, Tick, FailAllPending, Sign
<1>4. CASE CloseTab \/ Unmount
  <2>1. UNCHANGED up \/ \E messages \in Seq(UpMessage) : PostUp(messages)
    BY <1>2, <1>4 DEF CloseTab, Unmount
  <2>2. up' \in Seq(UpMessage)
    BY <2>1, PostedTypes
  <2>3. proofs' = 0 /\ proofs' \in 0..MaxCopies
    BY <1>4 DEF CloseTab, Unmount
  <2>4. tab' \in {"leaving", "closed"} /\ signing' \subseteq SignedMessage \cup {HandBack, FirstHandBack}
    BY <1>4 DEF CloseTab, Unmount
  <2>5. /\ run' \in [Runs -> {"idle", "waiting", "done", "failed", "cancelled"}]
        /\ request' \in [Requests -> {"idle", "waiting", "answered", "fallback"}]
    BY <1>4 DEF CloseTab, Unmount, FailAllPending
  <2>. QED
    BY <1>1, <1>4, <2>2, <2>3, <2>4, <2>5 DEF CloseTab, Unmount
<1>5. ASSUME NEW task \in signing, Signed(task) PROVE TypeOK'
  BY <1>1, <1>2, <1>5, PostedTypes DEF Signed
<1>6. ASSUME NEW r \in Runs, StartRun(r) \/ CancelRun(r) PROVE TypeOK'
  BY <1>1, <1>6 DEF StartRun, CancelRun, Sign
<1>7. ASSUME NEW q \in Requests, StartRequest(q) \/ RequestTimesOut(q) PROVE TypeOK'
  BY <1>1, <1>7 DEF StartRequest, RequestTimesOut, Sign
<1>8. down # <<>> => Tail(down) \in Seq(DownMessage)
  BY TakeMessage
<1>9. CASE BindLive \/ ReceiveBeat
  <2>1. CASE BindLive
    <3>1. proofs' \in 0..MaxCopies
      BY <2>1 DEF BindLive
    <3>2. paired' \in BOOLEAN /\ signing' \subseteq SignedMessage \cup {HandBack, FirstHandBack}
      BY <2>1 DEF BindLive
    <3>. QED
      BY <1>1, <2>1, <3>1, <3>2 DEF BindLive
  <2>2. CASE ReceiveBeat
    BY <1>1, <1>8, <2>2 DEF ReceiveBeat, Receive
  <2>. QED
    BY <1>9, <2>1, <2>2
<1>10. ASSUME NEW r \in Runs, NEW ok \in BOOLEAN, ReceiveComplete(r, ok) PROVE TypeOK'
  BY <1>1, <1>8, <1>10 DEF ReceiveComplete, Receive
<1>11. ASSUME NEW q \in Requests, ReceiveAnswer(q) PROVE TypeOK'
  BY <1>1, <1>8, <1>11 DEF ReceiveAnswer, Receive
<1>12. ASSUME NEW a \in Pairing!AcceptMessage, ReceiveAccept(a) PROVE TypeOK'
  <2>1. proofs' \in 0..MaxCopies
    BY <1>12 DEF ReceiveAccept
  <2>2. down' \in Seq(DownMessage)
    BY <1>8, <1>12 DEF ReceiveAccept, Receive
  <2>. QED
    BY <1>1, <1>12, <2>1, <2>2 DEF ReceiveAccept
<1>13. up # <<>> => Tail(up) \in Seq(UpMessage)
  BY TakeMessage
<1>14. \A m \in DownMessage : Append(down, m) \in Seq(DownMessage)
  BY AppendMessage
<1>15. CASE ReceivePing \/ ReceiveChallenge \/ ReceiveLapsed
  BY <1>1, <1>13, <1>14, <1>15 DEF ReceivePing, ReceiveChallenge, ReceiveLapsed, LiveReceive
<1>16. ASSUME NEW m \in SignedMessage, ReceiveSigned(m) PROVE TypeOK'
  BY <1>1, <1>13, <1>16 DEF ReceiveSigned, LiveReceive
<1>17. CASE AnnounceAccept
  BY <1>1, <1>14, <1>17, AcceptOfMe DEF AnnounceAccept
<1>18. CASE PairingStep
  BY <1>1, <1>18 DEF PairingStep
<1>19. CASE LiveGone \/ AuthorizeClose \/ AuthorizeReopen \/ SidebarMoves
  <2>1. CASE LiveGone
    BY <1>1, <1>2, <2>1, NoMessage DEF LiveGone
  <2>2. CASE AuthorizeClose
    BY <1>1, <2>2 DEF AuthorizeClose, Closed, Surfaces
  <2>3. CASE AuthorizeReopen
    BY <1>1, <2>3 DEF AuthorizeReopen, Opened, Surfaces
  <2>4. CASE SidebarMoves
    <3>1. moves' \in 0..MaxMoves /\ sidebar' \in Surfaces
      BY <2>4 DEF SidebarMoves
    <3>. QED
      BY <1>1, <2>4, <3>1 DEF SidebarMoves
  <2>. QED
    BY <1>19, <2>1, <2>2, <2>3, <2>4
<1>20. ASSUME NEW r \in Runs, AuthorizeCommand(r) PROVE TypeOK'
  BY <1>1, <1>20, AppendMessage DEF AuthorizeCommand
<1>21. ASSUME NEW q \in Requests, AuthorizeRequest(q) \/ FinishRequest(q) PROVE TypeOK'
  BY <1>1, <1>14, <1>21 DEF AuthorizeRequest, FinishRequest
<1>22. ASSUME NEW ok \in BOOLEAN, FinishReplay(ok) PROVE TypeOK'
  <2>1. Head(queue) \in Runs /\ Tail(queue) \in Seq(Runs)
    BY <1>22, TakeMessage DEF FinishReplay
  <2>. QED
    BY <1>1, <1>14, <1>22, <2>1 DEF FinishReplay
<1>23. CASE GoesQuiet
  <2>1. Losses \in Nat /\ quiet <= Losses /\ quiet \in Nat /\ MaxQuiet \in Nat
    BY DEF Losses
  <2>2. quiet' \in 0..MaxQuiet
    BY <1>23, <2>1 DEF GoesQuiet
  <2>. QED
    BY <1>1, <1>23, <2>2 DEF GoesQuiet
<1>24. CASE SignaturesLapse
  <2>1. [i \in DOMAIN up |-> IF up[i] \in SignedMessage THEN Lapsed ELSE up[i]] \in [DOMAIN up -> UpMessage]
    BY LenProperties, ElementOfSeq
  <2>2. up' \in Seq(UpMessage)
    BY <1>24, <2>1, MapMessages DEF SignaturesLapse
  <2>. QED
    BY <1>1, <1>24, <2>2 DEF SignaturesLapse
<1>25. CASE UNCHANGED vars
  BY <1>1, <1>25
<1>. QED
  BY <1>3, <1>4, <1>5, <1>6, <1>7, <1>9, <1>10, <1>11, <1>12, <1>15, <1>16, <1>17, <1>18, <1>19, <1>20,
     <1>21, <1>22, <1>23, <1>24, <1>25
  DEF Next, ControllerStep, LiveStep

-----------------------------------------------------------------------------

(* The command of r is at most once in all of signing, up, gate and queue. *)
Alone(r) ==
  /\ Once(up, StepCommand(r)) /\ Once(queue, r)
  /\ StepCommand(r) \in signing =>
       StepCommand(r) \notin gate /\ ~On(up, StepCommand(r)) /\ ~On(queue, r)
  /\ StepCommand(r) \in gate => ~On(up, StepCommand(r)) /\ ~On(queue, r)
  /\ ~(On(up, StepCommand(r)) /\ On(queue, r))

(* The command of r is in one of these places: the run is not replayed yet. *)
Underway(r) == StepCommand(r) \in signing \cup gate \/ On(up, StepCommand(r)) \/ On(queue, r)

(***************************************************************************)
(* What ties a run on the controller tab to its replay on the live tab:    *)
(* only a run that was started has a command, a command still underway was *)
(* not replayed, and a completion on the wire tells what the replay did.   *)
(***************************************************************************)
RunFacts(r) ==
  /\ Alone(r)
  /\ Underway(r) => run[r] # "idle" /\ ran[r] = "no"
  /\ ran[r] # "no" => run[r] # "idle"
  /\ \A ok \in BOOLEAN : On(down, StepComplete(r, ok)) => ran[r] = IF ok THEN "ok" ELSE "failed"

(* A step that moves no command of r and reports nothing new of it; commands may be lost. *)
LEMMA NothingMoves ==
  ASSUME NEW r \in Runs, RunFacts(r),
         StepCommand(r) \in signing' => StepCommand(r) \in signing,
         StepCommand(r) \in gate' => StepCommand(r) \in gate,
         On(up', StepCommand(r)) => On(up, StepCommand(r)),
         Once(up', StepCommand(r)),
         On(queue', r) => On(queue, r),
         Once(queue', r),
         \A ok \in BOOLEAN : On(down', StepComplete(r, ok)) => On(down, StepComplete(r, ok)),
         run[r] # "idle" => run'[r] # "idle",
         ran'[r] = ran[r]
  PROVE  RunFacts(r)'
<1>1. StepCommand(r)' = StepCommand(r)
  BY DEF StepCommand
<1>2. Alone(r)'
  BY <1>1 DEF RunFacts, Alone
<1>3. Underway(r)' => Underway(r)
  BY <1>1 DEF Underway
<1>4. \A ok \in BOOLEAN : StepComplete(r, ok)' = StepComplete(r, ok)
  BY DEF StepComplete
<1>. QED
  BY <1>2, <1>3, <1>4 DEF RunFacts

(* Posting anything but the command of r. *)
LEMMA OthersPosted ==
  ASSUME TypeOK, NEW r \in Runs, Once(up, StepCommand(r)),
         NEW messages \in Seq(UpMessage), ~On(messages, StepCommand(r)), PostUp(messages)
  PROVE  /\ On(up', StepCommand(r)) => On(up, StepCommand(r))
         /\ Once(up', StepCommand(r))
BY PostMessages DEF PostUp, TypeOK

(* The lists of messages the controller posts by itself. *)
LEMMA NoCommandPosted ==
  ASSUME NEW r \in Runs
  PROVE  /\ \A messages \in {<<>>, <<ControllerBeat>>, <<Challenge>>, <<ControllerBeat, Challenge>>,
                             <<Handoff("reopen")>>} :
              messages \in Seq(UpMessage) /\ ~On(messages, StepCommand(r))
         /\ \A m \in UpMessage : m # StepCommand(r) =>
              <<m>> \in Seq(UpMessage) /\ ~On(<<m>>, StepCommand(r))
<1>1. /\ {ControllerBeat, Challenge, Handoff("reopen")} \subseteq UpMessage
      /\ StepCommand(r) \notin {ControllerBeat, Challenge, Handoff("reopen")}
  BY MessageTypes, Commands
<1>2. ASSUME NEW m \in UpMessage, m # StepCommand(r)
      PROVE  <<m>> \in Seq(UpMessage) /\ ~On(<<m>>, StepCommand(r))
  <2>1. <<m>> \in Seq(UpMessage) /\ \A n : On(<<m>>, n) => n = m
    BY FewMessages
  <2>. QED
    BY <1>2, <2>1
<1>3. <<>> \in Seq(UpMessage) /\ ~On(<<>>, StepCommand(r))
  BY NoMessage
<1>4. <<ControllerBeat, Challenge>> \in Seq(UpMessage)
      /\ ~On(<<ControllerBeat, Challenge>>, StepCommand(r))
  BY <1>1, FewMessages
<1>. QED
  BY <1>1, <1>2, <1>3, <1>4, Zenon

(* The controller tab: a run is given its command when it starts, once. *)
LEMMA ControllerRunFacts ==
  ASSUME TypeOK, NEW r \in Runs, RunFacts(r), ControllerStep
  PROVE  RunFacts(r)'
<1>. DEFINE c == StepCommand(r)
<1>. USE Commands, Completions DEF liveVars, pairVars, cryptoVars
<1>1. CASE OpenController \/ KeysReady
  <2>1. UNCHANGED up \/ PostUp(<<Challenge>>)
    BY <1>1 DEF OpenController, KeysReady
  <2>2. (On(up', c) => On(up, c)) /\ Once(up', c)
    BY <2>1, OthersPosted, NoCommandPosted DEF RunFacts, Alone
  <2>. QED
    BY <1>1, <2>2, NothingMoves DEF OpenController, KeysReady, RunFacts, Alone
<1>2. CASE Tick
  <2>1. PostUp(<<ControllerBeat, Challenge>>) \/ PostUp(<<ControllerBeat>>)
    BY <1>2 DEF Tick
  <2>2. (On(up', c) => On(up, c)) /\ Once(up', c)
    BY <2>1, OthersPosted, NoCommandPosted DEF RunFacts, Alone
  <2>3. c \in signing' => c \in signing
    BY <1>2 DEF Tick, Sign
  <2>4. run[r] # "idle" => run'[r] # "idle"
    BY <1>2 DEF Tick, FailAllPending
  <2>. QED
    BY <1>2, <2>2, <2>3, <2>4, NothingMoves DEF Tick, RunFacts, Alone
<1>3. CASE CloseTab \/ Unmount
  <2>1. UNCHANGED up \/ PostUp(<<>>) \/ PostUp(<<Handoff("reopen")>>)
    BY <1>3 DEF CloseTab, Unmount
  <2>2. (On(up', c) => On(up, c)) /\ Once(up', c)
    BY <2>1, OthersPosted, NoCommandPosted DEF RunFacts, Alone
  <2>3. c \in signing' => c \in signing
    BY <1>3 DEF CloseTab, Unmount
  <2>4. run[r] # "idle" => run'[r] # "idle"
    BY <1>3 DEF CloseTab, Unmount, FailAllPending
  <2>. QED
    BY <1>3, <2>2, <2>3, <2>4, NothingMoves DEF CloseTab, Unmount, RunFacts, Alone
<1>4. ASSUME NEW task \in signing, Signed(task)
      PROVE  RunFacts(r)'
  <2>1. CASE task # c
    <3>1. c \in signing' => c \in signing
      BY <1>4 DEF Signed
    <3>2. UNCHANGED up \/ (task \in UpMessage /\ PostUp(<<task>>))
      BY <1>4, MessageTypes DEF Signed
    <3>3. (On(up', c) => On(up, c)) /\ Once(up', c)
      BY <2>1, <3>2, OthersPosted, NoCommandPosted DEF RunFacts, Alone
    <3>. QED
      BY <1>4, <3>1, <3>3, NothingMoves DEF Signed, RunFacts, Alone
  <2>2. CASE task = c
    <3>1. PostUp(<<c>>) /\ signing' \subseteq signing \ {c}
      BY <1>4, <2>2 DEF Signed
    <3>2. ~On(up, c) /\ ~On(queue, r) /\ c \notin gate /\ run[r] # "idle" /\ ran[r] = "no"
      BY <1>4, <2>2 DEF RunFacts, Alone, Underway
    <3>3. Once(up', c)
      <4>1. <<c>> \in Seq(UpMessage) /\ Once(<<c>>, c)
        BY MessageTypes, FewMessages
      <4>2. Once(up \o <<c>>, c)
        BY <3>2, <4>1, PostMessages DEF TypeOK
      <4>. QED
        BY <3>1, <4>2 DEF PostUp, RunFacts, Alone
    <3>4. UNCHANGED <<gate, queue, run, ran, down>>
      BY <1>4 DEF Signed
    <3>5. Alone(r)'
      BY <3>1, <3>2, <3>3, <3>4 DEF Alone, RunFacts, StepCommand
    <3>. QED
      BY <3>2, <3>4, <3>5 DEF RunFacts, StepComplete
  <2>. QED
    BY <2>1, <2>2
<1>5. ASSUME NEW other \in Runs, StartRun(other)
      PROVE  RunFacts(r)'
  <2>1. UNCHANGED <<up, gate, queue, ran, down>>
    BY <1>5 DEF StartRun
  <2>2. CASE other # r
    <3>1. c \in signing' => c \in signing
      BY <1>5, <2>2 DEF StartRun, Sign
    <3>. QED
      BY <1>5, <2>1, <2>2, <3>1, NothingMoves DEF StartRun, RunFacts, Alone, TypeOK
  <2>3. CASE other = r
    <3>1. ~Underway(r) /\ ran[r] = "no"
      BY <1>5, <2>3 DEF StartRun, RunFacts, TypeOK
    <3>2. run'[r] # "idle"
      BY <1>5, <2>3 DEF StartRun, TypeOK
    <3>3. Alone(r)'
      BY <2>1, <3>1 DEF Alone, RunFacts, Underway, StepCommand
    <3>. QED
      BY <2>1, <3>1, <3>2, <3>3 DEF RunFacts, StepComplete
  <2>. QED
    BY <2>2, <2>3
<1>6. ASSUME NEW other \in Runs, CancelRun(other)
      PROVE  RunFacts(r)'
  BY <1>6, NothingMoves DEF CancelRun, RunFacts, Alone, TypeOK
<1>7. ASSUME NEW q \in Requests, StartRequest(q) \/ RequestTimesOut(q)
      PROVE  RunFacts(r)'
  <2>1. c \in signing' => c \in signing
    BY <1>7 DEF StartRequest, RequestTimesOut, Sign
  <2>. QED
    BY <1>7, <2>1, NothingMoves DEF StartRequest, RequestTimesOut, RunFacts, Alone
<1>8. down # <<>> => \A m : On(Tail(down), m) => On(down, m)
  BY TakeMessage DEF TypeOK
<1>9. CASE BindLive \/ ReceiveBeat
  <2>1. c \in signing' => c \in signing
    BY <1>9 DEF BindLive, ReceiveBeat
  <2>. QED
    BY <1>8, <1>9, <2>1, NothingMoves DEF BindLive, ReceiveBeat, Receive, RunFacts, Alone
<1>10. ASSUME NEW other \in Runs, NEW ok \in BOOLEAN, ReceiveComplete(other, ok)
       PROVE  RunFacts(r)'
  <2>1. run[r] # "idle" => run'[r] # "idle"
    BY <1>10 DEF ReceiveComplete, TypeOK
  <2>. QED
    BY <1>8, <1>10, <2>1, NothingMoves DEF ReceiveComplete, Receive, RunFacts, Alone
<1>11. ASSUME NEW q \in Requests, ReceiveAnswer(q)
       PROVE  RunFacts(r)'
  BY <1>8, <1>11, NothingMoves DEF ReceiveAnswer, Receive, RunFacts, Alone
<1>12. ASSUME NEW a \in Pairing!AcceptMessage, ReceiveAccept(a)
       PROVE  RunFacts(r)'
  BY <1>8, <1>12, NothingMoves DEF ReceiveAccept, Receive, RunFacts, Alone
<1>. QED
  BY <1>1, <1>2, <1>3, <1>4, <1>5, <1>6, <1>7, <1>9, <1>10, <1>11, <1>12 DEF ControllerStep

(***************************************************************************)
(* The live tab: the command moves from the wire to the gate and the       *)
(* queue, and its replay uses it up.                                       *)
(***************************************************************************)
LEMMA LiveRunFacts ==
  ASSUME TypeOK, PairingProofs!IInv, NEW r \in Runs, RunFacts(r), LiveStep
  PROVE  RunFacts(r)'
<1>. DEFINE c == StepCommand(r)
<1>. USE Commands, Completions DEF liveVars, controllerVars, pairVars, cryptoVars
<1>1. up # <<>> => /\ On(Tail(up), c) => On(up, c)
                   /\ Once(Tail(up), c)
                   /\ Head(up) = c => On(up, c) /\ ~On(Tail(up), c)
  BY TakeMessage DEF TypeOK, RunFacts, Alone
<1>2. ASSUME NEW m \in DownMessage, \A ok \in BOOLEAN : m # StepComplete(r, ok)
      PROVE  \A ok \in BOOLEAN : On(Append(down, m), StepComplete(r, ok)) => On(down, StepComplete(r, ok))
  BY <1>2, AppendMessage DEF TypeOK
<1>3. CASE ReceivePing
  <2>1. \A ok \in BOOLEAN : On(down', StepComplete(r, ok)) => On(down, StepComplete(r, ok))
    BY <1>2, <1>3, MessageTypes DEF ReceivePing
  <2>. QED
    BY <1>1, <1>3, <2>1, NothingMoves DEF ReceivePing, LiveReceive, RunFacts, Alone
<1>4. CASE ReceiveChallenge \/ ReceiveLapsed
  BY <1>1, <1>4, NothingMoves DEF ReceiveChallenge, ReceiveLapsed, LiveReceive, RunFacts, Alone
<1>5. CASE AnnounceAccept
  <2>1. \A ok \in BOOLEAN : On(down', StepComplete(r, ok)) => On(down, StepComplete(r, ok))
    BY <1>2, <1>5, AcceptOfMe DEF AnnounceAccept
  <2>. QED
    BY <1>5, <2>1, NothingMoves DEF AnnounceAccept, RunFacts, Alone
<1>6. CASE PairingStep
  BY <1>6, NothingMoves DEF PairingStep, RunFacts, Alone
<1>7. CASE LiveGone
  BY <1>7, NoMessage, NothingMoves DEF LiveGone, RunFacts, Alone
<1>8. CASE AuthorizeClose \/ AuthorizeReopen \/ SidebarMoves
  BY <1>8, NothingMoves DEF AuthorizeClose, AuthorizeReopen, SidebarMoves, RunFacts, Alone
<1>9. ASSUME NEW m \in SignedMessage, ReceiveSigned(m)
      PROVE  RunFacts(r)'
  <2>1. UNCHANGED <<signing, queue, run, ran, down>>
    BY <1>9 DEF ReceiveSigned
  <2>2. CASE m # c
    BY <1>1, <1>9, <2>2, NothingMoves DEF ReceiveSigned, LiveReceive, RunFacts, Alone
  <2>3. CASE m = c
    <3>1. /\ On(up, c) /\ ~On(up', c) /\ Once(up', c)
          /\ gate' \subseteq gate \cup {c}
      BY <1>1, <1>9, <2>3 DEF ReceiveSigned, LiveReceive
    <3>2. c \notin signing /\ ~On(queue, r) /\ run[r] # "idle" /\ ran[r] = "no"
      BY <3>1 DEF RunFacts, Alone, Underway
    <3>3. Alone(r)'
      BY <2>1, <3>1, <3>2 DEF Alone, RunFacts, StepCommand
    <3>. QED
      BY <2>1, <3>2, <3>3 DEF RunFacts, StepComplete
  <2>. QED
    BY <2>2, <2>3
<1>10. ASSUME NEW other \in Runs, AuthorizeCommand(other)
       PROVE  RunFacts(r)'
  <2>1. UNCHANGED <<signing, up, run, ran, down>>
    BY <1>10 DEF AuthorizeCommand
  <2>2. /\ On(Append(queue, other), r) => On(queue, r) \/ other = r
        /\ other # r => Once(Append(queue, other), r)
        /\ ~On(queue, r) /\ other = r => Once(Append(queue, other), r)
    BY AppendMessage DEF TypeOK, RunFacts, Alone
  <2>3. CASE other # r
    BY <1>10, <2>2, <2>3, NothingMoves DEF AuthorizeCommand, RunFacts, Alone
  <2>4. CASE other = r
    <3>1. /\ c \in gate /\ c \notin gate' /\ queue' = Append(queue, r)
      BY <1>10, <2>4 DEF AuthorizeCommand
    <3>2. c \notin signing /\ ~On(up, c) /\ ~On(queue, r) /\ run[r] # "idle" /\ ran[r] = "no"
      BY <3>1 DEF RunFacts, Alone, Underway
    <3>3. Alone(r)'
      BY <2>1, <2>2, <2>4, <3>1, <3>2 DEF Alone, RunFacts, StepCommand
    <3>. QED
      BY <2>1, <3>2, <3>3 DEF RunFacts, StepComplete
  <2>. QED
    BY <2>3, <2>4
<1>11. ASSUME NEW q \in Requests, AuthorizeRequest(q)
       PROVE  RunFacts(r)'
  BY <1>11, NothingMoves DEF AuthorizeRequest, RunFacts, Alone
<1>12. ASSUME NEW q \in Requests, FinishRequest(q)
       PROVE  RunFacts(r)'
  <2>1. \A ok \in BOOLEAN : On(down', StepComplete(r, ok)) => On(down, StepComplete(r, ok))
    BY <1>2, <1>12, MessageTypes DEF FinishRequest
  <2>. QED
    BY <1>12, <2>1, NothingMoves DEF FinishRequest, RunFacts, Alone
<1>13. ASSUME NEW ok \in BOOLEAN, FinishReplay(ok)
       PROVE  RunFacts(r)'
  <2>. DEFINE done == Head(queue)
  <2>1. /\ UNCHANGED <<signing, up, gate, run>>
        /\ queue # <<>> /\ queue' = Tail(queue)
        /\ ran' = [ran EXCEPT ![done] = IF ok THEN "ok" ELSE "failed"]
        /\ down' = Append(down, StepComplete(done, ok))
    BY <1>13 DEF FinishReplay
  <2>2. /\ done \in Runs
        /\ On(queue, done)
        /\ On(queue', r) => On(queue, r)
        /\ Once(queue', r)
        /\ done = r => ~On(queue', r)
    BY <2>1, TakeMessage DEF TypeOK, RunFacts, Alone
  <2>3. StepComplete(done, ok) \in DownMessage
    BY <2>2, MessageTypes
  <2>4. CASE done # r
    <3>1. \A verdict \in BOOLEAN :
            On(down', StepComplete(r, verdict)) => On(down, StepComplete(r, verdict))
      BY <1>2, <2>1, <2>3, <2>4
    <3>2. ran'[r] = ran[r]
      BY <2>1, <2>4 DEF TypeOK
    <3>. QED
      BY <2>1, <2>2, <3>1, <3>2, NothingMoves DEF RunFacts, Alone
  <2>5. CASE done = r
    <3>1. /\ c \notin signing /\ c \notin gate /\ ~On(up, c)
          /\ run[r] # "idle" /\ ran[r] = "no"
      BY <2>2, <2>5 DEF RunFacts, Alone, Underway
    <3>2. ran'[r] = IF ok THEN "ok" ELSE "failed"
      BY <2>1, <2>5 DEF TypeOK
    <3>3. \A verdict \in BOOLEAN : ~On(down, StepComplete(r, verdict))
      BY <3>1 DEF RunFacts
    <3>4. ASSUME NEW verdict \in BOOLEAN, On(down', StepComplete(r, verdict))
          PROVE  verdict = ok
      BY <2>1, <2>3, <2>5, <3>3, <3>4, AppendMessage DEF TypeOK
    <3>5. Alone(r)' /\ ~Underway(r)'
      BY <2>1, <2>2, <2>5, <3>1 DEF Alone, RunFacts, StepCommand, Underway
    <3>. QED
      BY <2>1, <3>1, <3>2, <3>4, <3>5 DEF RunFacts, StepComplete
  <2>. QED
    BY <2>4, <2>5
<1>. QED
  BY <1>3, <1>4, <1>5, <1>6, <1>7, <1>8, <1>9, <1>10, <1>11, <1>12, <1>13 DEF LiveStep

-----------------------------------------------------------------------------

(* The accept of this session. *)
MyAccept == PairingAccept([session |-> Me, launch |-> Launch])

(* While the live tab is there, what can bind or has bound it is an accept of its user. *)
Binding == live = "up" /\ (paired \/ proofs > 0 \/ On(down, MyAccept)) => accepted = Me

(* An accepted session stays accepted: only its own prompt can be accepted here. *)
LEMMA AcceptedStays ==
  ASSUME PairingProofs!IInv, PairingNext \/ UNCHANGED pairingVars, accepted = Me
  PROVE  accepted' = Me
<1>1. fresh => pending = Me
  BY DEF PairingProofs!IInv, PairingProofs!TypeOK
<1>. QED
  BY <1>1 DEF PairingNext, pairingVars, Pairing!MintLaunch, Pairing!LaunchExpires,
     Pairing!SetPendingChallenge, Pairing!ChallengeVerified, Pairing!RejectionForgotten,
     Pairing!Announce, Pairing!PromptLapses, Pairing!ExpirePendingChallenge, Pairing!AcceptSession,
     Pairing!RejectSession

(* Every step keeps the binding honest, late accepts and rebinding included. *)
LEMMA BindingStays ==
  ASSUME TypeOK, PairingProofs!IInv, Binding, Next \/ UNCHANGED vars
  PROVE  Binding'
<1>. SUFFICES ASSUME accepted # Me
              PROVE  Binding'
  BY PairingStays, AcceptedStays DEF Binding
<1>. USE MessageTypes DEF vars, controllerVars, pairVars, cryptoVars, liveVars
<1>1. CASE live = "gone"
  <2>1. live' = "gone"
    BY <1>1 DEF Next, ControllerStep, LiveStep, OpenController, KeysReady, Tick, CloseTab, Unmount,
       BindLive, ReceiveBeat, Signed, StartRun, CancelRun, ReceiveComplete, StartRequest,
       RequestTimesOut, ReceiveAnswer, ReceiveAccept, ReceivePing, ReceiveChallenge, ReceiveLapsed,
       AnnounceAccept, PairingStep, LiveGone, AuthorizeClose, AuthorizeReopen, SidebarMoves, ReceiveSigned,
       AuthorizeCommand, AuthorizeRequest, FinishRequest, FinishReplay, GoesQuiet, SignaturesLapse
  <2>. QED
    BY <2>1 DEF Binding
<1>2. CASE live = "up"
  <2>1. ~paired /\ ~(proofs > 0) /\ ~On(down, MyAccept)
    BY <1>2 DEF Binding
  <2>2. down # <<>> => ~On(Tail(down), MyAccept) /\ Head(down) # MyAccept
    BY <2>1, TakeMessage DEF TypeOK
  <2>3. \A m \in DownMessage : m # MyAccept => ~On(Append(down, m), MyAccept)
    BY <2>1, AppendMessage DEF TypeOK
  <2>4. /\ LiveBeat # MyAccept
        /\ \A r \in Runs, ok \in BOOLEAN : StepComplete(r, ok) # MyAccept
        /\ \A q \in Requests : Answer(q) # MyAccept
    BY DEF MyAccept, LiveBeat, StepComplete, Answer, PairingAccept
  <2>5. MyAccept' = MyAccept
    BY DEF MyAccept, PairingAccept
  <2>6. CASE ControllerStep
    <3>1. ASSUME NEW a \in Pairing!AcceptMessage, ReceiveAccept(a)
          PROVE  Binding'
      <4>1. a # [session |-> Me, launch |-> Launch]
        BY <2>2, <3>1 DEF ReceiveAccept, Receive, MyAccept
      <4>. QED
        BY <2>1, <2>2, <2>5, <3>1, <4>1 DEF ReceiveAccept, Receive, Binding
    <3>2. CASE ReceiveBeat \/ \/ \E r \in Runs, ok \in BOOLEAN : ReceiveComplete(r, ok)
                              \/ \E q \in Requests : ReceiveAnswer(q)
      BY <2>1, <2>2, <2>5, <3>2 DEF ReceiveBeat, ReceiveComplete, ReceiveAnswer, Receive, Binding
    <3>3. CASE OpenController \/ KeysReady \/ Tick \/ CloseTab \/ Unmount
      BY <2>1, <2>5, <3>3 DEF OpenController, KeysReady, Tick, CloseTab, Unmount, Binding
    <3>4. CASE BindLive
      BY <2>1, <3>4 DEF BindLive
    <3>5. CASE \/ \E task \in signing : Signed(task)
               \/ \E r \in Runs : StartRun(r) \/ CancelRun(r)
               \/ \E q \in Requests : StartRequest(q) \/ RequestTimesOut(q)
      BY <2>1, <2>5, <3>5 DEF Signed, StartRun, CancelRun, StartRequest, RequestTimesOut, Binding
    <3>. QED
      BY <2>6, <3>1, <3>2, <3>3, <3>4, <3>5 DEF ControllerStep
  <2>7. CASE LiveStep
    <3>1. ~AnnounceAccept
      BY AcceptOfMe
    <3>2. CASE ReceivePing
      BY <2>1, <2>3, <2>4, <2>5, <3>2 DEF ReceivePing, Binding
    <3>3. ASSUME NEW q \in Requests, FinishRequest(q)
          PROVE  Binding'
      BY <2>1, <2>3, <2>4, <2>5, <3>3 DEF FinishRequest, Binding
    <3>4. ASSUME NEW ok \in BOOLEAN, FinishReplay(ok)
          PROVE  Binding'
      <4>1. Head(queue) \in Runs
        BY <3>4, TakeMessage DEF FinishReplay, TypeOK
      <4>. QED
        BY <2>1, <2>3, <2>4, <2>5, <3>4, <4>1 DEF FinishReplay, Binding
    <3>5. CASE \/ ReceiveChallenge \/ ReceiveLapsed \/ PairingStep \/ LiveGone
               \/ AuthorizeClose \/ AuthorizeReopen \/ SidebarMoves
      BY <2>1, <2>5, <3>5 DEF ReceiveChallenge, ReceiveLapsed, PairingStep, LiveGone, AuthorizeClose,
         AuthorizeReopen, SidebarMoves, Binding
    <3>6. CASE \/ \E message \in SignedMessage : ReceiveSigned(message)
               \/ \E r \in Runs : AuthorizeCommand(r)
               \/ \E q \in Requests : AuthorizeRequest(q)
      BY <2>1, <2>5, <3>6 DEF ReceiveSigned, AuthorizeCommand, AuthorizeRequest, Binding
    <3>. QED
      BY <2>7, <3>1, <3>2, <3>3, <3>4, <3>5, <3>6 DEF LiveStep
  <2>8. CASE GoesQuiet \/ SignaturesLapse \/ UNCHANGED vars
    BY <2>1, <2>5, <2>8 DEF GoesQuiet, SignaturesLapse, Binding
  <2>. QED
    BY <2>6, <2>7, <2>8 DEF Next
<1>. QED
  BY <1>1, <1>2 DEF TypeOK

-----------------------------------------------------------------------------

(***************************************************************************)
(* Every step is a step of RemoteRuns, or changes neither what is shown    *)
(* nor what was replayed.                                                  *)
(***************************************************************************)
LEMMA StepKeepsPromise ==
  ASSUME TypeOK, \A r \in Runs : RunFacts(r), Next \/ UNCHANGED vars
  PROVE  Promise!Next \/ UNCHANGED <<run, ran>>
<1>. USE DEF vars, controllerVars, liveVars
<1>1. ASSUME FailAllPending, UNCHANGED ran
      PROVE  Promise!Next
  <2>1. Promise!GiveUp({r \in Runs : run[r] = "waiting"}, "failed")
    BY <1>1 DEF Promise!GiveUp, FailAllPending
  <2>. QED
    BY <2>1 DEF Promise!Next
<1>2. CASE Tick \/ Unmount
  BY <1>1, <1>2 DEF Tick, Unmount
<1>3. ASSUME NEW r \in Runs, StartRun(r)
      PROVE  Promise!Next
  BY <1>3 DEF StartRun, Promise!Start, Promise!Next
<1>4. ASSUME NEW r \in Runs, run[r] = "waiting", NEW verdict \in {"failed", "cancelled"},
             run' = [run EXCEPT ![r] = verdict], UNCHANGED ran
      PROVE  Promise!Next
  <2>1. run' = [other \in Runs |-> IF other \in {r} THEN verdict ELSE run[other]]
    BY <1>4 DEF TypeOK
  <2>2. Promise!GiveUp({r}, verdict)
    BY <1>4, <2>1 DEF Promise!GiveUp
  <2>. QED
    BY <2>2 DEF Promise!Next
<1>5. ASSUME NEW r \in Runs, CancelRun(r)
      PROVE  Promise!Next
  BY <1>4, <1>5 DEF CancelRun
<1>6. ASSUME NEW r \in Runs, NEW ok \in BOOLEAN, ReceiveComplete(r, ok)
      PROVE  Promise!Next \/ UNCHANGED <<run, ran>>
  <2>1. CASE ~(tab = "open" /\ paired /\ run[r] = "waiting")
    BY <1>6, <2>1 DEF ReceiveComplete
  <2>2. CASE tab = "open" /\ paired /\ run[r] = "waiting"
    <3>1. run' = [run EXCEPT ![r] = IF ok THEN "done" ELSE "failed"] /\ UNCHANGED ran
      BY <1>6, <2>2 DEF ReceiveComplete
    <3>2. On(down, StepComplete(r, ok))
      BY <1>6, TakeMessage DEF ReceiveComplete, Receive, TypeOK
    <3>3. ran[r] = IF ok THEN "ok" ELSE "failed"
      BY <3>2 DEF RunFacts
    <3>4. CASE ok = TRUE
      BY <2>2, <3>1, <3>3, <3>4 DEF Promise!Finish, Promise!Next
    <3>5. CASE ok = FALSE
      BY <1>4, <2>2, <3>1, <3>5
    <3>. QED
      BY <3>4, <3>5
  <2>. QED
    BY <2>1, <2>2
<1>7. ASSUME NEW ok \in BOOLEAN, FinishReplay(ok)
      PROVE  Promise!Next
  <2>1. Head(queue) \in Runs /\ On(queue, Head(queue))
    BY <1>7, TakeMessage DEF FinishReplay, TypeOK
  <2>2. run[Head(queue)] # "idle" /\ ran[Head(queue)] = "no"
    BY <2>1 DEF RunFacts, Underway
  <2>3. Promise!Replay(Head(queue), IF ok THEN "ok" ELSE "failed")
    BY <1>7, <2>2 DEF FinishReplay, Promise!Replay
  <2>. QED
    BY <2>1, <2>3 DEF Promise!Next
<1>8. CASE ControllerStep
  BY <1>2, <1>3, <1>5, <1>6, <1>8
  DEF ControllerStep, OpenController, KeysReady, CloseTab, BindLive, ReceiveBeat, Signed, StartRequest,
      RequestTimesOut, ReceiveAnswer, ReceiveAccept
<1>9. CASE LiveStep
  BY <1>7, <1>9
  DEF LiveStep, ReceivePing, ReceiveChallenge, ReceiveLapsed, AnnounceAccept, PairingStep, LiveGone,
      AuthorizeClose, AuthorizeReopen, SidebarMoves, ReceiveSigned, AuthorizeCommand,
      AuthorizeRequest, FinishRequest
<1>10. CASE GoesQuiet \/ SignaturesLapse \/ UNCHANGED vars
  BY <1>10 DEF GoesQuiet, SignaturesLapse
<1>. QED
  BY <1>8, <1>9, <1>10 DEF Next

-----------------------------------------------------------------------------

(* The inductive invariant. *)
IInv ==
  /\ TypeOK
  /\ PairingProofs!IInv
  /\ \A r \in Runs : RunFacts(r)
  /\ Binding

(* It holds when no tab has been opened. *)
LEMMA InitInvariant == Init => IInv
<1>. SUFFICES ASSUME Init
              PROVE  IInv
  OBVIOUS
<1>1. PairingProofs!IInv
  <2>1. PairingProofs!Init
    BY DEF Init, Pairing!Init, PairingProofs!Init
  <2>. QED
    BY <2>1, PairingAssumptions, PairingProofs!InitInvariant
<1>2. Pairing!TypeOK
  BY <1>1 DEF Pairing!TypeOK, PairingProofs!IInv, PairingProofs!TypeOK, Pairing!LaunchState,
         PairingProofs!LaunchState, Pairing!AcceptMessage, PairingProofs!AcceptMessage
<1>3. TypeOK
  <2>1. 0 \in 0..MaxCopies /\ 0 \in 0..MaxQuiet /\ 0 \in 0..MaxLapse /\ 0 \in 0..MaxMoves
    BY BoundsAssumption
  <2>2. <<>> \in Seq(UpMessage) /\ <<>> \in Seq(DownMessage) /\ <<>> \in Seq(Runs)
    BY EmptySeq
  <2>3. sidebar \in Surfaces
    BY SidebarsAssumption DEF Init
  <2>4. run \in [Runs -> {"idle", "waiting", "done", "failed", "cancelled"}]
    BY DEF Init
  <2>5. request \in [Requests -> {"idle", "waiting", "answered", "fallback"}]
    BY DEF Init
  <2>6. ran \in [Runs -> {"no", "ok", "failed"}]
    BY DEF Init
  <2>. QED
    BY <1>2, <2>1, <2>2, <2>3, <2>4, <2>5, <2>6, Zenon DEF Init, TypeOK
<1>4. ASSUME NEW r \in Runs
      PROVE  RunFacts(r)
  BY NoMessage DEF Init, RunFacts, Alone, Underway
<1>5. Binding
  BY NoMessage DEF Init, Binding
<1>. QED
  BY <1>1, <1>3, <1>4, <1>5 DEF IInv

(* Every step keeps it. *)
LEMMA NextInvariant == IInv /\ [Next]_vars => IInv'
<1>. SUFFICES ASSUME IInv, Next \/ UNCHANGED vars
              PROVE  IInv'
  OBVIOUS
<1>1. PairingProofs!IInv'
  BY PairingStays, PairingShape DEF IInv
<1>2. TypeOK'
  BY <1>1, TypesStay DEF IInv
<1>3. ASSUME NEW r \in Runs
      PROVE  RunFacts(r)'
  <2>1. CASE ControllerStep
    BY <2>1, ControllerRunFacts DEF IInv
  <2>2. CASE LiveStep
    BY <2>2, LiveRunFacts DEF IInv
  <2>3. CASE GoesQuiet \/ UNCHANGED vars
    BY <2>3, NothingMoves DEF GoesQuiet, vars, controllerVars, pairVars, cryptoVars, liveVars, IInv,
       RunFacts, Alone
  <2>4. CASE SignaturesLapse
    <3>1. /\ Len(up') = Len(up)
          /\ \A i \in 1..Len(up) : up'[i] = StepCommand(r) => up[i] = StepCommand(r)
      <4>1. DOMAIN up = 1..Len(up)
        BY LenProperties DEF IInv, TypeOK
      <4>2. [i \in DOMAIN up |-> IF up[i] \in SignedMessage THEN Lapsed ELSE up[i]] \in [DOMAIN up -> UpMessage]
        BY LenProperties, ElementOfSeq, MessageTypes DEF IInv, TypeOK
      <4>3. Len(up') = Len(up)
        BY <2>4, <4>2, MapMessages DEF SignaturesLapse, IInv, TypeOK
      <4>. QED
        BY <2>4, <4>1, <4>3, Commands DEF SignaturesLapse
    <3>2. /\ On(up', StepCommand(r)) => On(up, StepCommand(r))
          /\ Once(up', StepCommand(r))
      BY <3>1 DEF On, Once, IInv, RunFacts, Alone
    <3>. QED
      BY <2>4, <3>2, NothingMoves DEF SignaturesLapse, liveVars, IInv, RunFacts, Alone
  <2>. QED
    BY <2>1, <2>2, <2>3, <2>4 DEF Next
<1>4. Binding'
  BY BindingStays DEF IInv
<1>. QED
  BY <1>1, <1>2, <1>3, <1>4 DEF IInv

(* The invariant holds of every reachable state. *)
THEOREM Invariance == Spec => []IInv
BY InitInvariant, NextInvariant, PTL DEF Spec

(* Type correctness. *)
THEOREM TypeCorrect == Spec => []TypeOK
<1>1. IInv => TypeOK
  BY DEF IInv
<1>. QED
  BY <1>1, Invariance, PTL

(***************************************************************************)
(* A controller is bound only to a live tab that accepted its very         *)
(* session, through any number of losses, rebindings and late accepts      *)
(* (controller-channel.tsx:207-225; pairing-manager.ts:318-345).           *)
(***************************************************************************)
THEOREM BoundOnlyIfAccepted == Spec => []BoundToAccepter
<1>1. IInv => BoundToAccepter
  BY DEF IInv, TypeOK, Binding, BoundToAccepter
<1>. QED
  BY <1>1, Invariance, PTL

(***************************************************************************)
(* The session implements RemoteRuns: for any number of runs and messages, *)
(* a run is replayed at most once and only if the reader started it, and   *)
(* is shown as done only if that very run succeeded; late completions,     *)
(* cancellations, lapsed signatures and tabs that go away revise no        *)
(* verdict (controller-channel.tsx:238-270; live-tab-executor.ts:205-301). *)
(***************************************************************************)
THEOREM PromiseKept == Spec => KeepsPromise
<1>1. Init => Promise!Init
  BY DEF Init, Promise!Init
<1>2. IInv /\ [Next]_vars => [Promise!Next]_<<run, ran>>
  BY StepKeepsPromise DEF IInv
<1>. QED
  BY <1>1, <1>2, Invariance, PTL DEF Spec, KeepsPromise, Promise!Spec

(***************************************************************************)
(* The docs are not lost to a hand-off: a takeover remembers a docked      *)
(* sidebar, a second one keeps that memory, and the memory ends only when  *)
(* the sidebar is open or its place is taken                               *)
(* (live-tab-executor.ts:390-400).                                         *)
(***************************************************************************)
THEOREM SidebarRemembered == Spec => HandOffIsRemembered
<1>1. TypeOK /\ [Next]_vars
        => [sidebar = "docked" \/ handedOff => sidebar' # "closed" \/ handedOff' \/ SidebarMoves]_vars
  <2>. SUFFICES ASSUME TypeOK, Next, sidebar = "docked" \/ handedOff, ~SidebarMoves
                PROVE  sidebar' # "closed" \/ handedOff'
    OBVIOUS
  <2>1. CASE AuthorizeClose
    BY <2>1 DEF AuthorizeClose, SidebarMounted
  <2>2. CASE AuthorizeReopen
    <3>1. CASE handedOff /\ sidebar # "taken"
      BY <2>2, <3>1 DEF AuthorizeReopen, Opened
    <3>2. CASE ~(handedOff /\ sidebar # "taken")
      BY <2>2, <3>2 DEF AuthorizeReopen
    <3>. QED
      BY <3>1, <3>2
  <2>3. CASE UNCHANGED <<sidebar, handedOff>>
    <3>1. sidebar = "docked" => sidebar' # "closed"
      BY <2>3
    <3>2. handedOff => handedOff'
      BY <2>3
    <3>. QED
      BY <3>1, <3>2
  <2>. QED
    BY <2>1, <2>2, <2>3
    DEF Next, ControllerStep, LiveStep, OpenController, KeysReady, Tick, CloseTab, Unmount,
        BindLive, ReceiveBeat, Signed, StartRun, CancelRun, ReceiveComplete, StartRequest,
        RequestTimesOut, ReceiveAnswer, ReceiveAccept, ReceivePing, ReceiveChallenge, ReceiveLapsed,
        AnnounceAccept, PairingStep, LiveGone, ReceiveSigned, AuthorizeCommand, AuthorizeRequest,
        FinishRequest, FinishReplay, GoesQuiet, SignaturesLapse, liveVars
<1>. QED
  BY <1>1, TypeCorrect, PTL DEF Spec, HandOffIsRemembered

=============================================================================
