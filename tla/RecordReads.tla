------------------------------ MODULE RecordReads ------------------------------
(***************************************************************************)
(* What the backend promises those who ask for a namespace's completion    *)
(* records, whatever it caches and however it refreshes: an answer covers  *)
(* what was known when it was asked for, and whoever is answered without   *)
(* waiting is told what is known or, if nothing is, of a failure that is   *)
(* everybody's.  The failure of one request's identity never outlives the  *)
(* wait it belongs to.                                                     *)
(***************************************************************************)
EXTENDS Integers

CONSTANTS
  Callers,
  MaxRecords,
  Failures,
  Shared       \* the failures of the namespace, not of a request

VARIABLES
  records,     \* how many there are
  known,       \* how many the backend can tell of, None before the first time
  asking,      \* who waits for an answer
  asked,       \* per caller: what was known when it asked last
  told         \* per caller: its last answer

reads == <<records, known, asking, asked, told>>

None == -1
Answer(index, err) == [index |-> index, err |-> err]

Init ==
  /\ records \in 0..MaxRecords /\ known = None /\ asking = {}
  /\ asked = [c \in Callers |-> None]
  /\ told = [c \in Callers |-> Answer(None, "none")]

Asks(c) ==
  /\ c \notin asking
  /\ asked' = [asked EXCEPT ![c] = known]
  /\ UNCHANGED <<records, known>>

AnswerNow(c) ==
  /\ Asks(c) /\ UNCHANGED asking
  /\ \/ known # None /\ told' = [told EXCEPT ![c] = Answer(known, "none")]
     \/ known = None /\ \E err \in Shared : told' = [told EXCEPT ![c] = Answer(None, err)]

Wait(c) ==
  /\ Asks(c) /\ asking' = asking \cup {c}
  /\ told' = [told EXCEPT ![c] = Answer(None, "none")]

Learn(k) ==
  /\ known <= k /\ k <= records
  /\ known' = k
  /\ UNCHANGED <<records, asking, asked, told>>

Tell(callers, answer) ==
  /\ callers \subseteq asking /\ asking' = asking \ callers
  /\ told' = [c \in Callers |-> IF c \in callers THEN answer ELSE told[c]]
  /\ UNCHANGED <<records, known, asked>>

(* One answer for all who wait for it, with an index or a failure or both.   *)
Reply(callers, index, err) ==
  /\ \A c \in callers : asked[c] <= index
  /\ index <= known /\ (index # None \/ err # "none")
  /\ Tell(callers, Answer(index, err))

Cancel(c) == Tell({c}, Answer(None, "cancelled"))

AddRecord ==
  /\ records < MaxRecords /\ records' = records + 1
  /\ UNCHANGED <<known, asking, asked, told>>

Next ==
  \/ \E c \in Callers : AnswerNow(c) \/ Wait(c) \/ Cancel(c)
  \/ \E callers \in SUBSET Callers, index \in {None} \cup 0..MaxRecords,
        err \in Failures \cup {"none"} : Reply(callers, index, err)
  \/ \E k \in 0..MaxRecords : Learn(k)
  \/ AddRecord

Spec == Init /\ [][Next]_reads

=============================================================================
