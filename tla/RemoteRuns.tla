------------------------------ MODULE RemoteRuns ------------------------------
(***************************************************************************)
(* What a controller tab promises the reader of a guide about the steps it *)
(* runs on another tab, whatever happens to messages and tabs in between:  *)
(* a run is replayed at most once, only after the reader started it, and   *)
(* is reported as done only if its own replay succeeded.  A run may be     *)
(* reported as failed, or be cancelled, whatever its replay did or will    *)
(* do, and a reported verdict is final.                                    *)
(***************************************************************************)
CONSTANT Runs

VARIABLES
  run,    \* what the controller tab shows of each run
  ran     \* what happened to each run on the live tab

Shown == {"idle", "waiting", "done", "failed", "cancelled"}
Replayed == {"no", "ok", "failed"}

Init ==
  /\ run = [r \in Runs |-> "idle"]
  /\ ran = [r \in Runs |-> "no"]

Start(r) ==
  /\ run[r] = "idle"
  /\ run' = [run EXCEPT ![r] = "waiting"]
  /\ UNCHANGED ran

Replay(r, outcome) ==
  /\ run[r] # "idle"
  /\ ran[r] = "no"
  /\ ran' = [ran EXCEPT ![r] = outcome]
  /\ UNCHANGED run

Finish(r) ==
  /\ run[r] = "waiting"
  /\ ran[r] = "ok"
  /\ run' = [run EXCEPT ![r] = "done"]
  /\ UNCHANGED ran

(* Runs are given up together when the live tab goes quiet, or one by one. *)
GiveUp(rs, verdict) ==
  /\ \A r \in rs : run[r] = "waiting"
  /\ run' = [r \in Runs |-> IF r \in rs THEN verdict ELSE run[r]]
  /\ UNCHANGED ran

Next ==
  \/ \E r \in Runs : Start(r) \/ Finish(r) \/ \E outcome \in {"ok", "failed"} : Replay(r, outcome)
  \/ \E rs \in SUBSET Runs, verdict \in {"failed", "cancelled"} : GiveUp(rs, verdict)

Spec == Init /\ [][Next]_<<run, ran>>

=============================================================================
