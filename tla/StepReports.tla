----------------------------- MODULE StepReports -----------------------------
(***************************************************************************)
(* What the control plane can be sent about one workspace, over its        *)
(* successive starts: the promise gigo_ws_init.py makes through            *)
(* initialize_workspace, update_step, download_extension and               *)
(* relay_failure, with no detail of how the steps are carried out.         *)
(*                                                                         *)
(* Starts do not overlap.  A start follows a plan: the fresh steps 1-5 or  *)
(* the reload step 14, then a tail (containers, executions, editor) that   *)
(* is the same for every start of the workspace.  A start reports the      *)
(* steps of its plan in order, asks ws/init before reporting step 1 and    *)
(* ws/ext before reporting step 11.  A request that fails ends the         *)
(* progress of the start: only relays follow.  A relay names the step in   *)
(* progress or an earlier one.  Once step 3 (the workspace config is       *)
(* persisted) has been acknowledged, no later start is a fresh one.        *)
(* A start may end at any moment (the workspace is stopped).               *)
(***************************************************************************)
EXTENDS Naturals, Sequences

CONSTANTS
  MaxRuns,  \* number of starts
  Tails     \* the plans after the branch that the configuration allows

VARIABLES
  tail,   \* the tail of every plan of this workspace
  plan,   \* plan[r]: the steps start r reports, in order
  run,    \* the current (or last) start
  phase,  \* "idle", "progress" or "failing"
  log     \* every request sent: [run, op, step, ok]

avars == <<tail, plan, run, phase, log>>

Runs == 1..MaxRuns
Steps == {1, 2, 3, 4, 5, 6, 7, 8, 9, 10, 11, 12, 14}
FreshSteps == <<1, 2, 3, 4, 5>>

RunLog(r) == SelectSeq(log, LAMBDA c : c.run = r)
Answered(r, op) == \E i \in DOMAIN RunLog(r) : RunLog(r)[i].op = op /\ RunLog(r)[i].ok
Reported(r) == Len(SelectSeq(RunLog(r), LAMBDA c : c.op = "step"))
NextStep == plan[run][Reported(run) + 1]
(* The step in progress: the next one to report, or the last one.        *)
Current ==
  plan[run][IF Reported(run) < Len(plan[run]) THEN Reported(run) + 1
            ELSE Len(plan[run])]
(* Reload (14) stands in for the fresh steps 1-5.                         *)
Rank(k) == IF k = 14 THEN 5 ELSE k
ToldPersisted ==
  \E i \in DOMAIN log : log[i].op = "step" /\ log[i].step = 3 /\ log[i].ok

(* A request is sent; a failed one leaves only relays to follow, and the *)
(* start may end with it.                                                 *)
Send(op, k, ok) ==
  /\ log' = Append(log, [run |-> run, op |-> op, step |-> k, ok |-> ok])
  /\ phase' \in IF ok THEN {"progress", "idle"} ELSE {"failing", "idle"}
  /\ UNCHANGED <<tail, plan, run>>

-----------------------------------------------------------------------------
Init ==
  /\ tail \in Tails
  /\ plan = [r \in Runs |-> <<>>]
  /\ run = 0
  /\ phase = "idle"
  /\ log = <<>>

Start ==
  /\ phase = "idle"
  /\ run < MaxRuns
  /\ \E fresh \in BOOLEAN :
       /\ fresh => ~ToldPersisted
       /\ plan' = [plan EXCEPT ![run + 1] =
                     (IF fresh THEN FreshSteps ELSE <<14>>) \o tail]
  /\ run' = run + 1
  /\ phase' \in {"progress", "idle"}
  /\ UNCHANGED <<tail, log>>

RequestInit ==
  /\ phase = "progress"
  /\ plan[run][1] = 1
  /\ RunLog(run) = <<>>
  /\ \E ok \in BOOLEAN : Send("init", 1, ok)

RequestExtension ==
  /\ phase = "progress"
  /\ Reported(run) > 0
  /\ plan[run][Reported(run)] = 10
  /\ ~\E i \in DOMAIN RunLog(run) : RunLog(run)[i].op = "ext"
  /\ \E ok \in BOOLEAN : Send("ext", 11, ok)

Acknowledge ==
  /\ phase = "progress"
  /\ Reported(run) < Len(plan[run])
  /\ NextStep = 1 => Answered(run, "init")
  /\ NextStep = 11 => Answered(run, "ext")
  /\ \E ok \in BOOLEAN : Send("step", NextStep, ok)

RelayFailure ==
  /\ phase # "idle"
  /\ \E k \in Steps, ok \in BOOLEAN :
       /\ Rank(k) <= Rank(Current)
       /\ log' = Append(log, [run |-> run, op |-> "fail", step |-> k, ok |-> ok])
       /\ phase' \in IF ok THEN {"idle"} ELSE {"failing", "idle"}
  /\ UNCHANGED <<tail, plan, run>>

Stop ==
  /\ phase # "idle"
  /\ phase' = "idle"
  /\ UNCHANGED <<tail, plan, run, log>>

Next ==
  \/ Start \/ RequestInit \/ RequestExtension \/ Acknowledge
  \/ RelayFailure \/ Stop

Spec == Init /\ [][Next]_avars
==============================================================================
