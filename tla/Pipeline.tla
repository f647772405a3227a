------------------------------ MODULE Pipeline ------------------------------
(***************************************************************************)
(* The provisioning script gigo_ws_init.py, run on every start of a        *)
(* workspace.  One run is a strictly sequential walk over the numbered     *)
(* steps; each step either reports success (update_step) or reports a      *)
(* failure (relay_failure) and exits.  What survives a run is the local    *)
(* disk (ws-config.json, .gitconfig, the checkout, containers, editor) and *)
(* what the control plane was told.  A run may also be killed at any point *)
(* (the workspace is stopped).  Shell commands, file writes and HTTP calls *)
(* are abstracted to their outcomes; an HTTP call that raises may or may   *)
(* not have reached the control plane.                                     *)
(***************************************************************************)
EXTENDS Naturals, Sequences, SequencesExt

CONSTANTS
  MaxRuns,          \* number of starts of the workspace explored
  ContainerChoices, \* CONTAINER_COMPOSE is a real definition (no sentinel)
  VSCodeChoices,    \* USE_VSCODE
  ParseChoices,     \* SHELL_EXECUTIONS is valid JSON
  ExecChoices,      \* the "init" keys of the SHELL_EXECUTIONS entries:
                    \* "init", "always" or "missing"
  ExtChoices        \* Len(VSCODE_EXTENSIONS)

ASSUME MaxRuns \in Nat \ {0}

VARIABLES
  conf,         \* the templated constants stamped into this copy
  marker,       \* /home/gigo/.gigo/ws-config.json: "absent","partial","full"
  repo,         \* WORKING_DIRECTORY: "none", "cloned", "checkedout"
  applied,      \* other effects ever made on the workspace
  extInstalled, \* indices of VSCODE_EXTENSIONS ever installed
  executed,     \* history: <<r, i>> once run r executed SHELL_EXECUTIONS[i]
  run,          \* number of the current (or last) run
  pc,           \* program point of the current run
  initialized,  \* initialized[r]: has_initialized of run r
  idx,          \* index of the running for loop
  pending,      \* the relay_failure call the run is about to make
  calls,        \* history: every control-plane request, in order
  outcome       \* outcome[r]: how run r ended

disk == <<marker, repo, applied, extInstalled, executed>>
vars == <<conf, disk, run, pc, initialized, idx, pending, calls, outcome>>

Runs == 1..MaxRuns
Steps == {1, 2, 3, 4, 5, 6, 7, 8, 9, 10, 11, 12, 14}
Effects == {"gitconfig", "ctrdir", "compose", "ctrup", "editor", "gigoext"}
Call == [run : Runs, op : {"init", "step", "fail", "ext"}, step : Steps,
         ok : BOOLEAN, delivered : BOOLEAN]
Outcomes ==
  {"none", "running", "done", "exit0", "exit1", "exit2", "uncaught", "crashed"}

(* A request that succeeded; one that raised, delivered or lost.           *)
Request(op, k, ok, dlv) ==
  calls' = Append(calls, [run |-> run, op |-> op, step |-> k,
                          ok |-> ok, delivered |-> dlv])
Reached(op, k) == Request(op, k, TRUE, TRUE)
Failed(op, k) == \E dlv \in BOOLEAN : Request(op, k, FALSE, dlv)

(* Call relay_failure next; inTry: the call sits inside a try whose        *)
(* except clause relays again; code: the argument of the exit() after it.  *)
Relay(k, inTry, code) ==
  /\ pc' = "relay"
  /\ pending' = [step |-> k, inTry |-> inTry, code |-> code]

End(o) == pc' = "idle" /\ outcome' = [outcome EXCEPT ![run] = o]

-----------------------------------------------------------------------------
Init ==
  /\ conf \in [containers : ContainerChoices, vscode : VSCodeChoices,
               parses : ParseChoices, execs : ExecChoices, exts : ExtChoices]
  /\ marker = "absent"
  /\ repo = "none"
  /\ applied = {}
  /\ extInstalled = {}
  /\ executed = {}
  /\ run = 0
  /\ pc = "idle"
  /\ initialized = [r \in Runs |-> FALSE]
  /\ idx = 1
  /\ pending = [step |-> 1, inTry |-> FALSE, code |-> 1]
  /\ calls = <<>>
  /\ outcome = [r \in Runs |-> "none"]

(* has_been_initialized: os.path.exists of ws-config.json, whatever its   *)
(* content.                                                               *)
HasBeenInitialized == marker # "absent"

(* __main__: has_been_initialized() picks the branch.                     *)
StartRun ==
  /\ pc = "idle"
  /\ run < MaxRuns
  /\ run' = run + 1
  /\ initialized' = [initialized EXCEPT ![run + 1] = HasBeenInitialized]
  /\ pc' = IF HasBeenInitialized THEN "reload" ELSE "init"
  /\ outcome' = [outcome EXCEPT ![run + 1] = "running"]
  /\ UNCHANGED <<conf, disk, idx, pending, calls>>

(* parser.parse_args() at import time: without --workspace-id argparse    *)
(* exits with status 2 before anything else runs.  initialized records    *)
(* what has_been_initialized would have returned.                         *)
MissingWorkspaceId ==
  /\ pc = "idle"
  /\ run < MaxRuns
  /\ run' = run + 1
  /\ initialized' = [initialized EXCEPT ![run + 1] = HasBeenInitialized]
  /\ outcome' = [outcome EXCEPT ![run + 1] = "exit2"]
  /\ UNCHANGED <<conf, disk, pc, idx, pending, calls>>

(* try: update_step(k) except: relay_failure(relayStep, ...); exit(1)     *)
AdvanceStep(at, k, relayStep, next) ==
  /\ pc = at
  /\ \/ Reached("step", k) /\ pc' = next /\ UNCHANGED pending
     \/ Failed("step", k) /\ Relay(relayStep, FALSE, 1)
  /\ UNCHANGED <<conf, disk, run, initialized, idx, outcome>>

(* relay_failure, then exit(code).  If the request raises inside a try,   *)
(* its except clause relays once more; inside an except clause the error  *)
(* escapes and the interpreter exits with status 1.                       *)
RelayFailure ==
  /\ pc = "relay"
  /\ \/ /\ Reached("fail", pending.step)
        /\ End(IF pending.code = 0 THEN "exit0" ELSE "exit1")
        /\ UNCHANGED pending
     \/ /\ Failed("fail", pending.step)
        /\ pending.inTry
        /\ pending' = [pending EXCEPT !.inTry = FALSE, !.code = 1]
        /\ UNCHANGED <<pc, outcome>>
     \/ /\ Failed("fail", pending.step)
        /\ ~pending.inTry
        /\ End("uncaught")
        /\ UNCHANGED pending
  /\ UNCHANGED <<conf, disk, run, initialized, idx>>

(* initialize_workspace: POST ws/init; without data the error re-raises.  *)
InitializeWorkspace ==
  /\ pc = "init"
  /\ \/ Reached("init", 1) /\ pc' = "adv1" /\ UNCHANGED outcome
     \/ Failed("init", 1) /\ End("uncaught")
  /\ UNCHANGED <<conf, disk, run, initialized, idx, pending>>

(* write_gitconfig: write /home/gigo/.gitconfig.                          *)
WriteGitconfig ==
  /\ pc = "gitconfig"
  /\ \/ applied' = applied \cup {"gitconfig"} /\ pc' = "adv2"
        /\ UNCHANGED pending
     \/ Relay(2, FALSE, 1) /\ UNCHANGED applied
  /\ UNCHANGED <<conf, marker, repo, extInstalled, executed, run, initialized,
                 idx, calls, outcome>>

(* write_workspace_config: open() truncates the file before json.dump     *)
(* fills it, so a failing dump leaves a partial file behind.              *)
WriteWorkspaceConfig ==
  /\ pc = "persist"
  /\ \/ marker' = "full" /\ pc' = "adv3" /\ UNCHANGED pending
     \/ marker' = marker /\ Relay(3, FALSE, 1)
     \/ marker' = "partial" /\ Relay(3, FALSE, 1)
  /\ UNCHANGED <<conf, repo, applied, extInstalled, executed, run, initialized,
                 idx, calls, outcome>>

(* Mutation: the status of git clone is not checked.                     *)
CloneRepoUnchecked ==
  /\ pc = "clone"
  /\ \/ repo' = "cloned" /\ pc' = "adv4" /\ UNCHANGED <<pending, outcome>>
     \/ repo' = repo /\ pc' = "adv4" /\ UNCHANGED <<pending, outcome>>
     \/ repo' \in {repo, "cloned"} /\ End("uncaught") /\ UNCHANGED pending
  /\ UNCHANGED <<conf, marker, applied, extInstalled, executed, run,
                 initialized, idx, calls>>

(* clone_repo, first half: execute_command is outside any try, so an      *)
(* exception from it (launch or decode failure) escapes uncaught.         *)
CloneRepo ==
  /\ pc = "clone"
  /\ \/ repo' = "cloned" /\ pc' = "adv4" /\ UNCHANGED <<pending, outcome>>
     \/ repo' = repo /\ Relay(4, FALSE, 1) /\ UNCHANGED outcome
     \/ repo' \in {repo, "cloned"} /\ End("uncaught") /\ UNCHANGED pending
  /\ UNCHANGED <<conf, marker, applied, extInstalled, executed, run,
                 initialized, idx, calls>>

(* clone_repo, second half: git checkout of the configured commit.        *)
Checkout ==
  /\ pc = "checkout"
  /\ \/ repo' = "checkedout" /\ pc' = "adv5" /\ UNCHANGED <<pending, outcome>>
     \/ repo' = repo /\ Relay(5, FALSE, 1) /\ UNCHANGED outcome
     \/ repo' \in {repo, "checkedout"} /\ End("uncaught") /\ UNCHANGED pending
  /\ UNCHANGED <<conf, marker, applied, extInstalled, executed, run,
                 initialized, idx, calls>>

(* __main__, initialized branch: json.load of ws-config.json.  When it    *)
(* raises, the except clause reads ws_config, which is unbound: NameError. *)
ReloadConfig ==
  /\ pc = "reload"
  /\ \/ marker = "full" /\ pc' = "adv14" /\ UNCHANGED outcome
     \/ marker = "partial" /\ End("uncaught")
  /\ UNCHANGED <<conf, disk, run, initialized, idx, pending, calls>>

(* handle_containers: skipped when CONTAINER_COMPOSE keeps its sentinel;  *)
(* otherwise os.makedirs of the containers directory.                     *)
HandleContainers ==
  /\ pc = "containers"
  /\ \/ ~conf.containers /\ pc' = "execs" /\ UNCHANGED <<applied, pending>>
     \/ /\ conf.containers
        /\ applied' = applied \cup {"ctrdir"} /\ pc' = "adv6"
        /\ UNCHANGED pending
     \/ conf.containers /\ Relay(6, FALSE, 1) /\ UNCHANGED applied
  /\ UNCHANGED <<conf, marker, repo, extInstalled, executed, run, initialized,
                 idx, calls, outcome>>

(* handle_containers: write docker-compose.yml.                           *)
WriteCompose ==
  /\ pc = "compose"
  /\ \/ applied' = applied \cup {"compose"} /\ pc' = "adv7" /\ UNCHANGED pending
     \/ Relay(7, FALSE, 1) /\ UNCHANGED applied
  /\ UNCHANGED <<conf, marker, repo, extInstalled, executed, run, initialized,
                 idx, calls, outcome>>

(* handle_containers: docker-compose up -d, outside any try.              *)
ContainersUp ==
  /\ pc = "up"
  /\ \/ applied' = applied \cup {"ctrup"} /\ pc' = "adv8"
        /\ UNCHANGED <<pending, outcome>>
     \/ Relay(8, FALSE, 1) /\ UNCHANGED <<applied, outcome>>
     \/ applied' \in {applied, applied \cup {"ctrup"}} /\ End("uncaught")
        /\ UNCHANGED pending
  /\ UNCHANGED <<conf, marker, repo, extInstalled, executed, run, initialized,
                 idx, calls>>

(* Mutation: the loop over the executions starts one index early.        *)
LoadExecutionsFromZero ==
  /\ pc = "execs"
  /\ \/ conf.parses /\ pc' = "cmd" /\ idx' = 0 /\ UNCHANGED pending
     \/ ~conf.parses /\ Relay(9, FALSE, 0) /\ UNCHANGED idx
  /\ UNCHANGED <<conf, disk, run, initialized, calls, outcome>>

(* handle_user_executions: json.loads(SHELL_EXECUTIONS); on failure the   *)
(* failure is relayed and the script calls exit(0).                       *)
LoadExecutions ==
  /\ pc = "execs"
  /\ \/ conf.parses /\ pc' = "cmd" /\ idx' = 1 /\ UNCHANGED pending
     \/ ~conf.parses /\ Relay(9, FALSE, 0) /\ UNCHANGED idx
  /\ UNCHANGED <<conf, disk, run, initialized, calls, outcome>>

Executed(i) == executed' = executed \cup {<<run, i>>}

(* Mutation: the "continue" for init-only entries is missing.             *)
SkipExecutionMissing(i) == FALSE

(* if initialized and shell_execution["init"]: continue                   *)
SkipExecution(i) == initialized[run] /\ conf.execs[i] = "init"

(* The same test on an entry without an "init" key raises KeyError, and   *)
(* it sits outside the try: only on an initialized workspace, since the   *)
(* "and" does not evaluate its right side otherwise.                      *)
InitKeyError(i) == initialized[run] /\ conf.execs[i] = "missing"

(* handle_user_executions, one iteration: an init-only entry is skipped   *)
(* on an initialized workspace; a non-zero status is relayed inside the   *)
(* try, an exception from execute_command in its except clause.  A        *)
(* raising execute_command may or may not have run the command.           *)
UserExecution ==
  /\ pc = "cmd"
  /\ idx <= Len(conf.execs)
  /\ \/ /\ SkipExecution(idx)
        /\ idx' = idx + 1 /\ UNCHANGED <<executed, pc, pending, outcome>>
     \/ /\ InitKeyError(idx)
        /\ End("uncaught") /\ UNCHANGED <<executed, idx, pending>>
     \/ /\ ~SkipExecution(idx) /\ ~InitKeyError(idx) /\ UNCHANGED outcome
        /\ \/ Executed(idx) /\ idx' = idx + 1 /\ UNCHANGED <<pc, pending>>
           \/ Executed(idx) /\ Relay(9, TRUE, 1) /\ UNCHANGED idx
           \/ /\ executed' \in {executed, executed \cup {<<run, idx>>}}
              /\ Relay(9, FALSE, 1) /\ UNCHANGED idx
  /\ UNCHANGED <<conf, marker, repo, applied, extInstalled, run, initialized,
                 calls>>

(* handle_vscode: skipped when USE_VSCODE is false (the script then ends  *)
(* normally); otherwise the code-server install, whose update_step(10)    *)
(* sits in the same try.                                                  *)
InstallEditor ==
  /\ pc = "vscode"
  /\ \/ ~conf.vscode /\ End("done") /\ UNCHANGED <<applied, idx, pending>>
     \/ /\ conf.vscode
        /\ applied' = applied \cup {"editor"} /\ pc' = "adv10" /\ idx' = 1
        /\ UNCHANGED <<pending, outcome>>
     \/ conf.vscode /\ Relay(10, TRUE, 1)
        /\ UNCHANGED <<applied, idx, outcome>>
     \/ /\ conf.vscode /\ applied' \in {applied, applied \cup {"editor"}}
        /\ Relay(10, FALSE, 1) /\ UNCHANGED <<idx, outcome>>
  /\ UNCHANGED <<conf, marker, repo, extInstalled, executed, run, initialized,
                 calls>>

(* handle_vscode, one iteration over VSCODE_EXTENSIONS.                   *)
InstallExtension ==
  /\ pc = "ext"
  /\ idx <= conf.exts
  /\ \/ extInstalled' = extInstalled \cup {idx} /\ idx' = idx + 1
        /\ UNCHANGED <<pc, pending>>
     \/ Relay(11, TRUE, 1) /\ UNCHANGED <<extInstalled, idx>>
     \/ /\ extInstalled' \in {extInstalled, extInstalled \cup {idx}}
        /\ Relay(11, FALSE, 1) /\ UNCHANGED idx
  /\ UNCHANGED <<conf, marker, repo, applied, executed, run, initialized,
                 calls, outcome>>

(* handle_vscode after the loop: download_extension (POST ws/ext).        *)
DownloadExtension ==
  /\ pc = "ext"
  /\ idx > conf.exts
  /\ \/ Reached("ext", 11) /\ pc' = "gigoext" /\ UNCHANGED pending
     \/ Failed("ext", 11) /\ Relay(11, FALSE, 1)
  /\ UNCHANGED <<conf, disk, run, initialized, idx, outcome>>

(* handle_vscode: install /tmp/gigo-developer.vsix.                       *)
InstallGigoExtension ==
  /\ pc = "gigoext"
  /\ \/ applied' = applied \cup {"gigoext"} /\ pc' = "adv11"
        /\ UNCHANGED pending
     \/ Relay(11, TRUE, 1) /\ UNCHANGED applied
     \/ applied' \in {applied, applied \cup {"gigoext"}} /\ Relay(11, FALSE, 1)
  /\ UNCHANGED <<conf, marker, repo, extInstalled, executed, run, initialized,
                 idx, calls, outcome>>

(* handle_vscode: execute_command("code-server ...") blocks while the     *)
(* editor serves; it raises at once when the shell cannot be launched.    *)
LaunchEditor ==
  /\ pc = "launch"
  /\ \/ pc' = "serving" /\ UNCHANGED pending
     \/ Relay(12, FALSE, 1)
  /\ UNCHANGED <<conf, disk, run, initialized, idx, calls, outcome>>

(* The code-server process exits: status 0 ends the script normally.      *)
EditorExits ==
  /\ pc = "serving"
  /\ \/ End("done") /\ UNCHANGED pending
     \/ Relay(12, TRUE, 1) /\ UNCHANGED outcome
     \/ Relay(12, FALSE, 1) /\ UNCHANGED outcome
  /\ UNCHANGED <<conf, disk, run, initialized, idx, calls>>

(* The workspace is stopped while the script runs: the process is killed; *)
(* killed inside write_workspace_config, the file may be left truncated.  *)
Crash ==
  /\ pc # "idle"
  /\ marker' \in IF pc = "persist" THEN {marker, "partial"} ELSE {marker}
  /\ End("crashed")
  /\ UNCHANGED <<conf, repo, applied, extInstalled, executed, run, initialized,
                 idx, pending, calls>>

(* Every start of the workspace has been explored.                        *)
Finished ==
  /\ pc = "idle"
  /\ run = MaxRuns
  /\ UNCHANGED vars

(* The update_step call sites, each with the step its except clause      *)
(* relays.                                                                *)
AdvanceInit == AdvanceStep("adv1", 1, 1, "gitconfig")
AdvanceGitconfig == AdvanceStep("adv2", 2, 2, "persist")
AdvanceWorkspaceConfig == AdvanceStep("adv3", 3, 3, "clone")
AdvanceClone == AdvanceStep("adv4", 4, 4, "checkout")
(* Mutation: the checkout reports the clone's step number.                *)
AdvanceCheckoutAsClone == AdvanceStep("adv5", 4, 5, "containers")
AdvanceCheckout == AdvanceStep("adv5", 5, 5, "containers")
AdvanceReload == AdvanceStep("adv14", 14, 14, "containers")
AdvanceContainerDir == AdvanceStep("adv6", 6, 6, "compose")
AdvanceCompose == AdvanceStep("adv7", 7, 7, "up")
AdvanceContainersUp == AdvanceStep("adv8", 8, 8, "execs")
AdvanceExecutions == idx > Len(conf.execs) /\ AdvanceStep("cmd", 9, 8, "vscode")
AdvanceEditor == AdvanceStep("adv10", 10, 10, "ext")
AdvanceExtensions == AdvanceStep("adv11", 11, 11, "adv12")
AdvanceLaunch == AdvanceStep("adv12", 12, 12, "launch")

Next ==
  \/ StartRun \/ MissingWorkspaceId
  \/ InitializeWorkspace \/ AdvanceInit
  \/ WriteGitconfig \/ AdvanceGitconfig
  \/ WriteWorkspaceConfig \/ AdvanceWorkspaceConfig
  \/ CloneRepo \/ AdvanceClone
  \/ Checkout \/ AdvanceCheckout
  \/ ReloadConfig \/ AdvanceReload
  \/ HandleContainers \/ AdvanceContainerDir
  \/ WriteCompose \/ AdvanceCompose
  \/ ContainersUp \/ AdvanceContainersUp
  \/ LoadExecutions \/ UserExecution \/ AdvanceExecutions
  \/ InstallEditor \/ AdvanceEditor
  \/ InstallExtension \/ DownloadExtension
  \/ InstallGigoExtension \/ AdvanceExtensions \/ AdvanceLaunch
  \/ LaunchEditor \/ EditorExits
  \/ RelayFailure
  \/ Crash
  \/ Finished

Spec == Init /\ [][Next]_vars

-----------------------------------------------------------------------------
(* Views of the history.                                                  *)
RunCalls(r) == SelectSeq(calls, LAMBDA c : c.run = r)
IsRelay(c) == c.op = "fail"
Relays(r) == SelectSeq(RunCalls(r), IsRelay)
AdvancesOf(r) ==
  LET s == SelectSeq(RunCalls(r), LAMBDA c : c.op = "step")
  IN [i \in DOMAIN s |-> s[i].step]
(* What the control plane received.                                       *)
Received == SelectSeq(calls, LAMBDA c : c.delivered)

(* The steps a run of this configuration reports, in order: the branch,   *)
(* then the tail that every run of the configuration shares.              *)
TailOf(c) ==
  (IF c.containers THEN <<6, 7, 8>> ELSE <<>>)
  \o <<9>>
  \o (IF c.vscode THEN <<10, 11, 12>> ELSE <<>>)
Plan(r) == (IF initialized[r] THEN <<14>> ELSE <<1, 2, 3, 4, 5>>) \o TailOf(conf)

TypeOK ==
  /\ conf \in [containers : BOOLEAN, vscode : BOOLEAN, parses : BOOLEAN,
               execs : ExecChoices, exts : ExtChoices]
  /\ marker \in {"absent", "partial", "full"}
  /\ repo \in {"none", "cloned", "checkedout"}
  /\ applied \subseteq Effects
  /\ extInstalled \subseteq 1..conf.exts
  /\ executed \subseteq Runs \X DOMAIN conf.execs
  /\ run \in 0..MaxRuns
  /\ initialized \in [Runs -> BOOLEAN]
  /\ idx \in 1..(Len(conf.execs) + conf.exts + 1)
  /\ pending \in [step : Steps, inTry : BOOLEAN, code : {0, 1}]
  /\ calls \in Seq(Call)
  /\ outcome \in [Runs -> Outcomes]

(* The control plane's view as an abstract specification: the requests  *)
(* are mapped to StepReports' log, a run is in progress until it sends a  *)
(* failed request or a relay, and idle once it ended.                     *)
RunFailing(r) ==
  \E i \in DOMAIN RunCalls(r) : RunCalls(r)[i].op = "fail" \/ ~RunCalls(r)[i].ok

Reports == INSTANCE StepReports WITH
  Tails <- {TailOf([containers |-> c, vscode |-> v]) :
              c \in ContainerChoices, v \in VSCodeChoices},
  tail <- TailOf(conf),
  plan <- [r \in Runs |-> IF r <= run THEN Plan(r) ELSE <<>>],
  phase <- IF pc = "idle" THEN "idle"
           ELSE IF RunFailing(run) THEN "failing" ELSE "progress",
  log <- [i \in DOMAIN calls |->
            [run |-> calls[i].run, op |-> calls[i].op,
             step |-> calls[i].step, ok |-> calls[i].ok]]

(* Every behaviour of the script, across restarts, crashes and failing    *)
(* requests, is one the control plane was promised (StepReports): the     *)
(* update_step calls of a run follow its plan, ws/init precedes step 1    *)
(* and ws/ext step 11, nothing but relay_failure follows a failed request *)
(* or a relay, a relay never names a step ahead of the one in progress,   *)
(* and no start after an acknowledged step 3 calls ws/init again.         *)
ImplementsStepReports == Reports!Spec

(* The "init" key of SHELL_EXECUTIONS together with has_been_initialized *)
(* across restarts, crashes and failures: an init-only command is         *)
(* executed by at most one run of the script.                             *)
InitOnlyAtMostOnce ==
  \A i \in DOMAIN conf.execs, r1, r2 \in Runs :
    conf.execs[i] = "init" /\ <<r1, i>> \in executed /\ <<r2, i>> \in executed
      => r1 = r2

(* What the control plane believes: every step it received an             *)
(* acknowledgement for (update_step) has really been applied to the       *)
(* workspace, whichever run sent it, including requests that raised on    *)
(* the client after the server had processed them.  Step 9 is per run:    *)
(* the run that reported it executed every command it did not skip.       *)
Acknowledged(c) ==
  CASE c.step = 1 -> \E i \in DOMAIN Received : Received[i].op = "init"
    [] c.step = 2 -> "gitconfig" \in applied
    [] c.step \in {3, 14} -> marker = "full"
    [] c.step = 4 -> repo # "none"
    [] c.step = 5 -> repo = "checkedout"
    [] c.step = 6 -> "ctrdir" \in applied
    [] c.step = 7 -> "compose" \in applied
    [] c.step = 8 -> "ctrup" \in applied
    [] c.step = 9 ->
         \A i \in DOMAIN conf.execs :
           ~(initialized[c.run] /\ conf.execs[i] = "init")
             => <<c.run, i>> \in executed
    [] c.step = 10 -> "editor" \in applied
    [] c.step = 11 -> "gigoext" \in applied /\ extInstalled = 1..conf.exts
    [] OTHER -> TRUE

AcknowledgedStepsApplied ==
  \A i \in DOMAIN Received :
    Received[i].op = "step" => Acknowledged(Received[i])

-----------------------------------------------------------------------------
(* The failure-relay contract of the specification, checked against what  *)
(* the code does.                                                          *)

(* A failed step is relayed at most once: relay_failure is attempted at   *)
(* most once per run, even when the relay request itself raises.          *)
AtMostOneRelayPerRun == \A r \in 1..run : Len(Relays(r)) <= 1

(* Once the secret is known (init answered or ws-config.json loaded), a   *)
(* run that ends in failure has attempted relay_failure.                   *)
SecretKnown(r) ==
  \E i \in DOMAIN RunCalls(r) :
    \/ RunCalls(r)[i].op = "init" /\ RunCalls(r)[i].ok
    \/ RunCalls(r)[i].op = "step"

FailedRunsRelay ==
  \A r \in 1..run :
    outcome[r] \in {"exit1", "uncaught"} /\ SecretKnown(r) => Relays(r) # <<>>

(* When update_step(k) raises, the relay that follows names step k.       *)
RelayNamesFailedStep ==
  \A r \in 1..run :
    LET s == RunCalls(r) IN
    \A i \in 1..(Len(s) - 1) :
      s[i].op = "step" /\ ~s[i].ok => s[i + 1].op = "fail" /\ s[i + 1].step = s[i].step

(* A run whose process exits with status 0 relayed no failure.            *)
CleanExitWithoutRelay ==
  \A r \in 1..run : outcome[r] \in {"done", "exit0"} => Relays(r) = <<>>

(* The user commands run on a checked-out repository: step n+1 never      *)
(* observes step n incomplete, across restarts of the workspace.  Stated  *)
(* at the moment an entry of SHELL_EXECUTIONS is about to be handled.     *)
UserCommandsSeeCheckout == pc = "cmd" /\ idx <= Len(conf.execs) => repo = "checkedout"

(* Only the first control-plane call, before any secret is known, may     *)
(* fail unreported (spec 7); a start that found ws-config.json holds the  *)
(* secret on disk, so when it fails it has told the control plane, by     *)
(* update_step(14) or by relay_failure.                                    *)
ReloadFailuresReported ==
  \A r \in 1..run :
    initialized[r] /\ outcome[r] \in {"exit1", "uncaught"} => RunCalls(r) # <<>>
====
