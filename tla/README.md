# TLA+ models of the gigo workspace provisioning script

The repository's one source file,
`src/workspace_config/resources/gigo_ws_init.py`, is the script that runs on
**every start** of a GIGO workspace. It registers the workspace with the
control plane, writes git credentials and the local workspace config, clones
and checks out the repository, brings up containers, runs user commands, and
installs and launches code-server. Each numbered step reports success
(`update_step`) or reports a failure (`relay_failure`) and exits.

## 1. Inventory

| Component | Code | State it keeps | Operations |
|---|---|---|---|
| Command Executor | `execute_command` (32-62) | two log files (stdout, stderr) and their shared file offset | run the command, wait, tell, seek back 64 KiB, read, decode as UTF-8 |
| Control-Plane Client | `initialize_workspace` request (170-185), `update_step` (128-149), `relay_failure` (96-125), `download_extension` (65-93) | none locally. The server keeps the steps and failures it received | POST ws/init, ws/init-step, ws/init-failure, ws/ext. No retries, no timeouts |
| Persistent Workspace State | `has_been_initialized` (152-159), `write_workspace_config` (248-271), reload in `__main__` (664-677) | `/home/gigo/.gigo/ws-config.json`. Its existence is the "initialized" marker. Also `.gitconfig`, the checkout, the containers directory and compose file, and the editor and extensions | existence check, write (truncate, then dump), `json.load` |
| Provisioning Pipeline | `__main__` (652-695) and the step functions | the branch (`has_initialized`), the loop indices, the secret | steps 1-5 (fresh) or 14 (reload), then 6-8, 9, 10-12 |
| Templated constants | lines 19-29 | `CONTAINER_COMPOSE`, `SHELL_EXECUTIONS`, `USE_VSCODE`, `VSCODE_EXTENSIONS` | stamped in before the script runs. Immutable |

**How the components interact.** The pipeline calls the executor for every
shell command. It calls the client after every step and reads and writes the
persistent state. A run is sequential, and nothing runs concurrently inside it,
with two exceptions:
- the commands the executor starts may leave background processes that still
  hold the log file;
- the workspace can be stopped at any moment, which kills the run.

What connects the runs is the disk. The marker decides the branch of the next
start: steps 1-5 run only when it is absent, and step 14 runs otherwise.

**What makes the code hard.**
- **Restarts.** A run that stops part-way leaves some of its effects on disk,
  and the next start decides from the marker alone what still needs doing.
- **Failure relay.** A relay can be attempted from inside a `try` or from
  inside an `except`. Its own failure is then either caught (and relayed a
  second time) or escapes.
- **Unreliable HTTP.** A request that raises on the client may already have
  been processed by the server.
- **Log tail.** The executor's tell/seek/read races with background writers
  that share the file offset. The 64 KiB byte cut can split a UTF-8 character.

**Properties that make each component correct.**
- Pipeline: in each run, the reported steps follow the plan. Nothing follows a
  failure except its relay. A failed step is relayed exactly once, under its own
  number, and the exit code is 1. Step n+1 never runs on an incomplete step n,
  across restarts too. Init-only commands run at most once.
- Client and server view: every step the control plane received as
  acknowledged is really applied on disk.
- Persistent state: the marker means that steps 1-5 are done.
- Executor: it returns exactly the last 64 KiB of the output, and it never
  raises for output that is valid UTF-8.

## 2. Modules

### `Pipeline.tla` (core), instantiated by `MC_Pipeline.tla`

**State.**
- `conf`: the templated constants, chosen in `Init` from small sets. The "init"
  key of each `SHELL_EXECUTIONS` entry is `"init"`, `"always"` or `"missing"`.
- The disk: `marker` (`absent`/`partial`/`full`), `repo`
  (`none`/`cloned`/`checkedout`), the set `applied` of other effects, and
  `extInstalled`.
- The current run: `run`, `pc`, `initialized[r]`, the loop index `idx`, and
  `pending` (the relay about to be made, whether it sits in a `try`, and the
  exit code that follows it).
- Histories:
  - `calls` holds every control-plane request, with whether it succeeded and
    whether it reached the server;
  - `executed` holds a pair `<<r, i>>` for each run r that executed command i;
  - `outcome[r]` records how run r ended.

**Actions.** There is one action per code segment that ends in an external
outcome: `InitializeWorkspace`, `WriteGitconfig`, `WriteWorkspaceConfig`,
`CloneRepo`, `Checkout`, `ReloadConfig`, `HandleContainers`, `WriteCompose`,
`ContainersUp`, `LoadExecutions`, `UserExecution`, `InstallEditor`,
`InstallExtension`, `DownloadExtension`, `InstallGigoExtension`,
`LaunchEditor` and `EditorExits`.

Each `update_step` call site is a named instance of `AdvanceStep`, which
carries the step that its `except` clause relays. For example,
`AdvanceExecutions` relays step 8, as the code does. `UserExecution` includes
the `KeyError` of line 459 (`InitKeyError`). An entry without an "init" key
raises outside the `try`, but only on an initialized workspace, because the
`and` short-circuits on a fresh one.

Four more actions model the rest:
- `MissingWorkspaceId` is argparse exiting with status 2 at import time, when
  `--workspace-id` is missing. `StartRun` takes the branch from
  `HasBeenInitialized`, which is `os.path.exists` of `ws-config.json` whatever
  its content.
- `RelayFailure` models `relay_failure` followed by `exit()`. If the request
  raises inside a `try`, the `except` clause relays again. If it raises inside
  an `except` clause, the exception escapes.
- `Crash` is the workspace being stopped. A stop inside
  `write_workspace_config` may leave the file truncated.
- `Finished` ends a behaviour after `MaxRuns` starts.

**Outcomes.** A shell command has three outcomes:
- status 0;
- a non-zero status;
- an exception. A raising command may or may not have had its effect: it
  raises before the command runs when `Popen` fails, and after the command
  ended when the decode of its output fails (`Executor`, below).

File operations either succeed or raise. A request either succeeds, or raises
and was or was not delivered.

**Refinement.** `Reports == INSTANCE StepReports WITH ...` maps the `Pipeline`
state onto the abstract view:
- the request history onto the abstract `log`;
- `Plan(r)` onto the abstract `plan`;
- `TailOf(conf)` onto the abstract `tail`;
- the program point and the run's calls onto the abstract `phase`:
  - `idle` when the script is not running;
  - `failing` once the run sent a failed request or a relay;
  - `progress` otherwise.

`ImplementsStepReports == Reports!Spec` is checked as a PROPERTY.

**No liveness.** Each start is a straight-line walk whose loops run over
finite lists, so that every start ends (or serves the editor) holds by the
shape of the model once commands and requests are assumed to return. It is
not checked; the liveness that says something about the code is `Executor`'s
`CallReturns`.

### `StepReports.tla` (abstract)

This is what the control plane can be sent about one workspace.
- Starts do not overlap.
- Each start follows a plan: the fresh steps 1-5 or the reload step 14,
  followed by a tail that is the same for every start.
- ws/init comes before step 1, and ws/ext before step 11.
- After a failed request or a relay, only relays follow.
- A relay names the step in progress or an earlier one. Reload (14) ranks with
  the fresh steps.
- No start after an acknowledged step 3 is a fresh one.

The abstract spec does not promise that a run relays at most once, or that a
relay names exactly the step that failed. The code breaks both, and the
violation runs below show it.

### `Executor.tla`

- **State.** `content` is the log file and `off` is its offset, shared by the
  script and the command. `produced` is a history of every byte written. `fg`
  is the shell, and `spawned`/`bg` are a writer the command left in the
  background. `pc`, `size` and `result` are the script's side.
- **Actions.** `Popen` (the shell starts, or `Popen` raises),
  `ForegroundWrite`, `ForegroundExit`, `BackgroundWrite`, `BackgroundExit`,
  `Wait`, `TellSize`, `SeekBack` and `ReadTail`.
- **Byte abstraction.** Bytes are abstracted to their UTF-8 class: `a` is a
  one-byte character, and `l`/`c` are the lead and continuation bytes of a
  two-byte character. `Utf8Valid` (RECURSIVE) is the decode.
- **Reference definition.** `LastBytes` is the reference definition that the
  seek arithmetic is checked against.
- **Fairness.** `FairSpec` makes two things weakly fair: the script's own
  steps (`ScriptSteps`) and the shell's exit. The shell exiting is the
  assumption that a command terminates, since `p.wait()` has no timeout. The
  background writer gets no fairness; it may hold the log file for ever.
  `CallReturns` says that the call returns anyway. The mutant `WaitForWriters`
  waits for every writer, as reading a pipe to end of file would, and it hangs.

## 3. Runs

| Run | cfg | Expect | Checks |
|---|---|---|---|
| pipeline | `MC_Pipeline.cfg` | pass | `TypeOK`, `ImplementsStepReports`, `InitOnlyAtMostOnce`, `AcknowledgedStepsApplied` |
| double_relay | `MC_Pipeline_AtMostOneRelayPerRun.cfg` | violation | a failed relay inside a `try` is relayed again (line 464) |
| unrelayed_failure | `MC_Pipeline_FailedRunsRelay.cfg` | violation | `execute_command` raising in `clone_repo` escapes unrelayed (line 281) |
| silent_reload_failure | `MC_Pipeline_ReloadFailuresReported.cfg` | violation | a start killed while writing `ws-config.json` leaves it truncated; the next start's `json.load` raises and its `except` clause dies on the unbound `ws_config` (lines 257, 675), so nothing is reported |
| wrong_relay_step | `MC_Pipeline_RelayNamesFailedStep.cfg` | violation | a failed `update_step(9)` is relayed as step 8 (line 489) |
| exit_zero_on_failure | `MC_Pipeline_CleanExitWithoutRelay.cfg` | violation | `exit(0)` after relaying an unparsable `SHELL_EXECUTIONS` (line 454) |
| commands_without_checkout | `MC_Pipeline_UserCommandsSeeCheckout.cfg` | violation | the marker is written before the clone. A run stopped at step 4 leaves later starts handling a user command with no checkout (line 257) |
| executor | `MC_Executor.cfg` | pass | `TypeOK`, `TailIsLastBytes` |
| executor_liveness | `MC_Executor_Liveness.cfg` | pass | `CallReturns`: under `FairSpec`, the call returns even while a background writer never exits |
| executor_background_writer | `MC_Executor_TailBounded.cfg` | violation | a background writer makes the result longer than the limit and not a suffix of the output (line 52) |
| executor_split_character | `MC_Executor_DecodeSucceeds.cfg` | violation | the byte cut splits a character and the decode raises (line 62) |

`AcknowledgedStepsApplied` covers every step. Step 9 is checked per run: the
run that reported step 9 executed every command it did not skip. Each passing
property has a mutant in `PROJECT.json`, a plausible bug that TLC finds
violating it.

**Pipeline bounds.** The bounds are chosen to reach every branch that the code
has:
- `MaxRuns = 2`. A first start and a restart is the smallest setting that
  reaches every cross-run case: a start that stopped after the marker, a
  reload, and init-only commands on a re-run.
- Containers on or off, editor on or off, `SHELL_EXECUTIONS` parsable or not.
- Command lists `<<>>`, `<<missing>>` and `<<init, always>>`.
- 0 or 1 extensions.

Every step therefore has each of its outcomes in some behaviour. The main run
explores about 745 thousand distinct states in a little over a minute; most of
that time goes to the refinement mapping.

A third start adds no case: after two starts the disk reaches no state it
could not reach after one start, so a third start repeats the second.

**Executor bounds.**
- `Limit = 2` with up to `MaxBytes = 5` bytes gives outputs shorter than, equal
  to and longer than the limit.
- Both character widths appear, so a cut can fall inside a character.

## 4. Not modelled

- **The workspace id's value.** It is only data in the request bodies.
  Whether it is present at all is modelled.
- **Log-file naming and cleanup** (lines 39-41). The name is a sha3 prefix of
  the command plus a `mktemp` suffix. It picks a fresh file for each call, and
  no property tells one name from another. The files are never removed, a
  disk-space concern that TLC cannot reach. This component stays
  `not_modelled`.
- **File and command contents.** The text of `.gitconfig`, the compose file
  and the commands is data.
- **Malformed init response.** A `ws/init` response missing the git fields is
  not modelled. The model takes the server's response as well-formed; that path
  relays step 1, the same as a failing `update_step(1)`.
- **A stuck workspace.** Once the marker is partial, every later start dies
  with a `NameError`. That the workspace then never comes up, however often it
  is restarted, needs unboundedly many starts. `ReloadFailuresReported` shows the
  first silent start after the truncation.
- **Hung commands and requests.** These are the timeout hazard. `CallReturns`
  assumes they do not happen. The spec makes a hang block the
  pipeline on purpose, so there is no disagreement for a run to show.

## 5. Plan

1. Done: `Pipeline` and `Executor`, with their passing and violation runs.
2. Done: `StepReports` with the refinement, the per-run step 9 and the
   missing "init" key.
3. Done: argparse and `has_been_initialized`.
   - **Executor and Pipeline.** These are composed by their contract, not by a
     product model. At every call site `Pipeline` takes the outcomes that
     `Executor` can produce: status 0, a non-zero status, or a raise before
     the command started (`Popen`) or after it ended (the decode).
   - **Why no product model.** A product model, with an `Executor` instance run
     inside each call site, would multiply the 1.4 thousand executor states
     into each of the pipeline's 745 thousand. It would only replay, in one
     trace, the findings that the two modules already show separately.
   - **Larger bounds.** Two extensions add no case that one extension does not
     already reach. Every extension is installed again on each start, and step
     11 needs all of them. The off-by-one mutants of the loops are already
     caught with one.
4. Done: the `Executor` liveness `CallReturns`, and the silent reload
   failure on a truncated `ws-config.json` (`ReloadFailuresReported`).
5. Left out: the stderr log. It runs the same code on its own file with its
   own offset, so a second `Executor` instance would repeat the same checks.
   A decode failure on either file raises, which the call sites of
   `Pipeline` already allow.

With this, every part of the script that changes state is an action of a
module. What remains is data (texts, names, ids) or the assumed termination of
commands and requests.
