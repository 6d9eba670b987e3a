# A verification development for the Sol-Luna delivery system

TLA+ models of the tools of the Sol-Luna skill and of its installer, TLC
configurations that check them on small instances, and TLAPS proofs of the
properties that matter most, for every value of the constants. Every definition
is translated from the source; `PROJECT.json` ("map") names the lines it stands
for. Paths below are relative to the repository root; `scripts/` of the skill is
`.agents/skills/sol-luna/scripts/`.

## The system

A controller ("Sol") delegates parts of a software task to a worker ("Luna"),
reviews what comes back, repairs or takes over what fails, and records evidence
of what that cost. No tool of the repository launches a worker. The tools are
short-lived command line processes that validate, replay or append to JSON
documents. What they guard is therefore a protocol (which event may follow
which), a file (what concurrent and crashing processes leave behind), or a
computation (what a record says once it is complete).

### Inventory

| Component | State | Operations | Interacts with | Hard behaviour | What makes it correct |
|---|---|---|---|---|---|
| Closure contract, `closure_contract.py` | the replayed events of one envelope: candidate, open repair, accepted, reclaimed and touched units, budgets | nine events, `project`, `assess` | controller and executor append events; `delegation_contract.py` freezes envelopes | long legal sequences; stale acceptance; budget edges; a projection that duplicates the state machine | reviewed as it stands; credit follows authorship; bounded repairs and failures; projection agrees with replay |
| Package lifecycle, `lifecycle_contract.py` | status, effort, generations, counters, continuation | fourteen events | host receipts name the same events | stale evidence; budgets across repartition | accepted on current evidence; bounded runs; right thread resumed |
| Allowance campaign, `allowance_campaign.py`, `allowance_meter.py` | a hash-chained JSONL ledger and an `O_EXCL` lock file | init, begin, end, acceptance, status, assess | several processes and an operator share the file; the meter validates records | interleaving, crashes and stale locks; an event that is recorded and leads nowhere | append-only; arms disjoint; consumption accounted once; pairs comparable; no wedge |
| Installer, `scripts/setup.py` | managed targets, an old skill tree, install state, backups, advisory lock | install, update, migrate, rollback (two kinds), doctor, preview | reads a source checkout that moves; shares targets with the user | failures and kills between two writes; two lists of the assets in one command; user edits; concurrent commands | user content kept; success is one release; failures undone; interrupted work retried; a retired installation comes back; lock released |
| Phase tracker, `phase_tracker.py` | a journal of open and closed intervals | init, start, stop, run, export | `evidence_ledger.ledger_lock`; wraps child processes | concurrent load-and-replace around a long child; clocks that step back; ids chosen by callers | nothing lost; a run closes its own; validation never refuses its own work; exact unions and overlap |
| Candidate snapshot, `candidate_snapshot.py` | none of its own: two captures of Git and the files | snapshot, verify | the ownership guard and reviews use its digest | reads a tree that changes between any two commands | a snapshot of one instant; a quiet candidate is captured |
| Ownership guard, `ownership_guard.py` | none: a frozen plan against changed paths | check plan, check changes | takes the paths from a snapshot | the tree moves on after the documents were written; names above and below each other | what is accepted was changed at one instant, in its own scope and in no other |
| Evidence ledger, `evidence_ledger.py` | a JSONL ledger | append, cohorts, claims, status, task-family feedback | lock shared with the tracker; feeds the routing policy | concurrent appends and kills; a receipt counted twice; retries of a pair | no record is lost; the ledger always loads; a receipt counts once |
| Routing policy, `routing_policy.py` | none: a request, a manifest and the ledger in, a decision out | evaluate, review, rework, schedule | reads the ledger without its lock, and a manifest twice | boundary values; files that change between two reads | a recommendation is earned; a cold start is affordable in its worst course |
| Net substitution, `net_substitution.py` | none: a plan in, the packages Luna should take over out | evaluate | the same plans as the frontier planner | an event loop that assigns writers and contexts | schedules are exact; only eligible choices |
| Frontier planner, `frontier_planner.py` | none: a pure projection of a package graph | plan | the controller follows it, package after package | waiting for nobody; a repair queue that starves new work | follows dependencies; never a wait with nothing running |
| Delegation contract, preflight, compact protocol | none: one frozen document and its handoff | validate, freeze, evaluate, format | feed closure and review | cross-field consistency | a handoff answers its envelope |
| Credit model | none | convert | the tracker and the ledger | decimal arithmetic | |
| Receipts, identity, attestation, matched evaluation, communication audit | none: digests of finished records | build, validate | campaign and ledger | reuse of a record | a record is bound to one run |
| Release publisher, `scripts/publish_release.py` | a remote service | publish, preview | GitHub | check, act, check again | Latest stays pinned |

The hazards, each at its line and with the properties that would catch it, are
listed in `PROJECT.json`.

## The modules

| Module | Models | Composes |
|---|---|---|
| `AcceptanceAuthority` | what a closed contract promises, without the state machine | |
| `Closure` | `_replay` and `assess` | implements `AcceptanceAuthority` (`ImplementsAuthority`) |
| `ClosureProjection` | `project` | `Closure` |
| `Lifecycle` | `transition`, `replay` | |
| `Campaign` | the ledger, its lock file, the three appending commands, crashes | with the meter's `validate_limit` |
| `Setup` | install, update, migrate, both rollbacks, Doctor | |
| `Intervals` | the interval arithmetic of `export` | |
| `PhaseTracker` | init, start, stop, run on one journal | `Intervals`, and the ledger lock |
| `Snapshot` | `build_snapshot` in a changing repository | |
| `Ownership` | `check_plan` and `check_changes` | `Snapshot` |
| `RoutingPolicy` | the policy's numbers and efforts | |
| `EvidenceRecords` | which records are admissible, pairs, cohorts, what a cohort shows | `RoutingPolicy` |
| `Evidence` | `append_record` by several processes that may be killed | `EvidenceRecords` |
| `Schedule` | `package_schedule`, `package_schedule_v5`, recovery and worst courses | `Intervals` |
| `RouteEvaluation` | `evaluate_route`: gates, candidates, the choice | `Schedule`, `RoutingPolicy` |
| `Routing` | the evaluate command between a ledger and a manifest that change | `Evidence`, `RouteEvaluation` |
| `NetSubstitution` | the schedules and the choice of `net_substitution.py` | `Schedule` |
| `Frontier` | `plan` and its graph checks, followed by a controller and workers | |
| `FrontierSchedules` | what both estimators expect of the planner's graphs | `Frontier`, `NetSubstitution` |
| `MC*` | constants for TLC | |
| `*Proofs` | the theorems of `Closure` and `ClosureProjection`, `Lifecycle`, `Campaign`, `Frontier` and `FrontierSchedules`, `Snapshot` and `Ownership` (in `SnapshotProofs`), `Evidence` (in `Routing`), `Setup`, `PhaseTracker` | |

Operators whose names end in `_Mutant` (or `_AnyUnit`, `_OnlyTracked` and the
like, directly above the operator they vary) are plausible bugs of that
operator. Nothing uses them; for each property one of them, substituted for the
operator, makes TLC find the property violated.

### Closure contract

One action is one event kind; its guards are the conditions that raise
`ContractError` in that branch of `_replay`, in their order, and are operators of
their own (`ProgressIsLegal` ... `CloseIsLegal`), so that `ProjectionIsExact` can
compare what `project` offers with what the replay would accept. Only events that
get through change the state, as one refused event fails the whole document. A
path stands for the unit whose scope holds it (`_envelope` makes scopes
disjoint), so `changed` is a set of units. Two history variables, read by no
guard, record who wrote each unit last (`writer`) and what passed since the
workspace last changed (`verified`); the properties compare the replay's own
bookkeeping (`accepted`, `reclaimed`, `touched`) with them.

`AcceptanceAuthority` is the promise alone: deliver, take over, review, settle.
The mapping takes `current` to the candidate, `accepted` to what passed,
`reclaimed` to what is shadowed and the state `CLOSED` to closed.

### Package lifecycle

One action per event of `transition`. `checked`, `worker`, `runs` and
`partitions` are history. `worker` is the thread that works on the package or did
last: a dispatch, a focused repair and an escalation start any thread, a
`continue_repair` resumes the one `continuation_ref` names, and a worker that
hands off names its own thread or none. `ContinuedRepairKeepsItsWorker` says that
the resumed thread is the one whose handoff failed, whatever threads worked
before it. Repartitioning and candidate generations are not bounded by the code;
`MaxPartitions` and `MaxGenerations` bound them for TLC.

### Allowance campaign

`ledger` is what `replay` computes from the file (hash chain and canonical form
make the file a function of its events). A command is enter (create the lock
file), build (replay, build the event and apply it in memory), write (replace
the file), exit; a process may die at each point and leave its lock file, which
only the operator removes (`OperatorUnlocks`), when no command runs. Without
that condition the exclusion itself would be gone: removing the file of a live
process is outside what the code can protect.

### Installer

One action is one durable write, so a command may fail (`ApplyFails`: an
`OSError`), or die (`Stop`), between any two. The checkout moves at any time;
the user edits targets, or leaves a file in the old skill tree, while no command
runs. A file is its content; backups never change once copied and are
represented by their content.

There are two skills roots. Every command is given the new one; an old one may
hold an installation that `migrate` retires. Agents have one target under either
root, so a migration overwrites files of the installation it retires, backs them
up, removes the old tree file by file (`RetireOld`), and writes the state last;
its handler undoes that in its own order (`UndoAsset`, `UndoMigration`,
`CopyTree`, `RestoreAgent`, `RestoreOldState`), and the rollback of a migration
shares the last of these steps with it.

`Start` takes the lock. What follows is a step for each read of the checkout,
since it may move between any two of them. `install`, `update` and `migrate`
validate the state (`Validate`), list the assets for the plan (`Preview`: 383,
444), compare each target with its asset (`CompareTarget`), and list the assets
again (`ListAssets`: 611, 523), which are those they write. An asset that came
into the checkout in between was never compared. What it is written over is the
user's own, and `UserContentIsKept` says what becomes of it: the command backs it up,
but for an update that has an older backup of that target on record, and for a
skill file of a migration, which backs up agents only. An asset that is gone from
the checkout when it is read ends the command (`Refuses` before the first write,
`SourceGone` after it). A refusal is a step of its own (`Refuse`). Which command
was started shows when it passes its first checks (`Validate`, `BeginRollback`),
so the refusal of those checks stands for any command whose checks fail.

A loop over assets is the set of those still to be visited: the code visits them
in the order of their paths, which may be any order, and a set contains each of
them. `before`, `planned`, `torn`, `original`, `rebased`, `retired` and the
counters are history. `original` holds what a target had before setup first took
it over in the installation that is there: an install over an installation keeps
it, although it starts with no backups on record. It backs up managed files, and
the targets of which setup has a later backup are `rebased`; those are the ones
`RollbackRestoresOriginals` excepts, and a rollback gives back an earlier release
there.

### Phase tracker

A command takes the lock (`Take`: the flock blocks, so there is no busy
outcome), loads and validates, and `Write` replaces the file and releases it; a
`run` does this twice, around its child. Times are any time at all, as the wall
clock may step back and callers may pass `--at`. `Crash` is possible wherever a
command is; the kernel releases the flock. `Refuse` stands for the requests
that `start` or `stop` refuse and makes the model free of deadlock.

### Candidate snapshot

Each step of a capture (resolve the base, one path of `git diff`, one path of
`git ls-files --others`, one path read) is an action, and between any two of
them a file, an index entry or HEAD may change. The order of the paths is
Git's. `MayRestore = FALSE` in both runs: no path returns to a content or index
entry it has had, and HEAD does not return, so that the runs are about the
changes the double capture is meant to catch and not about changes that are
undone between the captures, which no comparison of two captures could see.

### Ownership guard

The verdict of `check_changes` is a function of a plan, of a report and, with
`--repo` and `--base`, of a snapshot. The documents are chosen when the snapshot
command starts and the working tree goes on moving, so the module adds one
property to the runs of `Snapshot`: whatever is accepted on the strength of a
snapshot was, at one instant, all that had changed, and in the scope of the
report. A name is a path or a directory and `Under` says what lies below what;
the text of names is left out, and a digest is the plan it is the digest of.

### Evidence ledger and routing

`append_record` validates, takes the lock (the flock blocks), loads and
validates the whole ledger, and replaces the file; a process may be killed at
each of these points and the kernel releases its lock. A record is a TLA+ record
with the fields that the statistics read; a cohort has one suite, policy,
measurement (its kind and its source), effort, review depth, billing window, note
of each uncertainty and context of both arms, as `cohort_identity` has. `EvidenceRecords` translates the
checks a record must pass, pairs, cohorts, receipts and the index of verified
receipts, and the medians.

`evaluate` reads the manifest, the ledger (without the lock) and the manifest
again, and answers or fails. `Routing` composes the two: processes append and
are killed, users edit the manifest, and one evaluation after another runs
between them. `RecommendationIsEarned` is written over the positions of the
ledger, not over the cohorts the code builds, and `ColdStartIsAffordable`
enumerates the courses of events of a package graph instead of the code's bound. It
says nothing of a request whose Sol costs nothing under a policy that asks for no
saving, which `routing_policy.py:1341` lets pass. A pair whose Sol run cost nothing
does not count among those that save, and percentages are rounded down.
Amounts are integers in percent or hundredths; the Wilson bound is a given
number, its square root is left out.

`Schedule` and `NetSubstitution` translate the three hand-written event loops
that place packages over writers. `FrontierSchedules` feeds them the graphs of
the frontier planner and compares the results with a definition that names no
loop: work conserving, in order, and within capacity (`IsGreedy`), with contexts
retained exactly where the writer of a package has just left the same domain.

### Frontier planner

`frontier_planner.py` keeps nothing; the state is the document it reads. `plan`
is one operator over the document, and `queues` is the answer a controller
holds. The controller and the workers are outside the repository: the model
lets the controller follow an entry of its queues once, start Luna within the
writer cap, and take over what no queue holds (a failed package that is not
eligible for repair, a package blocked only by its net substitution). It may
hold an answer while workers report and new evidence arrives, so that what it
follows is an answer to an older document. An envelope is a set of packages
and an order, weights are integers, and ids are numbers in the order of names.

Two things the planner leaves to the controller became visible. A failed
package that is not eligible for repair is in no queue and in no blocked
reason, and does not keep `tail_wait_allowed` from being true, although
`references/orchestration-policy.md:70` says "Wait only when no ready package,
review, integration preparation, or acceptance work remains". And an eligible repair is offered when the pool is full too: it can
not be started within the cap, no envelope is offered beside it, and waiting is
not allowed either. So the flag does not mean that nothing else can be done, and
no property says so. `NobodyIsStuck` says what holds: as long as a package of an
accepted graph is neither accepted nor taken over, a fresh answer offers something
to follow within the cap, or something must be taken over, or a Luna runs and the
flag, or a repair that waits for her slot, lets the controller wait for her.

## The runs

| Run | Shows | Bounds | States |
|---|---|---|---|
| `closure` (pass) | review, authorship, budget and projection properties, and refinement of `AcceptanceAuthority` | two Luna units, one with two ids, one Sol unit; two attempts, cost three, weights one and two; five failure evidences; two digests; one parallel event | 3,526 |
| `closure_projected` (violation) | the projection offers an illegal `CLOSE` after a partial pass | same | |
| `lifecycle` (pass) | current evidence, budgets, a continued repair by its worker | all five efforts, two threads, five generations, two repartitions | 6,363 |
| `campaign` (pass) | append-only ledger, accounting, disjoint arms, comparable pairs, no wedge in good faith | two processes, two pairs (four arms), two meters with different resets, readings 0..1, eight times, one crash | 567,419 |
| `campaign_wedge` (violation) | a rising end reading is recorded and wedges the campaign | same | |
| `setup` (pass) | user content, one release, undo, retry, rollback, retired installations, lock | two processes, a skill and an agent, three releases (one adds the skill, one drops the agent), no installation or an old one of release 1 or 2, one failing write, one kill | 1,038,931 |
| `setup_drift` (violation) | a failed update makes rollback refuse untouched files | same, no kill; three releases that ship both assets, the last takes back a change to the agent | |
| `tracker` (pass) | nothing lost, own interval closed, validation total, exact metrics | two processes, two executors, three phases, two intervals, times 0..2 | 79,635 |
| `snapshot` (pass) | one instant while the index is stable, and accepted changes in scope | one path of the base and one new path in a directory, three contents of two kinds, two commits, three changes; the plans and reports of `MCSnapshot` | 1,358,998 |
| `snapshot_mixed` (violation) | staging a new file between two Git commands | same without HEAD moves | |
| `frontier` (pass) | plans that can be followed, an exact sort, nobody stuck, exact schedules, and drained graphs | every graph of three packages (circles included) and a fourth behind the first, two sets of fields (two domains, a tie, a worthless package), two writers, one repair | 102,738 |
| `routing` (pass) | earned recommendations, affordable cold starts, whole ledgers | two append processes, six documents beside a ledger of three records, six records at most; three-package graphs of four shapes at two prices and single and critical requests; two manifests | 77,248 |

Why the bounds are enough for the questions asked. Closure: two units are the
least for partial passes, partial reclaims and a repair of one unit beside
another; evidence outnumbers the failures that can occur
(`FailuresAreAnswered`: at most two repairs, two reclaims and the one looked
at), so no failure is cut off. Lifecycle: five generations exceed the runs of
two partitions. Campaign: four arms are the least that give each route a second
arm, so a revision and an exclusion carried over pairs; two levels of a meter
tell rising, falling and level readings apart. Setup: the skill is not in the first
release, so a plan made before it does not know its target, and the agent is gone
from the third, so that between two reads of one command an asset can appear,
change or be dropped, and the skill is in the release that may be retired or is
not. Tracker: two intervals give overlap, nesting, touching and a run whose interval another command stopped. Snapshot: three changes are one more than the
violation needs, and each of the three can hit either capture; the plans
divide the paths, share one, nest one below a directory of another, and have
changed since they were frozen. Frontier: three packages have every shape of
waiting (chains, forks, joins, circles), the fourth fills the pool or Sol's
queue beside them. Routing: two pairs are the least the policy of the instance
asks for, the documents hold what may go wrong with a second run of either
(a claimed receipt, no receipt, another policy, fewer credits than the receipt
is for, no seconds), and the prices lie on both sides of what a chain and a star
of packages can afford in their worst course.

Deadlock is checked in `campaign` and `tracker`, whose processes can always do
something. The others may really stop: a closed contract, a terminal package,
a finished snapshot call, a drained or refused package graph, an installer
whose user and repository have nothing left to change, and an evaluation whose
ledger has reached the bound of the model.

Fairness is assumed in two modules. In `Setup`, `WF(\E p : Step(p))`: the command
that runs goes on, because it waits for nothing (the lock does not block and is
taken before the first step; it admits one command at a time). Starting
commands, failing, dying, moving the checkout and editing are not fair.
`LockIsReleased` rests on it. In `Frontier`, `WF(Next)`: the planner schedules
nothing, so all that is assumed is that somebody goes on as long as anybody can;
that this suffices (`EveryGraphIsDrained`) says that no document is a dead end
and that following plans ends.

### What the violation runs found

* `closure_projected`: from `ACCEPTED_CANDIDATE` only `CLOSE` is legal, and
  after a pass over part of the identifiers `CLOSE` is refused. The contract is
  stuck while `project` names `CLOSE` as the next event
  (`closure_contract.py:528`). The safe side holds: `ReviewedAsItStands`.
* `campaign_wedge`: `_apply_end` (`allowance_campaign.py:441`) does not compare
  the end reading with the begin reading; the check comes with the acceptance
  record, after the end is durable.
* `setup_drift`: the handler of `_apply_locked` (`setup.py:643`) restores what
  was there before the first install, also when an update fails.
* `snapshot_mixed`: `git diff` and `git ls-files --others` see different
  indexes (`candidate_snapshot.py:398`).

### What else became visible

These are statements about the code as it is; no property states their
opposite, because no document of the repository does.

* **Installer.** A migrate whose `rmtree` fails midway leaves the old tree torn:
  `removed_old` is set only afterwards (`setup.py:548-549`), and a tree that
  still exists is not copied back (574). `FailedInstallIsUndone` excepts
  that case (`torn`). A skill file at the new root that the plan did not know is
  written over without a backup, and the handler unlinks it (570-572), so that case
  is excepted too. An update whose second list has lost an asset keeps the backup of
  it and not the file, and a state with more backups than files fails every later
  validation (316). A migrate killed between the removal of the old tree and
  the state write leaves every command refusing. An `install` over a migrated
  installation drops the migration record; a rollback of a migration removes an
  agent file that was the user's own identical copy when an update took it over;
  rollback has no handler.
* **Evidence.** A `ROUTINE` record that names a pair and has no elapsed seconds
  makes `evidence_status` raise an uncaught `TypeError` (`evidence_ledger.py:893-894`) for
  its whole family, for good (`FeedbackIsAvailable`). A third record of a pair
  disqualifies the pair after the fact. The strongest cohort may be one of an
  older policy and hide an eligible one of the policy in use.
* **Routing.** In the shipped policy `maximum_initial_writers` and
  `maximum_active_luna_writers` are both one and no evidence raises the cap
  (`allowed_writers`), so requests of schemas 2 and 4, which ask for at least two
  writers, are never eligible. In `net_substitution.py` Sol's labor is part of the
  total cost, so the lesser of labor reduction and credit savings is always the
  latter.
* **Ownership.** Changed paths must not lie below one another, so a file that
  became a directory can not be reported. Schema 1 takes the reporter's word for
  its scope.

## The proofs

`tlapm` checks eight modules with Z3, Zenon and LS4: `ClosureProofs`,
`LifecycleProofs`, `CampaignProofs`, `FrontierProofs`, `SnapshotProofs`,
`RoutingProofs`, `SetupProofs` and `PhaseTrackerProofs`. The theorems hold for
every value of the constants that satisfies the named assumptions of the modules
(`EnvelopeAssumption`, `BudgetAssumption`, `IdentityAssumption`,
`SupplyAssumption`; `LifecycleAssumption`; `CampaignAssumption`,
`NoneAssumption`; `FrontierAssumption`, `SchedulesAssumption`; `TreeAssumption`; `UnderAssumption`,
`PlansAssumption`; `PolicyAssumption`, `LedgerAssumption`, `RequestsAssumption`;
`SetupAssumption`;
`TrackerAssumption`, `PhasesAssumption`), which TLC evaluates in the runs.

* **Closure.** `TypeCorrect` is inductive as it stands. The others each have a
  strengthening, proved to be preserved by one step per event:
  `ReviewInv` says that what is `accepted` was verified on the workspace as it
  is wherever no lane of Sol's is open, since `CLOSE` trusts `accepted` alone;
  `AuthorInv` relates `touched`, `reclaimed` and the last writer; `BudgetInv`
  relates the evidence of the last failure to the used and the seen evidence,
  without which the number of attempts and the number of used evidences could
  part; `AnsweredInv` counts failures against attempts and reclaimed units and
  needs the finiteness of both sets. `ClosureImplementsAuthority` maps each
  event to a step of the abstract module or to a stutter. `ProjectionShowsLegalEvents`
  takes the kinds of event one by one: an event is offered exactly when some
  instance of its guard holds. For that an event must never lack a digest or an
  evidence that has not been used, which is what `SupplyAssumption` says of the
  instance (there is always another hash to be had), and `BudgetInv` bounds what
  has been used.
* **Lifecycle.** One inductive invariant relates `checked` to the two
  generations, `continuation_ref` to the worker and the number of runs to
  the counters, with the slack each status leaves.
* **Campaign.** The invariant speaks of three things at once: the ledger
  (readings, times, order of the records, the event count), who holds the lock,
  and what the holder is about to write: the next ledger is one legal event
  after the present one. That last part is what makes the replace of a whole
  file an append, and needs the exclusion; the exclusion survives crashes
  because a stale lock file blocks everyone. `AllowanceAddsUp` says that what the
  arms consumed between two resets is what the meter fell by: each record is
  the sum of the falls between its readings, and readings between the records of
  one ledger do not move the meter back (`AllowanceIsAccounted`, with a
  least-number argument over the positions of the ledger). `PairsCompareRoutes`
  adds the order of the arms of a pair.
* **Frontier.** `TypeOK` and `FollowedPlansAreAccepted` are inductive together:
  statuses stay valid when an old answer is followed only because every queue
  entry is still true of the document (`QueuesStayTrue`), and entries stay true
  because a terminal package stays terminal and nobody but the follower of an
  entry changes its package. That proof needs nothing of how `plan` selects a
  domain. `NobodyGetsStuck` does. Where the sort found no circle, some package that
  is left waits for nothing; whatever its status, it is in a queue, must be taken
  over, or runs, unless it is an eligible package of Luna's. Then a domain must be
  selected: the keys of the domains are compared in the order of tuples, which is
  transitive and decides between any two (`KeysAreOrdered`), so one of finitely
  many is better than all others (`BestExists`), and the envelope is not empty
  while a slot is free. `SortingIsExact` is about a recursive function: the layers of the
  sort exist (`LayersExist`), each contains the one before and grows by a package
  or is the last (`LayersGrowOrStay`), so after as many layers as there are
  packages it is done, and what it has not visited waits for something not
  visited.
* **Schedules.** `SchedulesExact` needs no invariant but the types of the document:
  it is about what three event loops compute. They share one argument. A state of a
  loop is `Sound` when what is placed runs to its end in time (`Placements`) and no
  lane was too full or had room that was needed (`RoomUsed`). A round starts what each
  lane has room for (`Starts`: `TakesV4`, `TakesV5`, and for net substitution
  `AssignOffers`, one offer of the sorted list after the other) and goes to the next
  end (`Advances`); both keep the state sound (`AdvancePlaces`, `AdvanceUsesRoom`). As
  long as something is left and no packages wait for each other something runs
  (`SomethingRuns`), so each round completes a package and as many rounds as there are
  packages complete all; and what is complete had no circle (`DoneHasNoCircle`). What
  the recursive functions compute is shown with `RunExists`: a run of the loop exists,
  so the function that is chosen satisfies its equation, and a least number shows the
  rest. `ContextStays` follows the writers of net substitution, `OverlapIsCounted`
  the merged intervals of Luna against Sol's, which never meet, with a sum of sizes
  of disjoint sets (`SumOfSizes`).
* **Snapshot.** The first capture observes of each path a content the path has
  had; the second one it has, or had after the first capture ended. While
  nothing returns to what it was (`~MayRestore`, an assumption of these theorems)
  a path that both observed alike had that content all the while between them:
  the candidate at the end of the first pass is the one that is returned.
  `QuietCandidates` is the other direction, and needs no such assumption: while
  nobody writes, both captures observe what is there, so that the call is never
  refused as changed.
* **Ownership.** In a plan that passes `check_plan` names of different partitions
  do not lie above one path, because every path of a partition belongs to an
  object of it and overlapping objects are of one unit
  (`ReportsStayInScope`). Together with the theorem about snapshots,
  `AcceptedChangesAreInScope` says it of what was really on disk.
* **Evidence and routing.** A command that holds the lock has loaded the ledger as it stands,
  and a record that `validate_record` returns passes `validate_record`: that is why
  each write is an append, and why the ledger it leaves loads.
  `RecommendationsAreEarned` is about what the routing policy makes of such a
  ledger. It takes an eligible cohort apart into positions of the ledger: its
  pairs correspond one to one to pairs of matched runs, their receipts differ
  because the ledger loads, and a median within a bound has half of the values
  within it (`MedianIs`, `LowerHalf`, `UpperHalf`, where a rank exists by a
  least-number argument). Appends after the ledger was read only extend the
  prefix that the recommendation saw.
  `ColdStartsAreAffordable` rests on a theory of `SumFunctionOnSet`: what its fold
  computes (`SumsExist`), that the order of the terms does not matter
  (`SumTakesOut`), bounds of a sum by others and of a part by the whole
  (`SumIsBounded`, `SumOfPart`), each by a smallest set that would contradict it.
  With it, whatever packages fail costs no more than the recovery the estimate
  contains (`SpendingIsBounded`), because what depends on a package at any distance
  is in its downstream closure (`RerunsAreDownstream`).
* **Setup.** Two facts go together. The lock admits one command: every other is
  idle. And what the one that runs may still write or remove (the targets it has
  to visit and has compared, those it has written, those it has a backup of, and the
  old tree) holds contents that the releases ship, or nothing, since its checks
  (`ComparedTargetsAreClean`, `OldTreeIsClean`) and since only it writes; a target
  it has not compared may hold the user's file, and then the backups have it, but
  in the two cases above (`Harmless`, `KeptIsSpared`). For that
  backups and states must hold nothing of the user's alone either, so they are
  part of the invariant. `NothingOfTheUsersIsLost` is the action property that
  follows, for every step, failures and kills included; `SuccessMeansOneRelease`
  needs besides that no success is on display while a command runs.
  `FailuresAreUndone` follows each handler step by step: the targets not written
  yet are as they were, those written have backups of what was there, and the old
  tree is whole, gone with its copy at hand, or torn. `InterruptedWorkIsRepeatable`
  rests on what an apply has written being the contents of the checkout, which its
  own checks accept. `OriginalsComeBack` and `RetiredComesBack` follow contents
  through sequences of commands. As long as nothing has failed or died, the
  backups that the state names hold the targets as they were before setup first
  took them over (`original`), but where they were made again by a later install
  (`rebased`). Whatever fails or dies after a migration, the state
  keeps the backups of the agents and of the tree of the installation that it
  retired (`retired`), since updates hand them on and a rollback writes the old
  state last.
* **Phase tracker.** The flock makes load and replace one step as seen by the
  others: the holder's copy is the journal as it stands. From this follow
  `JournalIsKept` (each write only closes an interval or adds one),
  `RunsFindTheirOwn` (the interval a run closes is the one it opened, although
  the lock was free while its child ran) and `AcceptedRequestsValidate`: what
  `start` and `stop` accept is a journal that the validation before the write
  accepts too, whatever the clock did. `MetricsCountExactly` is about the export's
  arithmetic: sorted by rank the intervals are in order (`InOrderSorts`), the walk
  keeps intervals that are apart and cover what was walked over (`AbsorbMerges`,
  `MergedIs`), so that their lengths add up (`SecondsAreExact`); and when the pointer
  at the interval that ends first moves on, that interval shares no more
  (`OverlapStep`).

Every invariant and action property of the passing runs is a theorem, and so is the
refinement. Checked by TLC only is liveness (`LockIsReleased`, `EveryGraphIsDrained`),
which is out of the prover's reach. The induction theorems of the library take an
operator as a parameter and can not be used either; a least number or a smallest set
that would contradict the claim takes their place throughout.

## Not modelled, and why

Parsing, formatting, digests, JSON strictness and path normalisation are
abstracted in every module: they are pure functions of one document and the
tests cover them. Links and unsafe paths in the installer only refuse.

* Delegation contract, preflight, native lifecycle receipt, compact protocol,
  runtime receipt, matched evaluation, identity and attestation: validators of
  finished documents. They keep no state, nothing they read changes while they
  run, and what they say is field by field equality.
* Credit model and communication audit: decimal arithmetic and statistics, out of
  reach of both tools.
* The adaptive selector, `review_depth` and `rework_decision` of the routing
  policy: decision tables over one request, whose reference definition would be
  the table again. The statistics of the allowance meter, for the reason above.
* Release publisher: its race with another publisher is in the hands of the
  service; the tool can only report it.
* A user who edits a target while an installer command runs: the command has no
  way to notice (`setup.py:386`), so the model lets users edit between commands.

## What could come next

A refinement of `Setup` to an abstract installer (old installation or new, never
both), the review and rework tables beside `RouteEvaluation`, and the settled part of
the allowance statistics over integers.

## Running

    tlc -workers 2 -config MCClosure.cfg MCClosure.tla
    tlapm ClosureProofs.tla

Each run takes from seconds to about two and a half minutes on two workers.
