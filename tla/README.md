# Verification of KIL

KIL decides whether a consequential request may be executed, enforces the
decision at an Envoy gateway, and produces evidence of what happened that a
reader can check without trusting the machine that produced it. The V3B-2 part
runs that on a Kubernetes cluster in a Colima profile which it owns, creates
and destroys, beside profiles it must never touch. This directory models the
parts of it that keep state, checks them with TLC, and proves the main
invariants with TLAPS.

Paths are relative to the repository root. Line numbers in module comments
refer to the file that the comment or the module header names.

## 1. The system

| Part | Code | State it keeps | Operations |
| --- | --- | --- | --- |
| Decision kernel | `src/kil/domain.py`, `decay.py`, `engine.py`, `evidence.py`, `q_state.py`, `live_authz.py`, `reference_gateway.py` | none between calls; a signed q state and local evidence are inputs | evaluate a request at a time, decay a signed state, reduce it by local evidence, record the decision |
| Replay and scenarios | `replay.py`, `scenario.py`, `run_bundle.py`, `canonical.py` | a recorded run as a bundle | replay a scenario, compare digests, write and verify a bundle |
| Authorization service | `ext_authz_http.py` | decision ledger, one file, one lock | `handle`: evaluate, record, answer; health |
| Target service | `target_http.py` | marker ledger, `_request_ids`, `_invalid` | append a marker, load an existing ledger |
| Envoy configuration | `v3b_envoy.py` | none (rendered text) | ext_authz fail closed, route, access log, admin |
| One-shot driver | `v3b1_request_driver.py`, `v3b1_driver_protocol.py` | one retained connection, one attempt | announce readiness, read one instruction, send once, report |
| V3B-1 controller | `tools/v3b1_local_envoy.py`, `tools/v3b1_harness_contract.py`, `tools/v3b1_driver_transport.py` | a Colima profile with its containers and networks, a lifecycle journal, private files, bundles | `up`, `readiness`, `run`, `collect`, `down` (repeated until it succeeds) |
| V3B-2 journal | `v3b2_journal.py` | one JSON file: committed inputs, mode, events, latch | `append_event`, `append_observed_terminal`, `latch_teardown`, `latch_profile_start_refusal`, `select_lifecycle_mode`, `recovery_plan` |
| V3B-2 observed proofs | `v3b2_proofs.py` | proof files, write-once | collect bound observations, decide a terminal, list cleanup commands |
| V3B-2 controller | `v3b2_controller.py` | nothing durable of its own: journal, private files, host | `up`, `nominal`, `request_free`, `down`, `recover` |
| V3B-2 evidence | `v3b2_evidence.py` | captured sources, public bundle | capture, join, publish, verify |
| V3B-2 parsers | `v3b2_contracts.py`, `v3b2_inventory.py`, `v3b2_manifests.py`, `v3b2_profile_state.py` and ten smaller ones | none | closed parsers of tool output |
| Command line, demos, bootstrap | `tools/v3b2_kind_calico.py`, `v3a_demo.py`, `replay.py`, `render_markdown.py`, `bootstrap_v3b_tools.py` | none | one subcommand per controller method |

How they interact. A subcommand runs one controller method. For every owned
operation the controller appends an *intent* to the journal, issues a command
(or none), observes the host through the registry of `v3b2_proofs.py`, and
appends the *terminal* which that observation decides. The journal validates
the whole history on each append, so it is the place where the order of
operations is enforced. Three track pods each hold a driver that waits for one
instruction; the controller attaches to it and writes it. The driver's call
goes through Envoy, which asks the authorization service, which records before
it answers, and on a permit to the target, which records before it answers.
After all requests the controller drains Envoy, reads the four sources of each
track, freezes them, tears everything down, compares the foreign state with the
snapshot taken before, and publishes a bundle.

V3B-1, the older controller, does the same with plain containers and one
`down` that is both teardown and recovery: whatever state a crash left, it is
run again until it gets through. Its journal keeps three histories of a driver
(readiness, stops, requests), from which a later process computes what it may
expect of a container (`_driver_recovery_authority`), and it stops and removes
nothing that this does not cover.

What is hard here is not in any single function. It is a process that dies
between any two of these steps and another that sees only files and the host;
commands that fail half-way; commands that survive the process that issued
them; answers that come after somebody gave up waiting; files that end in half
a line; and a set of rules in one validator that several scripts must be
compatible with. The repository's documents themselves call V3B-2 work that
the CI boundary quarantines
(`docs/superpowers/specs/2026-09-11-v4-controller-ci-boundary-design.md`), so
much of this has no running test. `PROJECT.json` lists every such hazard at its
line, with the properties that would catch it.

## 2. The modules

| Module | Models | Used by |
| --- | --- | --- |
| `V3B2Journal` | the journal: all writers and all rules of `_validate_history` | `V3B2RecoveryPlan`, `V3B2Lifecycle`, `V3B2JournalProofs` |
| `V3B2RecoveryPlan` | `recovery_plan`, over any history the journal admits | run `journal` |
| `V3B2JournalProofs` | theorems about every journal and what `recovery_plan` makes of it | `V3B2LifecycleProofs` |
| `V3B2Lifecycle` | controller, registry of proofs and host, over the journal; one process at a time | |
| `OwnedLifecycle` | abstract: what a lifecycle promises a reader of its bundle | refined by `V3B2Lifecycle` |
| `V3B2LifecycleProofs` | theorems about controller and host, and that they keep the promises | |
| `DurableDirectory` | what a directory holds and what a power loss may leave of it: operators | `V3B2Files` |
| `V3B2Files` | journal, proofs and bundle on disk, system call by system call, with several controllers | |
| `DurableLog` | abstract: a log that loses no acknowledged write | refined by `V3B2Files` |
| `V3B2FilesProofs` | theorems about what survives on disk, and that it is a log | |
| `V3B2Evidence` | what the sources of a lifecycle join to, the bundle built of them and its verification: operators | `V3B2Publication` |
| `V3B2Publication` | a bundle's preparation, publication and readers, while the directory changes | |
| `V3B2PublicationProofs` | theorems about readers, and about builder and verifier | |
| `TargetLedger` | the target service and its file | `RequestPath` |
| `RequestPath` | driver, Envoy, authorization, target and the capture, for one track | `RequestSession` |
| `DriverChannel` | V3B-1's attached session: pipes, docker client, deadline, the driver's side of them | `RequestSession` |
| `RequestSession` | composes the two: the request path of either lab | |
| `RequestProofs` | theorems about ledger, path and session | |
| `V3B1Session` | V3B-1's `readiness` and `run`, the drivers they command, and the journal's rules for both | `V3B1Lifecycle` |
| `V3B1Lifecycle` | V3B-1's `up`, `collect` and `down` around it | |
| `LocalLifecycle` | abstract: what a V3B-1 lifecycle promises a reader of its bundle | refined by `V3B1Lifecycle` |
| `V3B1Evidence` | what `down` copies of the sources, the bundle made of the copies, and what its verifiers want of it | |
| `V3B1LifecycleProofs`, `V3B1EvidenceProofs` | theorems about the two | |
| `Kernel` | decay, reduction, `decide`, `verify_q_state`: operators without state | `Replay`, `ReferenceGateway` |
| `Replay` | the loader and the paired replay of a scenario | `KernelPrograms` |
| `ReferenceGateway` | adapters of the three tracks, gateway and target marker | `KernelPrograms` |
| `RunBundle` | the publication of a bundle by several processes | `KernelPrograms` |
| `KernelPrograms` | the commands that put these together | |
| `KernelProofs` | theorems about kernel, replay, gateway and bundle | |
| `MC…` | constants and symmetry for TLC | |

Definitions named `Name_Variant`, each marked as a mutant and placed before
the definition it varies, are plausible bugs. None is used by a specification;
each stands for the bug with which the property it was written for fails.

### V3B2Journal

The file's event list is modelled by what the validator derives from it: for
each operation (`<<family, track>>`, track 0 for the untracked ones) the stage
of its intent-terminal pair, which is `none`, `pending`, `complete`, `failed`
or `abandoned`; the lifecycle mode; the latch; the start refusal; and the
recorded result of the foreign comparison. That is exact for the rules: none of
them looks at anything else of an earlier event but its binding. `committed`
says whether the journal commits expected inputs, in which case terminals may
only be appended by `append_observed_terminal` from a decided observation.
Each writer of the file is one action, whose guard is the validator's admission
of the new event: the `IntentAdmitted`, `ResultAdmitted` and `TerminalAdmitted`
operators, split into one operator per group of rules (`SetupOrder`,
`RequestOrder`, `FreezeOrder`, ...). The number of tracks is a constant.

### V3B2RecoveryPlan

Operators over the journal's state: `Repeatable` is the command that the plan
lets a recovery repeat for a pending operation, given an observation;
`Proposed` the intent it proposes when nothing is pending, `FreezeFirst` and
`OwingSteps` the two chains of conditions it comes from. Nothing in the
repository but its tests calls `recovery_plan`, so no action uses it; the run
asks of every journal the validator admits what the plan would answer.

### V3B2Lifecycle

`world` is everything that survives the process: profile, cluster, what has
been applied in it, drivers, requests sent, the drained listener, the captured
sources, the public bundle, and of the private active paths, which a teardown
must clear, the Docker configuration that `preflight` makes and the kind
configuration that `up` writes. `run` is the process: its program, where in the
script it is, and the operation in hand. `Effect` and `PartialEffect` are what
commands do to the host, entirely or half-way. `Validated`, `Verdict` and
`CleanupPermitted` are the registry's decisions. `ForwardOp`, `DownOp` and
`TeardownOp` are the scripts: the next operation as a function of the journal,
which is how the code is written (`_advance_teardown` is one chain of ifs over
the journal) or what its straight-line code amounts to. `Configure` is what `_up_lifecycle`
does ahead of any intent, the write of `kind-config.yaml` (line 963), in a new
lifecycle and in one it is about to refuse (`BeginUnwind`). `Capture` and
`ClearFailedStart` come between the choice of an operation and its intent, where
`Preparation` says so; `ClearPaths` is the clearing of the active paths, which
may be withheld without its caller asking. `Claim`, `Dispatch`, `Observe`, `ObserveLast` and `Answer` are the phases of an owned operation;
`Prove`, `Cleanup`, `Clear` and `Reprove` are those of `recover` on a pending
one. `Crash`, `Land` (of an orphaned command), `ForeignDrift` and `PodUpdated`
are the environment.

### OwnedLifecycle

Seven variables without a process, a host or a journal: which requests were
sent and answered, whether the evidence is sealed, whether the lifecycle is
closed, whether absence is proved, what the comparison said and whether the
bundle is public. `V3B2Lifecycle` instantiates it with a refinement mapping
(`Owned`); the run `lifecycle_safety` checks `KeepsItsPromises == Owned!Spec`, and
`KeepsPromises` proves it.

### V3B2Files

The other view of the V3B-2 controller: not what it does to the host but how
what it says gets onto the disk. Of a directory entry `DurableDirectory` keeps
what it holds (`seen`) and the set of what it may hold after a power loss
(`may`); `Stored`, `Filled`, `Renamed` and `Synced` are the system calls. Each
controller walks from the intent (`Appends`, `SyncIntent`) through the command
(`Check`, `Launch`, `Acts`), the observation, the proof (`Prove`, `SyncProof`)
and the terminal (`Record`, `SyncTerminal`), or through the latch and the
teardown behind it; `Replays` is the load that rederives every proof. Of the
families one of each kind is kept: the setup, whose command is never repeated,
a deletion, whose command is, and the publication, which has files of its own.
Several controllers may be at any of these places at once; only `Replace` and
`Prove` take the append lock. `Writes` reads the journal as the sequence of
writes it amounts to, the latch among them, which maps it to `DurableLog`.

### V3B2Evidence and V3B2Publication

A private manifest says for each track what its four sources hold (`raw`), what
the capture made of them (`rows`), and whether the driver was instructed.
`Adapts` is `adapt_producer_sources`, `Joins` the join over the tracks,
`Buildable` and `Public` what `_build_public_bundle` refuses and builds,
`Verifies` what `_verify_v3b2` asks of the public files alone. File contents are
values of these operators; a checksum is the value it is of.
`V3B2Publication` prepares, verifies the staged files and publishes, and then has
a reader that works through `_read_tree_fd` one file at a time, lists, looks
again at each file's identity, and judges, while somebody else replaces,
removes or damages files. Bundles of other origin (`Strays`) are read too.

### TargetLedger

The file is a sequence of chunks, one per append, whole or partial; `known` and
`invalid` are the process's memory. A thread takes the lock, checks duplicate
and limit, writes, syncs, answers. A write may fail with nothing or a part
written, a sync may fail with all of it written, the process may die at any
point and a new one loads what it finds or refuses to.

### RequestPath

One track: the driver's call and any others, their threads in Envoy, in the
authorization service and in the target, each of which may be left running by
whoever waited for it, then the drain and the four captures one after another,
and the join over what was captured.

### DriverChannel and RequestSession

`DriverChannel` has the controller's session of one driver, the docker client,
the pipes in pieces, the container and a deadline that may pass at any time.
`Deliver`, `CloseBehind`, `ReadLine`, `Attest` and `CleanUp` are the operations
of `v3b1_driver_transport.py`; `Session` is what `run` makes of them.
`RequestSession` puts the driver of that channel at the head of `RequestPath`:
what the container was instructed to do is what calls Envoy, and what it heard
is what it writes. In V3B-2 the driver gets its instruction through
`kubectl attach`, a command whose result the lifecycle model has; there the path
is `RequestPath` as it stands (`lab = "v3b2"`).

### V3B1Session

`log` is what the journal's history says: the session, the readiness state of
each driver, its stops (replayed apart, as `_driver_stop_transition` does), the
requests and why one failed. `host` has the driver containers, what they sent
and the private files; `proc` is the controller process: its command, its place
in it, the track it is at, and its local sets (`sessions`, `intents`,
`attempts`). `DriverRules` and `RequestMay` are the validator's transitions and
`Append` is `journal_event` with all that can become of it: refused, written,
not written, written and reported as failed, written or not by a process that
dies. Each `for track in _TRACKS` is an action per track. The three programs
are `Readiness` (and the same start for `run`), `Requests`, and the handlers
`ReadinessFailing` and `RunFailing`, in which every step may fail again.

### V3B1Lifecycle

Adds `life`, the other events of the journal, and `site`, the profile, its
objects and the bundles. `down` is followed through its two branches: with the
profile present (load, close stranded requests, quiesce drivers, stop gateways,
freeze, stop services, prepare evidence, remove, delete) and without it (choose
what can be published from the journal alone, publish, verify, archive). The
containers of one role on all tracks are one object, except the drivers.

### LocalLifecycle

Seven variables without a journal, a process or a host: which requests left,
whether the evidence is frozen, whether the lifecycle is known to have failed,
whether nothing owned is left, what the foreign comparison said, which bundle
is public and whether the lifecycle is archived. Each action is one promise: a
request leaves only before the freeze and the deletion (`Send`), an environment
that sent something goes only with its evidence frozen or given up (`Remove`), a
bundle appears only over a compared, empty host and in the class it has earned
(`Publish`), and what is public or archived is not declared failed afterwards
(`Lose`). It differs from `OwnedLifecycle` where the two labs do: V3B-1 publishes
of a failed lifecycle too, and takes a publication back (`Withdraw`) if its
event cannot be written. `V3B1Lifecycle` instantiates it (`Promised`); the run
`v3b1_lifecycle` checks `PromisesKept == Promised!Spec`, and
`LifecycleKeepsPromises` proves it.

### V3B1Evidence

`V3B1Lifecycle` says when a source is copied and a bundle published; this module
says what they hold. A line in a ledger is two chunks, so that it can be read
half-written; a file is its contents, a digest the contents it was taken of.
`Leg` to `Terminal` are `_freeze_sources` and `_collect_freeze_leg`: take up what
the journal attests, put aside what it does not, probe, copy, export where the
copy failed, persist, classify. `Joins` is `_join_evidence_records`, `Preserved`
the failure bundle's choice, and `Publishable` and `Accepts` are the checks of
`finalize_publication` and the two verifiers, each translated on its own. The
initial states are what a track's services can have recorded when its gateway
has been stopped, for each way its request can have ended (`Cases`); `Late` is a
service that still works on a request nobody waits for.

### Kernel, Replay, ReferenceGateway, RunBundle

`Decide` follows `decide` reason by reason; a decision keeps its set of reasons
and the three charges. The decimal context is abstracted to constants: `Computed`
is what it makes of `charge * exp(-rate * elapsed)`, `Penalty` what it makes of
the superlinear loss, `Slip` what rounding adds to a difference, `DecayRaises`
and `LossRaises` where it raises. Nothing is assumed of them but their types, so
what is checked and proved rests on the code's own clamps and comparisons.
Missing evidence, a missing profile and stale evidence are one case, as they are
in the code. `Verifies` is `verify_q_state` over the claims of a token; one that
cannot be parsed or whose signature is wrong is not `genuine`.

`Replay` has the scenario read so far, the three sets of successful events and
the report; `Load` is the loader on one event, `Step` the replay's loop body.
`ReferenceGateway` has the markers of each track's target and the answers given;
`Handle` is `handle` with the adapter's `evaluate`. `RunBundle` has, for each
process that publishes, its place in `write_run_bundle` and its temporary
directory, beside the one directory under the run ID; a process may fail at any
write, at the rename or in the clean-up, and may be killed or interrupted, also
between the rename and the return. `KernelPrograms`
runs either a replay followed by its publication, or the gateways: the two share
no state, only the kernel.

## 3. The runs

| Run | Question | Bounds | States |
| --- | --- | --- | --- |
| `journal` | Whatever is appended in whatever order the validator admits: are requests chained, does publication follow teardown, and is what `recovery_plan` proposes admitted and in order? | 2 tracks, with and without committed inputs, every observation, no other bound | 556 335 |
| `lifecycle_safety` | With crashes and failing commands that end with their process: is what is recorded absent, failed or frozen so for good, and does an operator who keeps running `recover` reach the end, and does the controller implement `OwnedLifecycle`? | 2 tracks, 3 faults, both platform contracts | 303 708 |
| `lifecycle_orphans` | With commands that outlive their process too: is nothing sent twice, destroyed unseen, done behind a latch or published wrongly? | 3 tracks, 3 faults, both platform contracts | 1 580 666 |
| `lifecycle_quiesce` | A statement of the documents the code does not keep (section 6) | 1 track, 1 fault | |
| `files` | With several controllers, deaths, failing syncs and power losses: does each command have a durable intent, each terminal a proof that replays, and is no acknowledged write lost? | 2 controllers, 3 faults | 451 637 |
| `publication` | Does what is built verify, did what a reader accepts stand there at one moment, and is nominal success earned? | 3 tracks of which one differs, 2 changes of the directory | 700 152 |
| `target_ledger` | Is a ledger that does not call itself invalid exact, through concurrent appends, failures and restarts? | 4 calls, 3 IDs, 2 records, 3 faults | 14 516 |
| `request_path` | Is nothing let through unrecorded, is what driver and session believe so, is evidence that joins true, and does no exchange need its deadline? | both labs, 2 calls, 2 faults | 2 295 251 |
| `v3b1_lifecycle` | Is everything the V3B-1 journal says true, is no request repeated or unaccounted for, is what is published right, does the lifecycle implement `LocalLifecycle`, and does repeating `down` reach the archive? | 3 tracks, 2 faults | 205 512 |
| `v3b1_evidence` | Is what was frozen the source and not a part of it, can every `down` read on, does a complete bundle hold what it stands for, and is what was attested accepted? | 2 tracks of which one is denied, 2 faults, 2 chunks written late | 6 619 431 |
| `v3b1_ambiguous` | Is every ambiguous driver removed in the end? (It is not, section 6.) | 2 tracks, 2 faults | |
| `kernel_programs` | Does a denial cut off all that depends on it, does local evidence open nothing, does a proof speak of the whole history, is a bundle whole? | 3 events of 6 kinds that load and one that does not, 3 calls with 11 fixtures, 2 writers, 2 artifacts | 162 647 |

Why these are enough. The journal's rules speak of one track, of an earlier
and a later one, or of all; two tracks give each a case in which it bites, and
the theorems hold for any number. The lifecycle uses the code's three with
orphans, and two for what they make false and for liveness. A fault is a crash, a failed or partial command, a
withheld observation, a raised check, a foreign change or a Pod update; three
of them let a recovery fail during the recovery of a failed recovery. In
`files` two controllers give every pair of places at once, and a third would
wait for the same lock; three faults are a death, the death of its recovery,
and a power loss over what both left; the theorems hold for any number of
either. In `publication` two changes allow a file to be replaced and its replacement
removed, or two files to change between being read and being looked at again;
one differing track reaches each refusal, since the rules speak of one track or
count all. The
ledger has more threads than IDs, so an ID comes twice at once, and more IDs
than records, so the limit is met; three faults are a failed append, a crash
and another one. In `request_path` the second call is what anything other than
the driver does at the gateway; both carry the same request, the case in which
evidence could be confused. In the V3B-1 lab `MaxBreaks` bounds all that fails on
path and channel together: two let a failing write be followed by a failing
clean-up. In V3B-1 two faults let the handling of a failure fail,
or a failure be followed by a crash and any number of `down`s; three give no
further kind of stuck lifecycle (checked with two tracks). In `v3b1_evidence` the
tracks are the two kinds the closed result knows; legs meet only in the join and
the class, which speak of one track or of all; the two faults are a failed copy and
a failed export, or one of them and a death; and two late chunks are a line that
is torn when it is probed and whole when it is copied (two whole lines and a torn
one before another are initial). Three events make a
chain with a middle and a fork; each body is a way to be permitted or refused on
some track, among them a charge that rounding carries above itself, one that
arithmetic raises over and evidence that is stale. Three calls at the gateways
ask once before, once at and once after a permit; the fixtures cover each check
of `verify_q_state` once. Two writers suffice for every race at one directory,
and `MaxPublished` publishes only scenarios of one event, since the content is
not looked at. All counters that grow (`faults`, `breaks`, and `version`, identities and
the chunks with them) are bounded by `MaxFaults`, `MaxBreaks`, `Calls`,
`MaxCalls`, `MaxChunks` and `MaxRecords`, a scenario by its event IDs.

Deadlock is not checked in `files`, `publication`, `target_ledger`,
`request_path`, `kernel_programs` and the V3B-1 runs, whose systems do stop: a
preparation that died is not resumed, a reader has judged, all calls are
answered, a command ends, a lifecycle is archived. In the other V3B-2 runs it is
checked.

Symmetry is used where no property tells the members apart and none is a
liveness property: of the controllers in `files`, the calls and IDs in
`target_ledger`.

### Properties of the journal and of the plan

- `HistoryInOrder` (`RequestChain`, `PublicationFollowsTeardown`): what a history
  shows of requests and of publication, whoever wrote it.
- `PlanLeadsOn`: whoever follows the plan of an unbroken lifecycle is neither
  refused by the journal nor left without a step while something is owned.
  Failed or abandoned operations, which the plan proposes again, and a
  request-free lifecycle whose drivers still wait are its stated exceptions.
- `PlanKeepsOrder`: what the plan repeats, it repeats in the order of teardown.

The type invariant, and the journal's rules about failures, cancellations, late
results and forward work, are theorems and not run again.

### Properties of the files

- `MutationIsRecorded`: no command without an intent that survives. It needs
  more than the order of two lines: a second controller may act on an intent the
  first has not synced, and does so only behind an append of its own.
- `TerminalHasItsProof`, `ProofsReplay`: what load-time replay finds beside every
  terminal, and that replay decides it the same way again, though the latch may
  have been set by, before or after it.
- `SetupSentOnce`: whichever controllers are started, and however they end.
- `KeepsTheLog`: the journal refines `DurableLog`.
- `PublishedIsDurable`: nobody finds half a bundle, and what `nominal` returned
  no power loss takes.

### Properties of publication

- `PreparedIsPublished`: builder and verifier agree, so what was prepared is not
  refused when it is staged. A change of the global context alone is the one
  lifecycle where they do not, and the property excepts it (section 6).
- `AcceptedStood`: a reader that accepts has read one directory.
- `AcceptedIsEarned`: a bundle that verifies as nominal success was made of
  sources in which every track was asked once and ended as the contract says.

### Properties of the request path

- `ReachedIsPermitted`, `JoinsTrue`: between the driver, Envoy and the ledgers.
- `BeliefIsBacked`: what the driver heard is in the ledgers; in V3B-1, a driver
  that was not told never sends, and a result the session attested is the one of
  a call that completed.
- `EndsInTime`: the two sides of the pipes do not wait for each other.

### Safety properties of the controller

`lifecycle_orphans` checks these but for `FreezeIsFinal` and `RecordedIsTrue`,
which `lifecycle_safety` checks. What the latter run's controller can do the
former's can too: its orphans are only a possibility.

- `ClaimedBeforeSent`: a request goes out at most once, after its claim.
- `NoForwardAct`: a latched lifecycle starts, sends and publishes nothing.
- `DestructionInOrder` (`EvidenceBeforeDestruction`, `ClusterGoesFirst`): sources
  are captured before their cluster goes, and it is gone before its profile.
- `FreezeIsFinal`: what was frozen is all that was ever served.
- `RecordedIsTrue` (`AbsenceIsFinal`, `FailedMeansNotApplied`): a proof of absence
  and a recorded failure are true and stay true, while no command outlives its
  process. The one file that may be there again is the kind configuration of a
  later `up` that was refused (section 6).
- `PublishedIsSound`: a public bundle belongs to a lifecycle that ended well, with
  the same exception.

### Properties of V3B-1

- `SentIsRecorded`: a request leaves once at most, after its instruction intent,
  and a journal that says it cannot have left is right.
- `AuthorityIsTrue`: what a later process is allowed to expect of a container is
  what it finds.
- `StartedAndToldOnce`: no container is started or told twice, and a failure ends
  the run for later tracks.
- `PromisesKept`: the lifecycle refines `LocalLifecycle`: between what was sent,
  what was copied of it, what is removed and what is published, over any number
  of deaths and repeated `down`s, each of which has only the journal to go by.
- `FrozenIsFinal`: no request arrives behind a copied source, also while the
  freeze is not over. It is a theorem (`CopiesAreFinal`) and not run again.
- `CompleteIsTrue`: a complete bundle stands for a lifecycle in which every
  request completed, of which nothing is left, beside unchanged foreign profiles.
- `DownEnds`: see fairness.
- `FrozenIsSource`: a kept copy is its source, and for an answered request all it
  ever held: neither a fragment nor a line being written passes for it.
- `EveryRetryReads`: no terminal stands beside a file it did not attest, over
  which every later `down` would raise before it removes anything.
- `CompleteIsNominal`: a complete bundle has one line of each source that should
  have one, of requests answered as the closed result expects.
- `AttestedIsAccepted`: preparation and verifiers agree, so evidence attested
  before the teardown is not refused when its sources are gone.

### Properties of the kernel's programs

- `SuccessIsConnected`, `LocalWithinSigned`: what a denial cuts off, and that the
  reducing track reaches nothing the signed track does not.
- `ProofIsHistory`: `proof_valid` speaks of all earlier calls with the request,
  not of one: the second of two permits is not proved, nor a refusal behind one.
- `BundleIsWhole`: whoever writes, fails or dies.

### Fairness

`RecoveryEnds` assumes `WF(Work)`, that a process which can take its next step
does (it is an ordinary process that no lock of another can hold for ever), and
`SF(BeginRecover)`, an operator who runs `recover` again whenever no process
runs. Nothing is assumed of the environment, of `up`, `down` or the forward
programs. `Manual` names the situations in which `recover` cannot decide: a
start or cluster creation that left something which is neither the owned object
nor its absence, a broken cluster, an Envoy that still serves under a pending
quiesce, an in-cluster step whose failure is unlatched, sources that do not
read the same again, a pending absence proof over private files that nothing
clears any more. `RecoveryEnds` says these are the only ones.

`SessionFairness` says that every process of a V3B-1 session goes on: the driver,
docker and the controller, and the connection's timeout of two seconds, which
the driver sets itself. Neither the session's deadline nor a fault is forced, so
`EndsInTime` fails if two of them wait for each other.

`FairSpec` of V3B-1 assumes the same: processes run on, drivers do what
they were told, and `down` is called again. `DownEnds` then says that the
journal is archived except where `NeedsAHand` names why not: `Unowned` (a
profile or object the journal cannot call its own, which the code documents as
manual recovery), `NoSnapshot` (`up` died before its first snapshot; no profile
exists, but `down` raises), `Unstoppable`, `Disagreeing` and `Unattested`
(section 6). Without any one of the five TLC finds a counterexample. Files,
publication, target and path have safety properties only: deaths and timeouts
make any other progress one of the environment.

## 4. What is proved

Every invariant and action property of the passing runs, and the three refinements,
are theorems of their specification: for every value of its constants, which
the run shows for one choice. Eight modules hold them; `PROJECT.json` lists
theorem by theorem the property it states. Five theorems carry a hypothesis
beyond the assumptions on constants (`~Orphans`, below).

A pattern recurs. Hardly any property is inductive, because it relates the
journal or a bundle to something that changes elsewhere. Each proof therefore
has an invariant that says, place by place of the process, what the process
relies on there; a small set of moves that every action is shown to be one of;
and lemmas that each move keeps each part. Leaves are kept small enough to be
proved in a fifth of the provers' time limit, so that a slower machine finds the
same proofs.

### The V3B-2 journal: `V3B2JournalProofs`

`TypeCorrect`, `RequestsInOrder`, `PublicationsWait`, `HistoriesInOrder` (both),
`FailuresLatch`, `CancelsWait`, and the action properties `NoLateResults` and
`NoForwardWork`. `Moves` says how one step may move one pair: not at all, from
`none` to `pending` as the intent's rules allow, or from `pending` to a settled
stage as the terminal's rules allow. `Frames` says what a step may do to the
rest. `SettledStays` follows: a settled pair is final. All else is derived from
these, without going through the actions again.

`IInv` is `TypeOK`, the four invariants and two strengthenings. None of the
four is inductive alone. `RequestChain` needs `RequestStages`, that a request is
never `failed` or `abandoned`: the rule for a new claim asks that no earlier
request be pending, from which "all earlier requests are complete" follows only
if they cannot be anything else. `PublicationFollowsTeardown` speaks of five
operations, of which the publication's own rule mentions one; the rest were
established when the later of two neighbours was intended, and `TeardownLinks`
keeps these four links as facts of their own. `CancelAfterFreeze` needs that the
mode cannot change once there is an event (in `Frames`).

Of the recovery plan: `PlanRepeatsInOrder` and `PlanIsFollowed`. `recovery_plan`
looks for the pending operation family by family, and the validator admits what
it proposes by rules of its own, so what it rests on is a fact about journals:
`PlanInv` says that at most one pair is pending, that drivers come behind the
readiness, that the cluster is being deleted only with every started driver
cancelled, and the profile stopped only with the cluster proved absent or never
owned. The proofs compare the two sets of rules case by case of the chain.

### The V3B-2 controller: `V3B2LifecycleProofs`

For any tracks, programs, contracts and number of faults: `SentBehindItsClaim`,
`DestroyedInOrder`, `PublicIsSound`, `LatchedOnlyCleansUp`; `LifecyclesAreJournals`,
that every lifecycle is a behaviour of `V3B2Journal`, so that the theorems above
are theorems about it; and, if no command outlives its process,
`FrozenForGood`, `RecordedStaysTrue`, `KeepsPromises` (the refinement of
`OwnedLifecycle`), `PublicIsWhole` and `PublicIsForGood`.

A step either writes the journal and leaves the host alone but for the private
files, or carries out a command and leaves every pair alone (`Kinds`). What
that does to a pair, the host and the commands in flight is said once (`Pairs`,
`Hosts`, `Actors`). `LInv` relates the two: what the process holds is pending
(`InHand`), a command is claimed before it may act (`OnceClaimed`), the
scripts' order leaves links in the journal that its own rules do not ask for
(`SetupChain`, `HistoryLinks`, `DestructionLinks`), and the host is what the
journal says it is (`Sent`, `ProfileLinks`, `ClusterLinks`, `EvidenceLinks`,
`PublicationLinks`). The private files are part of `ProfileLinks`: behind a
completed absence proof only the kind configuration can be there again,
because `Configure` is the only step that adds one. `DestructionInOrder` for instance needs that a creation of
the cluster can no longer act once the profile is being stopped, which is a fact
about the whole history and not about either step.

`~Orphans` (that a killed controller takes its subprocess with it) is a
hypothesis where the statement is false without it: an orphaned request may be
served behind the freeze, and an orphaned start may bring up a profile whose
start was recorded as failed (section 6). Under `Orphans = TRUE` TLC violates
`FreezeIsFinal` and `RecordedIsTrue` with one track. The refinement carries it
because sealed evidence is part of it, and `PublicIsWhole` and `PublicIsForGood`
because they come by way of the refinement. The other theorems hold in either
case, and `lifecycle_orphans` checks four of them in the harder one.

### The V3B-2 files: `V3B2FilesProofs`

For any number of controllers, deaths and power losses. `IntentsSurvive`,
`ProofsSurvive` and `InputsSurvive`: what a reader of the disk may find has its
intents, proofs and inputs. These speak of `may`, every content a power loss could
leave, so a power loss preserves them by `LeftEntries` alone; all work is in the
writes. `IInv` adds the type invariant and three facts. `Locking`: one
holder, and whoever is between a locked write and its sync is it, so nobody else
changes the journal there. `Relies(c)`: what controller `c` may rely on where it
is, of which the heart is that behind the sync of an intent it is in every
journal that can survive (`Recorded`), and stays so because journals only grow
(`DiskSettles`), and that the proof named in the terminal about to be written is
durable. `Prep(c)`: a preparation is alone, since the inputs are created
exclusively. The step lemmas go action by action; most actions touch neither
journal nor proof, and `CarefreeStep` and `QuietStep` deal with them together.

`ProofsAgree` (`ProofsReplay`) needs `ReplayInv`: between the decision of a proof
and its terminal nobody latches, because both are written under the lock, so
what the proof says of teardown is what the journal's latch will say of it.
`JournalIsALog` is the refinement of `DurableLog`: `LogHolds` says that every
journal that may survive is a beginning of the present one and holds what was
acknowledged; each system call then is an append, an acknowledgement, a loss
or a stutter of the log. `PublicationIsDurable` and `SetupOnce` follow one
controller: `OneForward`, that at most one controller works forward on a root,
because only the one that prepared it does; `Leads`, what it knows of the
journal where it is; `Ships`, of the bundle.

### The V3B-2 bundle: `V3B2PublicationProofs`

For any tracks, contracts, manifests and number of changes. `ReaderSeesOneDirectory`:
`PInv` follows the reader: what it has read so far (`ReadSoFar`), that an
identity is not used twice for one name (`Fresh`), so that a file which still
has the identity it was read under has the bytes that were read (`ReadBytes`),
and what may have changed since the listing (`SinceListing`); a file found
unchanged when looked at again was unchanged when the directory was listed
(`LookedAgain`), for every file, which is the one moment at which all of it
stood. That identities are not reused is the model's assumption about the file
system. `NominalIsEarned` needs no induction but what the reader accepted
(`Judged`): the verifier rejoins the sources itself. `BuiltIsPublished` is about
two programs that were written apart: whatever `_build_public_bundle` finishes,
`_verify_v3b2` accepts, check by check (`BuildersVerify`), with the changed global
context of section 6 as the only exception.

### The request path: `RequestProofs`

For any number of calls, IDs, records and faults. `LedgerIsSound` and
`NeverAcknowledgedTwice`: one thread at a time holds the lock, with a line that is
in the file and an ID that is not yet in memory (`LockHeld`), and the memory of
a process that serves is backed by lines (`Backed`). `OnlyPermittedReach` and
`EvidenceIsTrue`: a call is at one place of the gate, which says what was decided
of it and whether it may have reached the target (`Guarded`); once no call is at
the gate and none can come (`Quiet`), what was captured stays what is there.
`BeliefIsTrue`: nothing but an instruction makes the driver call (`DriverTold`),
and a complete record can only come from a driver that has its answer
(`AnswerTold`), through half-read lines, closed pipes and deadlines.

### V3B-1: `V3B1LifecycleProofs` and `V3B1EvidenceProofs`

`V3B1LifecycleProofs`, for any number of tracks and faults: `LifecycleIsSound`,
`SendingIsRecorded`, `RecoveryMayTrust`, `CopiesAreFinal`, `CompleteBundlesAreTrue`
and the action property `DriversAreStartedAndToldOnce`. The invariant has two
halves. `Sound` is about the sessions: what the journal says of a driver is true
of its container (`Truth`), and what the process goes by where it is (`Course`).
`Truth` has no clause about the process, so a death preserves it. Whatever
changes a journal or a container is one of six moves (`Moves`: an event, a halt,
a start, an instruction, a request leaving, a container ending), and each keeps
the truth under what `Course` says of the places it is made from. The handlers,
in which every step may fail again, need no case of their own: they make only
moves that stop something (`Tended`). `Fits` and `Rests` are about `up` and `down`:
what is so at each place, and what is so once something was copied, attested or
made public. `Standing` closes it: `down` works in a profile that is there until
it has deleted it. Without it a bundle that is public and complete is not
known to be without a profile when `down` attests or stops.

`LifecycleKeepsPromises` is the refinement of `LocalLifecycle`. It is hard because
the promises relate events that no handler looks at together, and a repeated
`down` has only the journal to go by. `PInv` adds what is needed of the journal:
`Entries` says what its entries imply of one another (a deletion that was
intended is of an accounted lifecycle, a failure intent is of one that was not
completely up or is already gone, a bundle is of one that is gone), and `Posts`
what the process goes by where it is (`Working` while objects remain, `Ending`
when the profile is gone; a class is chosen over a comparison that stays, a
failure is prepared only while nothing is public). The heart of `Remove` is
`Accounted`: whoever removes objects has either frozen, or recorded that `up`
never completed, or sent nothing, which may have been established several
processes earlier. Steps that write and do nothing a promise is about (`Apart`,
`Aside`) are dealt with once; every other handler has a lemma that it keeps
`Entries` and `Posts` and takes one abstract step or none (`Kept`), and
`EveryStepKept` puts them together.
`BundlesAreAccountable` and `SettledForGood` are then facts of the abstract
lifecycle (an invariant and an action property of `LocalLifecycle`) that hold of
the program because it refines it.

`V3B1EvidenceProofs`, for any tracks, denials, deaths, restarts and lines:
`KeptCopiesAreSources`, `RetriesFindTheirFiles`, `PublicProofIsNominal`,
`AttestedPassesItsChecks`, `EndedLegsAreFinal`. What is copied is first seen, and
what is seen is a beginning of its source, all of it when its request was
answered, because then nobody writes any more (`AnsweredIsIdle`). The journal
takes the bytes of a copy that is what was seen, a terminal keeps those or none,
and a process on its way through the legs touches no file of a leg that is over.
So a promotable freeze has every source whole, and what is attested of it passes
the checks of the publisher and of the two verifiers, each of which is a
translation of other code.

### Kernel, replay, gateway and bundle: `KernelProofs`

For every type of name, every arithmetic and every scenario:

- `DecideIsValid`: no decision fails `DecisionRecord`'s own conditions;
- `LocalOnlyReduces`: a permit with local evidence is a permit without it;
- `VerifiedIsNotRefused`: a verified state is not refused for whose it is or
  when: the adapter's checks and the kernel's are the same ones, made twice;
- `ReplayTypeCorrect`, `LocalPathsAreSigned`, `DenialsCutOff`: the replay's type
  invariant, `LocalWithinSigned` and `SuccessIsConnected`;
- `ProofsAreHistories`: a gateway's proof tells the whole history of its request,
  because the markers of a target are the IDs of the answers that were
  forwarded to it (`MarkersAreForwarded`);
- `BundlesAreWhole`, `OneProcessPublishes`: of a run bundle, for any number of
  writers and any finite set of artifacts, that at most one process moves its
  bundle into place and that no step replaces or removes one. What is still
  written consists of whole files, and what waits for its rename is complete
  (`Written`). Whether the process that renamed also reports it is left open:
  it may die in between.

The first two follow from the clamps alone: `DecayedIsBounded` and `ChargesFall`
bound the charges whatever was computed, and a permit is the absence of every
reason: whatever refuses the signed mode, arithmetic that raises included, is
there in the reducing mode too. `LocalPathsAreSigned` lifts this over reachability by
one induction on the steps. `DenialsCutOff` is not inductive: that an event's
success is decided once and not changed by a later one needs distinct IDs, and
dependencies that were read before their event; `Ordered` says both, of the
scenario and of the successes so far.

### Assumptions

All are on constants, and TLC evaluates each in a run: positive numbers of
tracks and natural bounds (`NumTracksAssumption`, `EvidenceAssumption`,
`LimitsAssumption`, `BreaksAssumption`, `CallsAssumption`, `FaultsAssumption`, the two
`MaxFaultsAssumption`s); of programs, contracts and the kernel's constants their types
(`ProgramsAssumption`, `ContractsAssumption`, `OrphansAssumption`, `ContractAssumption`,
`AmountsAssumption` to `SlipAssumption`, `IdsAssumption`, `BodiesAssumption`,
`FixturesAssumption`, `RequestAssumption`); that a run bundle's artifacts are finitely many and
`SHA256SUMS` is none of them (`ArtifactsAssumption`); that the contents of files
are told apart (`ContentsDiffer`, `WholeAssumption`, `JournalsAssumption`); and of
publication that a captured target file is a list of records
(`PrivatesAssumption`), that a bundle has eight names in the order in which they are
read (`OrderAssumption`), and that the file that gets in the way is one of the
strays (`OtherAssumption`).

### Only model-checked

- Liveness: `RecoveryEnds`, `EndsInTime`, `DownEnds`. The installed provers do
  not reason about ENABLED, so not under fairness either.
- The two disagreements that have a run (section 6): they are counterexamples.
- Whatever would need induction over data: that a ledger's or scenario's recursive
  reading computes what its loop does. The models have none in a proved module.

Attempting a proof found places where the models said less than they meant.
Several CASE expressions had guards that overlap; TLC takes the first that holds,
and the language leaves the choice open, so a proof would have had to cover
branches the code does not take. Their guards are now disjoint. No property
turned out false.

## 5. What is not modelled

- Of the kernel: the decimal context itself (constants, above), the codec of
  tokens, evidence labels, rationales and digests, and the two geometric helpers
  of `decay.py` that nothing calls. Of the demo: its pages.
- Durability of a run bundle: the code syncs nothing, and a killed process leaves
  its temporary directory, which nothing reads.
- Of V3B-1: preflight, image builds, the rendering and comparison of runtime
  objects, legacy journal generations, and the readiness poison files, which
  repeat what the journal says of a session.
- Of V3B-1's evidence: timestamps, request identities and records of another
  run, driver results (`V3B1Lifecycle`'s `FailureEvidenceAgrees`), the fields of
  the manifests, a ledger that is missing or longer than the export's bound, and
  the private staging of a publication.
- The argument vectors of the command tables, and `recover`'s use of
  `recovery_plan`: it makes none.
- Concurrent controllers on the host: `V3B2Files` has them for the files and for
  one operation of each kind, `V3B2Lifecycle` one process at a time. A controller
  does not start on a private root whose preparation still runs (`Prepared`): the
  command line prepares and works in one process.
- The private files that `preflight` and `up` write once and only read again:
  archive, foreign snapshot, runtime projection. Of the active paths the
  kubeconfig and the Calico manifest, which are written after the start of the
  profile and cleared with the other two.
- Of the bundle: the content of topology, policy and records, which are taken as
  valid, the pages, and the anchoring of paths against replaced directories.
- Identities. The code binds each object to a UID, a nonce or a digest and
  refuses a replaced one; in the model nobody replaces owned objects.
- The parsers (`v3b2_inventory.py`, `v3b2_manifests.py`, the ownership and
  configuration-map modules), canonical JSON, Envoy's text, and byte budgets: they
  keep no state. A rejected observation is one the host withholds.
- The 32 and 64 rounds that bound teardown: a teardown takes fewer operations.
- Loss of unsynced data anywhere but in V3B-2's private root and public parent:
  the V3B-1 journal, the ledgers in the containers and the run bundles lose what
  a process did not write, not what the machine did not sync.

## 6. Disagreements met while modelling

With a run that shows them:

1. `lifecycle_quiesce`: the plan's table of recovery rules repeats the quiesce
   of an Envoy that still serves; `cleanup_commands` has no command for it, so
   `recover` reports unknown for ever.
2. `v3b1_ambiguous`: a driver whose last event is `driver_cleanup_intent` takes
   no `driver_stop_intent` (`tools/v3b1_local_envoy.py:1667`), which `down`
   appends for every ambiguous driver before anything else; a controller that
   dies there leaves a profile that no `down` removes. The driver design
   (section 9) says exact owned cleanup continues.

Seen on the way, and not worth a run each; the first three are exceptions that
`DownEnds` names, the next three are ones `Manual` names:

- `Disagreeing`: `run` writes a request's record to `requests.jsonl` before the
  journal says so (line 14822). If the process dies between the two, `down`
  closes the request as failed, and `_failure_request_records` then refuses the
  file ("normalized request is not durably completed") each time: everything is
  removed, nothing is ever published. The same happens when the result of a
  control failure cannot be written over an older one (line 14538).
- `Unattested`: `evidence_rejected_before_teardown`, the deletion, and a crash
  before the failure intent leave a `down` that finds no attestation to publish;
  a lost `source_attestations_persisted` one that publishes and never verifies.
- `NoSnapshot`: a crash right after `up` created its journal.
- A Pod whose resource version changed between two captures stops the freeze
  (`v3b2_controller.py:1341`); the design (lines 394-395) says a legitimate
  version change is not a replacement (`Uncapturable`).
- `up` on a lifecycle that was torn down writes `kind-config.yaml` again
  (`v3b2_controller.py:963`), which the teardown had unlinked as an active path
  (line 1740), before its first intent is refused. Nothing removes it: over a
  finished comparison the recovery returns at once (lines 1660-1665). Where the
  absence proof is still to come or pending, it finds the file and stays unknown
  for ever, since only a pending `profile_delete` clears (lines 1695-1696).
- Behind a start that failed, `_advance_teardown` ignores that
  `_clear_active_paths_if_profile_absent` could not tell (line 1769) and writes
  the intent of the absence proof over files that no `recover` clears.
- A target line whose sync failed stays in the file while its ID is forgotten
  (`target_http.py:196`), so the next request with it writes a second line,
  though the class calls itself a ledger "with atomic duplicate detection" (line
  92). `SoundUnlessInvalid` and `AcknowledgedOnce` show how far that goes: the
  ledger knows that it is invalid, and no ID is acknowledged twice.
- A process that dies between the rename of a run bundle and its return
  (`run_bundle.py:163`, `:168`) leaves a whole bundle that nobody reported, over
  which every later run of the same inputs raises `FileExistsError`.
- A process that dies between the bundle's rename and the sync of its parent
  leaves a pending publication that `recover` completes on sight
  (`v3b2_controller.py:1684`), without the sync: a power loss may then leave a
  journal that says published and no bundle. `PublishedIsDurable` speaks only of
  what `nominal` returned.
- `latch_teardown` returns early when it finds the latch (line 1394) without
  syncing the directory, so it may acknowledge a latch a dead process wrote and
  nobody synced.
- A publication pending in a latched journal stays pending for ever, with its
  bundle public: `_publication` raises over it at each observation.
- A crash between the journal's creation and the foreign snapshot
  (`v3b2_controller.py:918`) leaves a lifecycle that can be torn down and not
  published.
- With two controllers, a start may be recorded as failed while the other's
  command is still running, as with an orphan below.
- A change of the global context alone makes `_build_public_bundle` build a
  diagnostic bundle (line 1085) that `_verify_v3b2` rejects (line 1857).
- A told V3B-1 driver may still send after its session was cleaned up: ending the
  client does not end the container. The journal says so, conservatively, and
  `down` deals with the container.
- A start is recorded as failed when one observation shows no profile
  (`v3b2_proofs.py:192`), though the start that was issued before a crash may
  still be running; the design (lines 232-234) permits `failed` only when the
  mutation provably did not occur. With `Orphans = TRUE` and `recover` allowed,
  `FailedMeansNotApplied` fails for that reason.
- `run` and `collect` do not ask for `up_complete`, so a V3B-1 lifecycle whose `up`
  died just before it can send its requests. `down` takes it for a partial `up`
  (line 15780), records the failure and removes it without a freeze, what it
  sent included; the bundle says that it failed, so `LocalLifecycle` holds
  (`Remove` with `lost`).
- The V3B-1 validator alone admits `request_send_complete` straight from the
  claim (line 1830); only `run` excludes it.
- A failed lifecycle ends with the foreign comparison. The design (line 382)
  lists a published failure bundle; the validator admits no publication intent
  in a teardown-only history.
- After a request that failed before it reached its driver, `nominal` quiesces
  and freezes before it cancels the waiting drivers; the design (lines 373-374)
  orders it the other way round, and the validator admits only the code's order.
- After a torn append the target goes on: a later marker is acknowledged with
  200 although its line continues the fragment and cannot be read.
- The validator alone admits a setup step beside a teardown while unlatched;
  only the scripts exclude it.
- `recovery_plan` proposes a failed or abandoned operation again, and the freeze
  of a request-free lifecycle whose drivers still wait, both of which the
  validator of the same file rejects; a driver start that was only pending is
  never among the drivers it cancels.

## 7. Plan

Order of work, the most important behaviour first.

1. Done: the models of section 2, and the theorems of section 4, which state
   every invariant, action property and refinement that a run checks.
2. Next, models: V3B-1's private files system call by system call, as `V3B2Files`
   has V3B-2's; several V3B-2 controllers on one host.
3. Next, theorems: that V3B-1's evidence, as `V3B1Evidence` has it, is what
   `V3B1Lifecycle` takes it for. Liveness stays with TLC.

The run list is kept short. A new module's run takes the place of one that
shows a single disagreement, which this file goes on describing.
