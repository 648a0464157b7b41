# aikit in TLA+

Specifications of the parts of aikit that keep state across processes and
threads, model checked with TLC on small instances and, but for what must
eventually happen, proved with TLAPS for every value of their constants. Every
definition translates code under `src/`; `PROJECT.json` maps each one to its
lines.

aikit has no daemon for its own state: "every command works as a fresh
short-lived process; coordination is SQLite transactions plus per-context file
locks" (`src/docs/ARCHITECTURE.md`, section 5). Most questions are therefore
those of processes that share a directory and may die at any step. Two processes
do live long: the *encounter owner*, which holds a provider process per agent
session, and the *gateway service*, which holds connectors to messaging
platforms, the conversations they carry and the clients that follow them. Their
questions are those of threads, locks and a journal that trails the memory.

| module | what it is | checked by | proved in |
|---|---|---|---|
| `ViewRegister` | abstract: a context's view, one step of undo, the operations under way | refined by `Generations`, used by `Apply` and `Composition` | |
| `Generations` | the directory of a context: build, commit, rollback, collection | `MCGenerations` | `GenerationsProofs` |
| `Apply` | a toggle saved to a scope's file, resolved and committed | `MCApply` | `ApplyProofs` |
| `Resolver` | what a resolution makes of layers, a policy and requirements | `MCResolver` | `ApplyProofs` |
| `Procedures` | planned edits of the user's files, the undo journal, rollback and undo | `MCProcedures` | `ProceduresProofs` |
| `Composition` | a procedure and a generation applied as one, and undone together | `MCComposition` | `CompositionProofs` |
| `InvocationLedger` | abstract: admitted once, run at most once, one return | refined by `RoutineDispatch` | |
| `RoutineDispatch` | routines from a due occurrence to a recorded return | `MCRoutineDispatch`, `MCRoutineEvents` | `RoutineDispatchProofs` |
| `EncounterDelivery` | machine requests to a session, and the body that answers them | `MCEncounterDelivery` | `EncounterDeliveryProofs` |
| `ConversationTurns` | the turns of one connector conversation, stopped, reset and drained | `MCConversationTurns` | `GatewayProofs` |
| `ConnectorPump` | a connector's worker between kernel, snapshot and platform | `MCConnectorPump` | `ConnectorPumpProofs` |
| `StreamSubscription` | a stream of the gateway and the panes that follow it | `MCStreamSubscription` | `GatewayProofs` |

## Inventory

Crates: `aikit-core` (pure types and algorithms), `aikit-store` (files and
SQLite), `aikit-adapters` (other programs, gateways, agent connections),
`aikit-cli` (commands, the encounter owner), `aikit-tui`.

**Generations** (`aikit-store/src/generation.rs`, `locks.rs`). State: one
directory per content under `contexts/<ctx>/generations`, `metadata.json` in
each naming the generation it replaced, the links `current` and `previous`,
staging directories, a file lock the kernel drops with its holder. Operations:
reuse, build, commit (publish or repair, link, switch), rollback, collection.
Hard: the build runs outside the lock, a collection sweeps the staging trees of
others, the two links move by two renames, errors and kills fall between.
Correct when: neither link dangles, an apply replaces only what it read, a
generation appears complete, the undo survives everything but a switch cut in
two, the lock is given back.

**Scope documents and apply** (`aikit-store/src/edit.rs`,
`aikit-cli/src/app/mod.rs`). State: a TOML document per scope, the temporary
beside it, the view. Operations: open, toggle, save (truncate, write, rename),
resolve, read the base, commit; rollback. Hard: nothing is locked up to the
commit, and every process uses the same temporary name. Correct when: an apply
that reports success has both saved and put in force what was asked, a save
interrupted anywhere changes nothing, and what another pane applied is not
silently lost (the code does not keep the last). Interacts with the generations
through the base it hands over.

**Procedures** (`aikit-core/src/procedure.rs`, `aikit-store/src/procedure.rs`).
State: the world's files, `plan.json`, `undo.json` and backups per id, satisfied
markers per plan digest. Operations: plan, run (check, capture, apply per edit,
mark), rollback, undo. Hard: the journal has to be ahead of the edits, runs are
not locked, the user edits meanwhile, moves cannot always be inverted. Correct
when: a failed run leaves the world intact, what was done can be undone, an
undo restores and erases no work of the user's.

**Encounter deliveries** (`aikit-store/src/encounter_delivery.rs`,
`encounter.rs`, `aikit-cli/src/encounter_agency.rs`,
`encounter_native_release.rs`, `encounter_service.rs`,
`aikit-adapters/src/agent_session_host.rs`). State: delivery rows with a phase
and a connection generation, binding and release events, residents in the
owner's memory, one turn per lane, the operations mutex and the agency file
lock. Operations: send, queue, drain, acknowledge, attribute and finish,
reconcile, prompt, open and reconnect, release, stop. Hard: an intent is
journaled before an effect whose outcome may never be known; the reply races
the acknowledgement; the owner crashes and is started again; two drains work
from one reading of the queue. Correct when: one delivery at a time, none
prompted twice, none prompted after it was refused, no reply credited to the
wrong one, no body released under one.

**Repertoire composition** (`aikit-cli/src/app/repertoire.rs`). State: the
declarations of a scope, the saved procedure with its journal and marker, the
context's view. Operations: preview, apply (check, read the base, build, run the
procedure, commit), undo on a refused commit. Hard: two stores change one after
the other, with no lock over both; a preview is saved and may be applied long
after, twice, or again after a kill; the marker belongs to the plan's digest and
not to the preview. Correct when: what is reported is in force as it was
reviewed and is declared, a refusal leaves nothing of its own behind, an
interrupted application lands when it is tried again.

**Routine invocations** (`aikit-core/src/recurrence.rs`,
`aikit-store/src/routine_invocation.rs`, `aikit-cli/src/routine_dispatch.rs`).
State: the routines, the ledger of invocations (each read and replaced whole
under its own lock), the dispatcher's watermark. Operations: a tick, `run-now`,
the pass of a hook event, edits by the owner; admit, run, record, deliver. Hard:
several processes plan from readings made outside the locks, and die anywhere;
the routine and its method may change while one runs. Correct when: nothing is
run twice, the ledger always loads and keeps what it has, what runs is what was
proven, a return is recorded if its process is spared.

**Gateway** (`aikit-adapters/src/gateway_*.rs`). State: the kernel (bindings,
outbound cursor, pending operations, receipts, journals of streams) in memory
under one lock and written whole as a snapshot; the conversation engine's
in-flight turns, claims and queues; per connector a worker with an outbound
queue; per connection a sink. Operations: ingest, prompt, journal, stop, reset,
drain; prepare, push, execute, record; append, publish, persist, subscribe. Hard:
the engine's lock and the kernel's are held one after the other, a drain and a
worker want the same outcome, an effect precedes its receipt, the snapshot write
may fail. Correct when: a lane has one turn, a turn one recorded outcome, no
message is lost in silence, nothing is sent twice to a platform, a follower sees
each event once and in order.

**Resolver** (`aikit-core/src/resolve/mod.rs`, `policy.rs`): a pure function of
layers, a policy and a catalogue, by a depth-first visit, then a cascade. Hard:
the cascade is right only because the visit ends dependencies first; optional
requirements take part in both. Correct when it fails and succeeds as its
definition says.

**Native startup and conversations** (`encounter_service.rs`,
`encounter_conversation.rs`): reservations of a startup, their recovery after a
dead owner; seats and pending asks, lost or answered. Not modelled yet.

**Session lifecycle and spaces**, **inbox and curator**: append-only histories
with receipts; promotion by a procedure. Not modelled yet.

Catalogues, registries, knowledge, the Redis cache, credentials, harness
formats, terminal and command line hold data, formats or single transactions;
`PROJECT.json` lists each with its reason.

## How the models correspond to the code

### Generations
`dir`, `meta`, `current`, `previous` are the directory; `lock` the file lock;
`pc`, `base`, `target`, `stage` a process. `ReadBase` is
`current_generation_at`; `Reuse` `reuse_current`; `BuildStart` to `BuildFail`
`build`; `CommitLock`, `Refuse`, `Publish`, `Repair`, `Link`, `Switch` the steps
of `commit`; `Rollback` starts the same link moves in the other direction;
`Collect`, `Delete`, `Sweep` are `gc`. `Stop*` end an operation between or
inside its steps (an error and a kill look alike from here), `SourceMove` and
`Damage` change what a linked tree points to. A generation's content is its id.
Metadata is its recorded base: that it is replaced too when only the
materialization or the catalogue's data differ is left out (`KeptMeta`). Which
generations are newest to a collection is left open, so the clock is not
modelled. `was`, `cut` and `healed` are history: what the last complete switch
replaced, whether a switch was cut, whether a rollback had to go by metadata.

`RegisterSpec` is the refinement of `ViewRegister`: `view` is `current`, the
undo is `previous` except between the two renames of a switch, and an operation
is open from the read of its base.

### Apply
The generations are taken as the register, by `INSTANCE ViewRegister`: its
`Start` is the read of the base, `Replace` the commit, `Abandon` a refusal or a
reuse, `Cut` a commit that died. Files are inodes, because a process goes on
writing to the inode it opened when another renames it: `file` and `tmp` are
names, `text` contents, `fd` open descriptors. A text is the set of enabled
capabilities, or torn. Layers under the edited scope do not change during an
apply and are left out. An apply that stops may have committed (`Stop` at
"started"). `Rollback` leaves out the case of an undo aliased to the view, which
`Generations` has. `alone` and `promised` are history.

### Procedures
`world` maps paths to contents; `journal[i]` is the undo journal with the text
each step backed up; `mine[p]` the record in memory. An edit that replaces one
path is a put, a rename a move; `TornEdit` and `TornStep` say what a kill inside
a write leaves. `Check`, `Capture`, `Apply` are the loop of `run`, with its
error paths into the rollback; `Invert` and `InvertFail` are `undo_record`, used
by the rollback and by `undo`; `RemoveIgnored` is its one ignored error. Git
branches, commands and marked blocks are left out.

`TidyAssumption` says of the planned edits what the planners make of them
(`with_edit` in `aikit-store/src/skillsets.rs`, `template.rs` and `inbox.rs`, and
in `aikit-cli/src/adopt.rs`, `client.rs`, `profile_ops.rs`, `mux_install.rs`,
`doctor.rs` and `app/repertoire.rs`): two edits of a plan share no path, but for
something put where an earlier edit of it moved something away (`adopt.rs:880`
and `1103`). The runner itself does not
check it, and rests on it: of a path that is put twice, an undo looks at the last
text only. `found[p]` is history, the world when `p`'s run began; `orig[i]` and
`dirty[i]` are those of the run that first wrote the journal that is on disk,
which is what an undo can lead back to (`Journaled`). A run that is killed before
its marker, and run again and killed before its first edit, is why: the second
run leaves the first one's journal, and an undo then restores what the first one
found. A path is `Clean` if neither it nor the other end of a move that takes or
brings it was written by others.

### EncounterDelivery
`row`, `bound`, `release` are the journal: each action that writes it is one
`BEGIN IMMEDIATE` transaction or one statement of the code. The rest is the
owner's memory and goes with `Crash`. A thread's `job` and `pc` follow
`send_addressed`, `drain_one_queued`, the prompt of a draft and
`release_native`; `held` is the borrowed resident, whose lifetime decides
`Arc::try_unwrap` in a release. `turn` is the lane's turn; `ending` is a turn
that the reader has closed under the host's lock and not yet journaled.
`FinishTurn` is `attribute` and `finish` in one transaction. A refused delivery
(`failed`, "refused at drain") has a phase of its own, to tell it from a failed
turn. A reader whose process would not end may journal after the next body has
opened, and the bridge may be stopped by another thread while the reader
delivers: neither `Open` nor `StopBridge` waits for `ending`. Every statement
names the session, so one session is modelled. Admission by agency, context
checks and conversation membership are refusals the model takes freely
(`GiveUp`, `RefuseUnclaimed`). A drain may start at any time, since turn ends,
opens and sweeps start one. A startup is the one step `Open`; its reservation
and recovery, child messages and lost conversation asks are left out. `sent` and
`credit` are history: the prompts that reached the transport, and the turn whose
end settled a row. The generation of a row is kept from its dispatch on.

### Composition
`text` is what the scope declares, `journal` and `done` the procedure's undo
record and marker, `saved` the retained previews; the view is the register.
`Preview` plans. `Refresh` (or `StaleSources`) begins an application, and `shown`
is what it resolved then (`self.view`); `Check` (or `StalePreview`) compares what
was reviewed with the declarations as they are by then; `ReadBase`, `Reuse` or
`Build`, the four ways of `run` (`RunSatisfied`, `RunDrifted`, `RunStart`,
`RunRefused`) with `Edit` and `Mark`, `Commit` or `CommitRefused`, then `Report`,
or `Restore` and `Unmark`, are the order of `apply_repertoire`. What is built
(`Target`) is the repertoire reviewed if the procedure edits the declarations,
else the one of the refresh with the skill sets read again (`Resolved`), as in
`repertoire.rs:663-689`. An error after the commit, of reading back (`ReportFail`)
or because the view has moved on (`Report`, `generation.stale_base`), ends as
"late" and leaves the declarations; before it, as "refused" or "failed".

`UserEdit`, `UserUndo`, `SourceMove` and `ViewMove` are everything else that
touches the same state. The procedure is its one edit of the declarations: what
happens inside a run is the subject of `Procedures`. `revision` counts changes of
the accepted sources, so a content that comes back is a new revision: the model
never takes it for the old. The readings that `preview_repertoire` makes (353 and
452) are one step, and so are the base and the repertoire read at 635-638. The
discovery links beside the declarations and the rebuild of a damaged tree are
left out. `stands`, `steady`, `moved`, `torn` and `stale` are history; `steady`
are the processes whose run found the declarations of their refresh.

### RoutineDispatch
`routines` and `ledger` are files replaced whole under a lock, one step each;
`watermark` is a plain file, truncated (`TickTruncate`) and then written
(`TickStamp`). A process `p` is a tick, a `run-now`, an event pass or an edit:
`copy` is the list of routines it read at its start, `todo` the invocations it
planned, `cur` the one in hand, `got` its return. `TickPlan` is the planner of
`recurrence.rs`: the on-time window, the look-back, the newest `AtMost`. `Admit`
and `AdmitRefused` are the transaction of `admit`, its refusals and its merge
with an entry present; `AdmitFails` and `RecordFails` leave the file changed or
unchanged and tell the caller of an error, as a rename followed by a failed
sync does. `Execute`, `Return`, `Record`, `Deliver` follow `run_one`; `Mark*`
its marking of a routine whose proof went stale; `Edit*` the owner's commands. An
identity made by hashing is the tuple that is hashed. Credentials, the calendar
arithmetic and what a routine does are left out.

`LedgerSpec` is the refinement of `InvocationLedger`: an admission that writes a
new entry is `Admit`, `Execute` is `Run`, a recorded outcome is `Return`.

### ConversationTurns
`bound`, `genOf` and `answers` are the kernel's binding and journal; `flight`,
`starting`, `queue` and `draining` the engine's maps. Messages are numbered by
arrival, and `worker[m]` is the place of the thread that carries `m`:
`Ingest`/`Admit` is the ingress under both locks, `Spawn`, `Prompt`, `Register`,
`Await`, `Unregister`, `Record`, `Advance` the worker, `Pop` and `Release` what
`advance_queue` does in one critical section. `ended` is a turn's slot and
`taken` who took it. `Stop*`, `New*` and `Drain*` are the three control
operations, each at the points where it lets a lock go. `Ends(g)` is the
harness. A snapshot write that fails while a message is journaled and queued,
asks, images and group addressing are left out.

### ConnectorPump
`mem` is the kernel, `disk` the state file, `lock` the kernel's lock, `queue`
the outbound queue, `pc` the worker's place in its loop: `Connect`, `Top`,
`Pop`, `Execute`, `Record`, `Recorded` for an operation; `Arrives`, `Ingest`,
`Ingested` for an event; `PollFails`, `StreamEnds`, `Park`, `Exit` for the ends
of a connection. `Prepare`, `Saved` or `SaveFails`, `Push` are the callers, in
the four orders the code has. `Pause`, `Stop`, `Crash`, `Restart` are the service.
An operation has a `ref`, the kernel's cursor, which a crash may give out again,
and a `number`, which never repeats and is history. A connection whose hello
cannot be written parks the worker (`Park`). A receipt that names another
operation or connector (`gateway_runtime.rs:978-986`) is left out.

### StreamSubscription
`mem` and `disk` are a stream's journal and its snapshot. `Post` appends and
publishes, `Write` persists, in the order of the code; `Subscribe` reads the
replay and registers the sink under the lock; `ReplayWritten` is the replay
answer being written before the writer of the sink starts, `Follow` the pane
taking a frame, `Back` and `Open` the pane's new connection from the last
sequence it saw. A subscription writes the snapshot too; one that cannot ends
the connection and was none. A second `Subscribe` on one connection, which the
pane never sends, is left out.

### Resolver
`asked` and `catalogue` are chosen at the start, and `phase` is the place in
`run`. `Fold` and `ForcePolicy` are the layers and the policy; `Root`, `Skip`,
`Look`, `Leave` the visit, with its colours and its stack; `Check` and `Finish`
the availability gate with the cascade, conflicts and collisions. Roots and
requirements are taken in any order, where the code has one, so the result is
shown not to depend on it. `ResolvesAsDefined` compares with a definition by
closure and fixed point that knows nothing of visits. Why a gate refuses a
capability is data; profiles come folded into a layer, without the errors of
their expansion, and every layer is taken to be valid (`patch.validate`);
configuration, overlays and the digest are left out.

## Runs

Bounds are named constants of the modules or values in the `.cfg` files.

| run | instance | shows |
|---|---|---|
| `generations` | 2 processes, 3 generations, 1 fault, keep 1 | types, `LinksResolve`, `UndoIsKept`, `NoDiscard`, `PublishedWhole`, and the refinement of the register |
| `generations_live` | 2 processes, 2 generations, 1 fault | `OperationEnds`: an operation begun ends |
| `apply` | 2 processes, 2 capabilities, 4 applies | an apply no other overlaps lands, and its save is atomic, whatever earlier ones left behind |
| `resolver` | 3 capabilities, 3 requirements, two layers or a layer and a policy; 987,845 states up to symmetry | the result is the one defined, in every order of visiting; dependencies come first |
| `procedures` | 2 processes, 2 ids, 3 paths, 3 operations, 1 user edit, 1 fault; 2,033,936 states up to symmetry | `UndoOpen`, `FailedRunIntact`, `UndoRestores`, `UndoKeepsUserWork` |
| `composition` | 2 processes, 2 items, 2 previews, 3 applications, 1 change of the sources, 1 by others, 1 fault; 4,465,930 states up to symmetry | a report holds, a refusal before the commit leaves nothing, an interrupted application lands |
| `routine_dispatch` | 2 processes, a scheduled routine with 2 occurrences, 2 revisions of its method, clock 0..2, 1 upset | the ledger loads, keeps its entries and implements the abstract one; what runs was proven |
| `routine_events` | 2 processes, a routine woken by one event, clock 0..1, 1 upset | returns are recorded and passes end |
| `encounter_delivery` | 2 threads, 2 deliveries, 2 bodies; 1,432,665 states up to symmetry | one slot, no second prompt, refusals hold, release excludes delivery, replies do not cross, settled stays |
| `conversation_turns` | 3 messages, 1 control operation of any kind, 2 generations, a queue of 1 | the lane has one turn, a turn one outcome, no message is met with silence, no queue is left behind |
| `connector_pump` | 1 caller, 2 operations, 2 events, 2 failed polls, 2 faults; 307,301 states | nothing is sent twice, no event journaled twice on a connection, the queue is served |
| `stream_subscription` | 2 panes, 4 events, a replay of 2, 2 faults; 48,934 states up to symmetry | each sequence once and in order; no gap between replay and live feed |

Beside these runs, each of the following configurations checks one statement that
the source makes and the code does not keep, and TLC finds it violated
(`tlc -config GenDangling.cfg MCGenerations.tla`, and so on). They are not runs of
`PROJECT.json`, which lists the checks that must succeed. The comment of each
property quotes the statement and its place.

| configuration | of | property |
|---|---|---|
| `GenDangling.cfg` | `MCGenerations` | `CurrentNeverDangles` |
| `ApplyBase.cfg` | `MCApply` | `CommitsWhatItResolvedAgainst` |
| `ApplyLost.cfg` | `MCApply` | `DeclarationKept` |
| `ResolverOptional.cfg` | `MCResolver` | `OptionalSkipped` |
| `ProcKill.cfg` | `MCProcedures` | `UndoAfterKill` |
| `ProcHalf.cfg` | `MCProcedures` | `HalfAppliedNeverSurvives` |
| `ProcKept.cfg` | `MCProcedures` | `JournalKeptUntilUndone` |
| `CompReviewed.cfg` | `MCComposition` | `ReviewedIsPublished` |
| `RoutineFirstTick.cfg` | `MCRoutineDispatch` | `FirstTickFires` |
| `RoutineReplay.cfg` | `MCRoutineDispatch` | `DeliveredSuppressed` |
| `EncReturned.cfg` | `MCEncounterDelivery` | `ReturnedWasSent` |
| `EncRefused.cfg` | `MCEncounterDelivery` | `RefusalRecorded` |
| `TurnOrder.cfg` | `MCConversationTurns` | `ArrivalOrder` |
| `DrainReport.cfg` | `MCConversationTurns` | `InterruptsUnfinished` |
| `StreamGap.cfg` | `MCStreamSubscription` | `ReplayCoversGap` |

Why the bounds are enough. In a context, one process that is committing and one
that collects, rolls back or commits meet in every order; three generations are
needed for the two links and one more that can be collected; one fault at any
point is what the code is written to survive, and the proofs lift all three. An
apply's interference is between two processes over one temporary; three inodes
are the file, the temporary and one renamed but still open; four applies let a
failed one leave its temporary to the next three. The scripts of procedures are
a link before a move and a move before a link, as adoption plans them, so that
rollback crosses both kinds in both orders, and the link of the one, made by a run
that stops there, touches no path of the other; three operations let a run be killed, run again and
undone, and the proofs lift the bounds. Two deliveries are what cross-crediting
needs, two bodies what a late reply of the old one needs, two threads two drains
or a send against a release; the proofs lift all of them.

A composition's interference is between two applications, of one plan or of two,
and at most one thing from outside each; a third application is the retry of
what died. Two occurrences tell the newest from the one it leaves behind, two
revisions the proof that a routine carries from the one its method has come to,
and two processes the tick from the edit it does not see. Three messages are one
in flight, one queued, one popped or turned away; two generations the lane before
and after a reset. Two operations share one queue and, after a crash, one
reference; two failed polls reach the limit, which is two there. A replay of two
in four events can be cut short, or not. Three capabilities are a shared
dependency, a chain or a cycle; three requirements close each of them with
every mixture of optional ones.

Symmetry is used in the runs of safety properties only, never with fairness.
Deadlock is checked except where the bounds let a run stop (`Apply`,
`Procedures`, `Composition`, `StreamSubscription`), a resolution ends
(`Resolver`) or the service may end (`ConversationTurns`).

The type invariants of `Apply`, `Procedures`, `Composition`, `RoutineDispatch`,
`ConversationTurns` and `ConnectorPump` are definitions that no run lists; they
were checked on the same instances and are proved.

**Fairness.** Always of the system's own steps, never of a request or a fault.

- `generations_live`: `WF(Advance(p))`: a process that has begun an operation
  goes on with it. The code has no waiting but the poll for the lock, which has
  a deadline (`locks.rs`); the deadline is `LockBusy`, a step of `Advance`.
- `routine_events`: `WF(Step(p))` for each process; the locks are taken and
  given back within a step, and a crash ends the pass.
- `conversation_turns`: one weak fairness over all workers, the ends of turns
  and the control threads: the engine as a whole goes on while it can. A turn
  ends because a stop or a deadline cancels what does not end by itself.
- `connector_pump`: weak fairness of the worker's loop, of its exit and of the
  callers, and strong fairness of `Connect`: a platform that can be reached again
  and again is reached at last. `QueueServed` excuses a connector that is parked
  and a service that ends; a pause is no excuse.

### What the code does not keep

The configurations of the second table show these. Beside them stand a few
expectations no sentence of the source states, named where they are.

- `aikit-store/src/generation.rs:1071`: a rollback that finds `previous` aliased
  follows the base in the metadata without looking whether it was collected:
  `current` dangles (`GenDangling.cfg`).
- `aikit-cli/src/app/mod.rs`: `apply` reads its base after it resolves, so the
  compare-and-swap does not cover what was put in force between the two
  (`ApplyBase.cfg`); scope documents are saved without a lock or a compare, so an
  acknowledged toggle is lost to another apply (`ApplyLost.cfg`).
- `aikit-core/src/capsule.rs:409`, "An optional requirement is expanded when
  available and skipped otherwise": one that is present and refused withholds
  what asked for it, by the cascade (`resolve/mod.rs:1154`, `ResolverOptional.cfg`).
  An optional requirement in a cycle is fatal too.
- `aikit-store/src/procedure.rs:23`, "`undo` replays whatever is there in
  reverse": `undo` requires every edit of the plan to show, so a run killed
  halfway cannot be undone (`ProcKill.cfg`). The inverse of a move that failed
  stops the rollback before earlier edits (`ProcHalf.cfg`). A run refused by its
  preconditions discards the journal of a killed run of the same id
  (`ProcKept.cfg`).
- `aikit-cli/src/app/repertoire.rs:651`, "Build from the reviewed hypothetical
  view": a procedure that edits nothing builds from the view of the refresh, so
  declarations edited out before it and put back before they are read again are
  published and reported as they were at the refresh (`CompReviewed.cfg`).
  Not stated by the source, and violated as `CompReviewed.cfg` says: an error
  after the commit leaves the application's declarations standing
  (`ErrorLeavesNothing`); a satisfied marker outlives declarations edited back by
  hand, and the same request is then refused as drift however often it is
  previewed again (`FreshPreviewLands`); of two applications of one plan, the one
  that ran it may be refused by the register and take back the declarations the
  other has found done, committed and reported (`ReportOutlivesRefusal`); of two
  applications of one saved preview at the same time, the refused one may find its
  journal discarded by the other (`RefusedLeavesNothing` with `Shared = TRUE`).
- `aikit-core/src/recurrence.rs:129`: what is on time is measured by a window as
  long as the tick interval, so a first tick may miss what is due
  (`RoutineFirstTick.cfg`), and the newest `max` are kept from a list that still
  holds what was delivered (`RoutineReplay.cfg`): refs of deliveries are compared with
  refs of occurrences (`recurrence.rs:122`).
- `aikit-adapters/src/agent_session_host.rs:1531`: the end of a turn settles
  whatever delivery of its connection is unresolved; one reserved after the lane
  went idle and before that end is journaled, or claimed and then not prepared,
  is recorded as returned without having been prompted (`EncReturned.cfg`).
- `aikit-cli/src/encounter_agency.rs:1249`: when the preparation of a delivery fails
  after its claim, the refusal is of a row that is no longer queued, and is itself
  refused: the row stays dispatching and holds the slot until the operator
  reconciles it, against `encounter_delivery.rs:225-229` (`EncRefused.cfg`).
- `aikit-adapters/src/gateway_conversation_engine.rs`: a message that arrives
  between the removal of the in-flight record and the advance of the queue
  overtakes what is queued (`TurnOrder.cfg`; the header, lines 45-47, promises the
  order of arrival). A drain that took a turn's record while its worker held the
  outcome reports as interrupted a reply that was finished (`DrainReport.cfg`).
- `aikit-tui/src/conversation_surface.rs:753`, "the replay then covers exactly
  the gap": a replay is cut at its limit, and the live feed then moves the cursor
  past what was cut (`StreamGap.cfg`).

The models show further behaviour that contradicts no statement: a message
popped from the queue while its conversation is reset falls silent; a parked
connector's queue is never served; a reference of an operation that was queued
before it was written is given out again after a crash; an event published and
not written leaves its sequence to another, which a client whose cursor is past
it never sees.

## Proofs

`tlapm` on each of the eight `*Proofs.tla` modules checks them. They assume what
the modules assume of their constants: distinct special values, natural numbers
as bounds and, of `Procedures`, plans as the planners make them. The sets may
have any size. Every invariant and every action property of the runs is proved,
and both refinements.

Two of the proof modules are about two components each: `ApplyProofs` about an
apply and the resolution that it makes, `GatewayProofs` about the gateway's
conversations and its streams. The components of a pair share no variable and no
step, and each is proved by itself; the names that both would use have a prefix in
the second (`ResolverInit`, `StreamNext`).

**Generations.** `Typing` is inductive by itself. The other results need
`IInv == TypeOK /\ Rest`, whose parts are `Mutex` (the lock is held by exactly
the process in a locked part), `Holding` (who is about to move the links goes by
the view in force, and moves to something present), `LinksResolve`, `Spare` (a
collection's remaining victims are present and unlinked) and `UndoChain` (how
`previous`, `was` and `cut` relate during and after a switch). None of the
safety properties is inductive without them: that a link resolves after a
switch needs `Holding`; that it survives a deletion needs `Spare`; both need
`Mutex`. Proved: `LinksAlwaysResolve`, `UndoAlwaysKept`, `NothingDiscarded`,
`AlwaysPublishedWhole`, and `ImplementsRegister`. The last adds `Returning` (a
rollback under way goes to the undo unless that is what is in force) and maps
each action to a step of the register: reading a base or beginning a rollback to
`Start`, endings without effect to `Abandon`, `Switch` to `Replace`, `Revert` or
`Heal`, a stop between the renames to `Cut`, the rest to stuttering.

**Apply.** Both properties are about an apply that no other overlapped, and so is
the invariant `ApplyInv`. `AloneNow` says that such an apply, while it runs, is
the only one in progress; `InodesKept` that a process has a file open exactly
between its truncation and its write, and that the temporary is never the file,
whoever renamed what before; `SoloSteps` how far the apply has come: its temporary
is the inode it has open, then holds its document, then is the file, and what it
has resolved is what the file declares. `OneMoves` says what a step of one process
leaves to the others, so that a step of another can only be a rollback or the
first of an apply, which ends `alone`. `SoloAlwaysLands` and
`SoloSaveAlwaysAtomic` follow, for a file system in any state that earlier applies,
overlapped, failed or killed, can have left.

**Resolver.** `ResolvesAsDefined` compares the end of a visit with a definition
by least closed sets and greatest fixed points, so the invariant must relate
every intermediate state of the visit to that definition. `WordsFolded`: what is
declared is the word of the last layer that spoke. `Shape`: the grey
capabilities are the path, the black ones the order, each once. `Seen`: what was
visited is selected, its edges are what it follows but for what it has yet to
look at, and consecutive capabilities on the path are joined by edges; so at the
end the visited are closed and contain the roots, and are the selected.
`Ordered`: unless a cycle was reported, edges of the order lead back and those
of the path to the order or to its next, which is `DependenciesFirst` made
inductive. `NoCircle` turns it into the absence of a cycle: of any set of black
capabilities, the last to turn black has no edge into it, so no subset can lead
into itself from everywhere, as `Cyclic` asks; conversely the path from a grey
capability that is met again to its top is such a set (`CircleFound`). `Told`: a
problem is reported for its reason, and each reason looked at has been reported.
`Gated`: what the gate let through has all that it follows, and what it withheld
is in no closed set free of refusals; at the end the first makes `active` part
of `Effective`, the second all of it. No finiteness is assumed of the
capabilities.

**EncounterDelivery.** `Shape == TypeOK /\ Wiring` says what a thread carries at
each point it has reached. `RowMoves` lists the four ways one step can change a
row; `Slot` (`OneActive`) and `SettledIsFinal` follow from it. `NeverResent` and
`RefusalHolds` use `Once`: a row that is absent, queued or refused has no
prompt, and one thread at most holds the claim on a row, before its prompt.
`ReleaseIsExclusive` uses `Intent`: a release under way is the latest, of the
latest body, and the only one. `NoCrossing` uses `Credited`: the turn in flight
and the turn being journaled carry different deliveries, a claimed delivery has
neither a turn nor a credit by its own turn, and a row has a credit exactly when
a turn settled it.

**RoutineDispatch.** `Shape == TypeOK /\ Wiring` again says what a process
carries. `LedgerMoves` states the only three ways a step touches the ledger: not
at all, an admission that was not refused, the outcome of a process that returns;
`ProcessMoves` what one step does to one process. `EntriesAlwaysStand` and
`LedgerAlwaysLoads` follow from the first, so they hold whatever the planner
decides; `AlwaysRunsWhatWasProven` from both. `ImplementsLedger` and
`AlwaysRunsAtMostOnce` need `Once`: what has no entry has not run, a process
about to run something is the only one and the first, and one that returns has
run it once. It is `Enters` (only the admission that created an entry goes on to
the run) that keeps `Once`.

**Procedures.** None of the four properties is inductive: each is about an end,
and what a run or an undo will leave at its end depends on every step still on
its journal. `Unwound(edits, j, w, o, written)` says it of a journal `j` at any
point: replayed in reverse on the world `w` it gives `o`, on the paths that are
clean of what others wrote. It is stated path by path, without a recursive
replay: a path no step is about is as it was, the first put of a path has backed
up what was there, and what was moved is at one of its two ends or was taken
away. The invariant asserts it of a run's journal in memory (`RunUnwinds`), of
an undo's (`UndoUnwinds`) and of the one on disk (`JournalSound`), where
`JournalIsRuns` and `JournalCovers` relate memory and disk; recording a step,
making its edit, a write cut short, an inverse and an inverse that was ignored
each keep it. Moves need that their target is free when they are recorded
(`MoveFits`), and that what they take is what the run found (`MoveFresh`).
`DoneStaysUndoable` is about a procedure whose own paths, written or read by its
plan, nobody else wrote; others may write what they like elsewhere. It needs
`RunShows` (what an undisturbed run made so far shows) and `StaysDone`;
`UndoneKeepsUserWork` needs `UndoKeeps` (what an undo has yet to undo shows). A
step of one operation is a step of every other that only writes paths, and these
are in the others' histories: `OthersGoOn` says once for all steps that they
stay sound. Two operations of one id at a time spoil each other's journal; their
histories say so (`Alone`), and nothing is claimed of their paths. The proofs of
the steps are by cases on the kind of edit, and rest on lemmas about `Made`,
`Unmade`, torn writes and shortened journals.

**Composition.** `Inv` relates what each application carries to the two stores.
`Planned`, `Numbered`, `Told`, `Standing`, `Staged` and `Opened` say what a
process knows at each step: its preview was made and retained, its tree is made
of the reviewed sources once the run has verified them, and what it declared
stands while nobody changes it. `Steadied` says when the tree of an application
that edits nothing is the one reviewed: when its run found the declarations of
its refresh. `ReportIsTrue` follows from them whatever the processes share, and
claims no more of such a tree. The rest holds when two processes do not apply
one saved preview at the same time, and so do the two theorems that rest on it,
with `~Shared` as their hypothesis (it is needed, as `CompReviewed.cfg` says).
`NothingLeft` is about what ends before its commit; it needs `Written` (what a
run wrote is journaled until its commit) and `Alone`. `ReplayIsRefusedForCause`
needs `Undisturbed` and `InStep`: as long as nobody else moved what a preview
was computed from, the declarations, the view and the marker are those from
before its application, or what that made of them, and each process that applies
it is where this shows. The marker is the hard part, since it belongs to every
preview of one plan: the induction failed first on an application whose marker
is taken away, between its run and its commit, by the undo of another preview of
the same plan. So `moved` counts a marker changed by others among what excuses a
refusal (`MarkerMoved`); an instance of one item, three previews and four
applications reaches it.

**ConversationTurns.** `Inv` follows a message from its ingress to its outcome.
`Admitted`, `QueuedOnce`, `HandedOn`: who is queued, once, under which binding,
and who woke whom. `OneClaim`, `LaneKnown` and `LaneRuns` give `LaneIsFree`: one
message at most is between the claim of a plane and the registration of its turn,
and who holds the claim finds no turn on the lane. `Registered`, `Drained`,
`Brought` and `NotYet` give `RecordedOnce`: a registered turn is its worker's or
a drain's, never both, and what somebody is yet to record has not been
recorded. `Accounted` gives `NoSilence`: once nobody is to record an outcome, it
was recorded or the message named, unless the conversation was reset under it.

**ConnectorPump.** `AlwaysSentAtMostOnce` needs `Sends`: an operation that was
not given to the platform is with one caller that has yet to push it, or once in
the queue, or in the worker's hand, or gone; its number is new when it is
prepared. A restart puts nothing back, which is why no invariant about the
snapshot is needed but the type of the cursor. `AlwaysJournaledOnce` needs
`Hears`: what a connection has not journaled is not among what it has seen, or is
in its hand.

**StreamSubscription.** `OnceInOrder` needs `Pending` (a replay answer under way
follows its pane's cursor frame by frame) and `Panes` (what a pane has shown is
not past its cursor): a pane shows of what it is given only what is past the
cursor, so the replay and the live feed may overlap. `LiveFeedWhole` needs `Down`
(nobody is connected to a service that is down, which alone may lose events) and
`Feeds` (a sink's place is within the journal). Both rest on lemmas about the
windows of a journal that is appended to (`AnyWindow`, `Rest`, `WindowGrows`,
`WindowShrinks`).

**Only model-checked**: the liveness properties `OperationEnds`,
`ReturnRecorded`, `PassesEnd`, `QueuedRuns` and `QueueServed`. Liveness under
fairness, `ENABLED`, induction over data and recursive operators are beyond the
prover; no module declares a recursive operator.

## Not modelled, and what is planned

1. The startup journal of native bodies, replacing the one-step `Open`, with the
   recovery of a dead owner's startup; conversations composed with deliveries.
2. Session lifecycle and spaces; the promotion of inbox entries.
3. Several sessions on one host, its interrupts and its event queue.
4. In the resolver, the expansion of profiles and of configuration; in the
   gateway, pairing, the communique journal and asks between agents.

Catalogues, registries, knowledge and its projections, the Redis cache,
credentials, harness formats, models and actors, the terminal interface but for
its subscription, and the command line are not planned: they hold data, formats
or single transactions, with no protocol for a model checker to explore.
