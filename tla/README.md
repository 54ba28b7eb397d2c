# TLA+ specifications of oca

`oca` dispatches coding tasks to workers (sessions of an OpenCode server),
keeps a small amount of state under `~/.oca`, and lets an operator follow,
message, abort and publish what the workers do. Every command is a process of
its own: there is no daemon, so all coordination goes through files, advisory
locks and the server. What is hard about the program is that any of these
processes may die or be killed between any two writes, that several of them run
at once on the same files, and that each is expected to repair what another left
behind.

## Inventory

| Component | State | Operations | Correct when | Module |
|---|---|---|---|---|
| Ref store (`oca-state/src/refs.rs`) | `refs.json`, the flock on `refs.lock`, the pending-sync marker (the length of `refs.lock`) | allocate, reserve, reserve_intent, allocate_reserved, insert_reserved, patch, tombstone, discard_unacknowledged, prune, list, resolve | never torn; no lost update; at most one replacement may be undone by a loss of power, and it is marked; ids unique among records and live dispatches | `RefMap`, `RefStore` |
| Intent store (`oca-state/src/intents.rs`) | `intents/<ref>.json`: operation, phase, session, message, reply, commit | write, read, list, remove | a write-ahead record of the next irreversible step | `RefStore`, `Dispatch`, `Publication` |
| Turn lock (`oca-state/src/session.rs`) | the flock on `session-locks/<ref>.lock` | acquire | one of `m`, `q`, `k` at a time per ref | `Dispatch` |
| Dispatch (`oca-core/src/foreground.rs`, `background.rs`, `oca-cli/src/foreground.rs`, `background.rs`) | the intent in memory, the event subscription | prepare, create session, subscribe, prompt, confirm, write ref, acknowledge, wait, finalize | a prompt is never sent twice; acknowledged means admitted and recorded; an admitted prompt can be found again | `Dispatch` |
| Worktree dispatch (`oca-cli/src/worktree_dispatch.rs`) | worktree and branch `oca/<ref>` | create, validate, commit, clean up | one commit per settled turn; work never lost | `Dispatch`, `Publication` |
| Crash recovery (`oca-cli/src/crash_recovery.rs`) | none of its own | reconcile for `ls`, `f`, `m`, by phase | never resends; converges | `Dispatch`, `RefStore` |
| Control (`oca-cli/src/control.rs`) | the turn lock | `m`, `q`, `k` | no parallel turns; busy and uncertain refs refused | `Dispatch`, `Headed` |
| Follow (`oca-cli/src/follow.rs`, `oca-core/src/follow.rs`, `oca-opencode/src/follow.rs`) | cursor, attributed messages, journal | observe, reconnect, classify, settle | only the target's own reply settles its turn; it ends when the turn does | `Turns`, `Follow` |
| Server (`oca-server`, `oca-cli/src/transport.rs`) | `server.json`, `server.lock` | connect or start, create a session | one server; a live record is used; nothing is sent twice | `Failures`, `ServerStart` |
| Repository lock (`oca-git/src/lib.rs`) | `.oca/worktree.lock` with its owner record, the reclaim mutex | acquire, reclaim, release | one owner, although processes die and their ids are used again | `RepoLock` |
| Worktree manager (`oca-git/src/lib.rs`, `recovery.rs`, `commit.rs`) | worktrees and branches | create, validate, commit, clean up orphans | what a command reported is so; no empty file committed | `Worktrees`, `Publication` |
| Publish (`oca-cli/src/publish.rs`, `pull_request.rs`, `oca-git/src/publish.rs`) | an intent in phase published_uncertain | push, pull request | no blind repeat; protected branches kept | `Publication` |
| Journal (`oca-state/src/journal.rs`, `oca-cli/src/events.rs`) | `events/*.jsonl` | append, finish, read, expire | numbered without a gap; a torn tail is detected, and only a torn tail | `Journal` |
| Attach helper and displays (`oca-cli/src/attach.rs`, `oca-display`) | a herdr tab or tmux window, named in the record | open, record, follow, mark, close | a live tab is kept, an open one is not forgotten | `Headed` |
| Configuration and resolver (`oca-state/src/config.rs`, `oca-core/src/resolver.rs`) | none | merge the catalog, resolve alias and effort | never a lower effort than asked for; a model without tools is refused | `Resolution` |
| Command line (`oca-cli/src/lib.rs`, `main.rs`) | none | parse; decide the form of an error before that | both readings agree; the published grammar is the parsed one | `Invocation` |
| Spawner tag (`oca-cli/src/scope.rs`) | `~/.oca/spawner` | draw once, keep | every process of a host goes by one tag | `Spawner` |
| Reply contract (`oca-core/src/reply.rs`, `reply_decode.rs`) | none | schema, decoder, floor | decoder and schema agree | `Replies` |
| Message ids, rate limits (`oca-core/src/message_id.rs`, `oca-opencode/src/failure.rs`) | the last clock reading | mint; parse the wait of a 429 | ids ascend within a window of the clock; dates are counted right | `MessageIds`, `RateLimits` |
| Preambles, rendering, test kit, generated client, build tasks | none that matters here | text | not modelled | |

They interact in three ways. Commands share the ref record, the intent file and
the OpenCode session of a ref: all of them may write the first two, at any time
and without a common lock except that each write of `refs.json` is atomic and
`m`, `q`, `k` exclude each other. The ref store consults intent files when it
chooses an id, and recovery restores records from intents. The server answers
requests late, ambiguously or never, and what it shows of a message is the only
proof that the message arrived. The worktree manager, the journal, the displays
and the server record each have a lock of their own, taken for one job.

The hazards of each component, at their lines, are in `PROJECT.json`.

## Modules

| Module | What it is |
|---|---|
| `RefMap` | abstract: what the ref store promises, one map that changes by whole updates, of which one at a time may be undone by a loss of power |
| `RefStore` | `refs.rs`, and of the intents what the choice of ids depends on |
| `Dispatch` | the life of one ref: dispatch, finalization, recovery and every operator command |
| `Failures` | how a failed exchange becomes an error code and an exit code |
| `ServerStart` | connect-or-start with the creation of a session |
| `RepoLock` | the lock of a repository, abstract to those who use it |
| `Worktrees` | the commands that take it, implementing `RepoLock` |
| `Publication` | validation and commit of a turn's files, push and pull request |
| `Turns` | the event scripts of a turn |
| `Follow` | one follow of a turn, over breaking streams, kills and resumptions |
| `Headed` | `Follow` inside the helper that shows a turn in herdr or tmux, and `oca k` |
| `Journal` | writers, readers and prunings of one event journal |
| `Spawner` | the spawner tag |
| `Resolution` | models, efforts and their catalog, as operators |
| `Invocation` | both readings of a command line, using `Resolution` |
| `Replies`, `MessageIds`, `RateLimits` | pure operators |
| `RefStoreProofs`, `DispatchProofs`, `TurnProofs`, `ServerStartProofs`, `WorktreesProofs`, `HostProofs`, `InvocationProofs`, `MCHostProofs` | theorems |
| `MCRefStore`, `MCDispatch`, `MCServerStart`, `MCHost`, `MCFollow` | instances for TLC |

### RefStore

`lock`, `marker` and `file` are `refs.lock`'s flock, its length and the records.
`onDisk` is what a loss of power may leave in `refs.json`: a rename adds the new
contents, a directory sync reduces it to the visible ones, and contents whose
temporary file was not synced come back as `Torn`. An operation is a sequence of
steps that follows the code: `LockRecords`, `ReadRecords` (which first retries a
pending sync), one of the operations (the closure given to
`with_locked_records`), `MarkPending`, `WriteTemporary`, `SyncTemporary`,
`Rename`, then `SyncDirectory` at once, or `Acknowledge` and `SyncDirectory` for a
`PendingRefAllocation`. `WriteFails`, `RetryFails` and `LeavePending` are the
failures of these calls, with the marker in any state the code may leave it in
(clearing and setting it are fallible too). `Crash` kills a process at any step,
`PowerLoss` everything at once, and with it any intents: those written before an
acknowledgement are never synced.

A command that reconciles or finalizes works from an intent it has read: `ReadIntent`
takes a `copy`, which nothing keeps up to date. From it recovery inserts the missing
record (`InsertReserved`), looking under the lock at the records and not again at the
intent, as `patch_or_insert_ref` does; writes the intent back (`PersistCopy`), also when
another has removed it; removes it (`RemoveIntent`), whosoever it is by now; or leaves
it (`KeepIntent`). A dispatch that gives up before its prompt removes its intent and
then, in an operation of its own, the record without a message (`AbandonIntent`,
`DiscardUnacknowledged`). A list that reads several intents does no more to the store
than several processes with a copy each. The intents that `m` and the publications write
for a ref whose record exists restore nothing, and are left to `Dispatch` and
`Publication`.

`claim` is the id a live dispatch works under, a ghost; `released` are claims
whose intent or record a command in another process removed while the owner was
alive, which the code cannot exclude (`RemoveIntent`, `PruneTombstones`,
`DiscardUnacknowledged`) and the properties about claims therefore except.

### Dispatch

`record`, `intent`, `turnLock` are the three files; `tree`, `dirty`, `staged`,
`log` the worktree, its uncommitted edits by turn, the index and the branch;
`status` and `sentTo` what the server did with each message. Every process has a
program counter `pc` and the values it keeps in memory: the intent it `held`
when it last read or wrote it, its `goal` message, the commit it `made`. Reads are
steps of their own where a value is kept while others may write, so recovery and
finalization act on stale copies as they do in the code. `sends` and `confirmed`
are ghosts.

Errors that change nothing and kills are one action, `Quit`, enabled at every
step. The server is external: it admits or drops a message in flight, lets a
turn edit the worktree, and ends it with a valid reply or without one.

What is assumed:

- an HTTP error status means that the message was not admitted; an interrupted
  request leaves that open. That is how `prompt_error` classifies them
  (`Failures`, and `RetryIsSafe` about it);
- `Overlap` says whether `oca ls`, which reconciles every intent it finds, may
  meet a dispatch that has not been acknowledged. The other commands need a ref,
  so they begin only after the acknowledgement or the end of the dispatch;
- creating a session and persisting its id are one step (`ServerStart` has the
  creation itself), and so are the staging of a worktree's changes and the
  persisting of the validated intent (`Publication` has those steps);
- states done, blocked and partial are one (`done`), as no command tells them
  apart; the attribution of the stream's events is `Follow`'s;
- intents survive a kill; their loss with power is in `RefStore`.

### ServerStart

A command reads the hint of `server.json` and sends its request there at once. When
there is no hint, or the first attempt fails in a way that `Failures` classifies as a
failed connection, it takes `server.lock` and reads the record again: if anything
accepts a connection on the recorded port (`RecordIsLive`; that is all `record_is_live`
asks), it sends the request there a last time. Otherwise it walks the candidate ports,
`Primary` and then the `Alternates` in order: an occupant of the primary port that
answers as OpenCode is adopted (`Probe`), an occupied alternate is skipped (`Occupied`),
and on a free port a server is spawned, waited for, and recorded (`Spawn`,
`BecameReady`, `WriteRecord`); a candidate that failed leaves its stage in
`diagnostics`, from which `Exhausted` makes the error. After the session was created
(`home` is the port it is on), the dispatch reads the hint once more to build the
`client` it goes on with (`ReadBack`), without comparing the two. A request whose
response is lost ends the command: nothing is looked up or sent twice.

`port` says what listens where: nothing, a server that is starting, bound but not
ready, or healthy, or another program, which may take and leave ports at any time.
`spent` is a ghost that counts faults, up to the number of ports: a kill, a failed
write of the record, a live server that is taken for dead or for a stranger because it
answers too slowly (`RecordIsDead`, `Probe`), and a spawned server that runs but misses the
readiness budget (`NotReady`). A server that exits is no fault.

### RepoLock and Worktrees

`RepoLock` takes the directory lock apart into the calls it consists of: the directory
is created, its owner record opened and written, and given up by the removal of its
files and then of itself, each a step at which the process may be killed. A waiting
process looks at the owner record; when that names a process whose id nobody has, it
takes the reclaim mutex, looks again and removes the lock. The record is a process id
and no more: once the system has given the id to another process (`ReuseId`), the lock
looks held and is not reclaimed as long as that one lives. `Worktrees` adds what is done
under the lock: `git worktree add` for `oca -w`, `git worktree remove` and `git branch
-D` for the cleanup of an orphan, as children that go on when their `oca` is killed
(`Running`, the ghost `haunted`).

### Publication

One worktree of a few product files, each empty or not, with what is in the working
directory, the index, the head, the record and the remote. Finalization goes through
`validate` call by call (`FirstScan`, `Sizes`, `StageFiles`, `Rescan`, `Resizes`,
`Stable`) while the worker may still edit, and while another finalizer goes through the
same calls on the same index: `finalize_turn` takes no lock, and a waiting dispatch and
`oca f` may both run it. Push and pull request go through the gates in the order of
`execute`, write their intent (`Trace`) before the first effect and settle after the
last. Settings, the branch and its default are initial choices.

### Turns, Follow and Headed

`Turns` has the event sequences a turn is seen as: one and two tool steps (in the latter
a text comes before its message), a structured reply, a failing turn, and an earlier
turn's idle before a turn of two steps. The proofs are about any turn with steps 1 to 3
that keeps to three assumptions: `EventAssumption`, what events carry; `StepAssumption`,
that the messages of a turn first appear in order, and that a text which precedes its
message is sent again behind it (see "Seen while modelling"). By `SetupAssumption` an
idle before the last event is an earlier turn's: nothing of the turn is before it.
`Follow` subscribes, reads the history, and delivers what the server emits; the stream
may break or be garbled at any event, the history may be unreadable, the server may or
may not replay after `Last-Event-ID`, and may repeat events. `KillFollow` and `Again`
kill `oca f` and run it again from the cursor that its recovery journal left. `chain`
and `pending` are the `TurnTracker`; `log` counts how often each event was journaled;
`stored` is the cursor in the intent. `gap`, `joined`, `first` and `resumed` are ghosts:
whether the stream left an event out, up to where the history told, where the journal
began, whether a stream was opened after another.

`Headed` runs the same follow inside the helper: it opens a tab or window, starts
the agent, records the tab in the ref, follows, marks and closes. `oca k` reads
the record and closes the tab it found there. A call to herdr or tmux succeeds,
fails, or has no answer.

### Journal, Spawner, Invocation

`Journal` has files by number, so that a removed and newly created journal are two
files with one path, and `fd` what each process has open. A record is written in
two halves. `Spawner` is `spawner_tag` call by call. `Invocation` scans and parses a
command line of any length word by word, with any argument at each step, beside
the scan of `main.rs`; the grammar is the table of `lib.rs`.

### MCHost

The parts of a host share no state, so that one run explores them one after the
other: `part`, chosen in the initial state, says which of them moves while the
others rest in one of their initial states. Their state spaces add up and are not
multiplied. Fairness is stated per part.

## Runs

| Run | Shows |
|---|---|
| `ref_store` | two processes, two ids, every operation, failure, death and loss of power (957,225 states). Two processes suffice for every pairwise race on a lock-protected file; a third only repeats the role of the dead one. Checks `NeverTorn`, `PendingIsMarked`, `OneOutstanding`, `DistinctClaims`, the inductive invariant (whose first part is the type invariant) and the refinement of `RefMap` |
| `ref_store_entry` | expected violation, finding 1 |
| `dispatch` | one dispatch and one operator who lists, follows, sends messages and queues them, two messages (808,000 states): `NoReplay`, its inductive invariant `SendInv`, the inductive invariant of the turn `TurnInv` (whose first part is the type invariant), and of what it implies `SettledHasCommit` and `CompletionIsReply`; `LocalProofSound` |
| `dispatch_race` | two operators that follow and abort while the dispatch waits (1.3 million states; the only run with `oca k`, whose effects on the record and on recovery `TurnInvariant` covers for any mix of commands): `AckedIsKept`, `AdmittedIsTraceable` |
| `dispatch_overlap` | an `oca ls` at any point of an unfinished dispatch: `AckedIsAdmitted`. The only run in which recovery finds a session in a record beside a planned intent |
| `dispatch_proof`, `dispatch_parallel`, `dispatch_commit`, `dispatch_list` | expected violations, findings 2 to 5 |
| `server_start` | two commands, a primary and an alternate port, any of them taken by other programs, kills and other faults at any step (354,605 states): the inductive invariant `StartLockInv` (with the types), `EachServerPaidFor`, `ClientHasSession`, and that every command ends and gives up `server.lock` (`EveryCommandEnds`) |
| `host` | the parts of `MCHost` (about 911,000 states): `HostInv`, the inductive invariants of publication, journal, spawner tag, follow and display, and the types of all parts; for the lock `MutualExclusion`, its inductive invariant with that of the jobs under it `TreesInv`, `LastJobHolds`; for the worktree `NoEmptyCommit`, `UncertainIsTraced`, `PullHasBranch`, `ProtectedKept`; for the journal `PagesAreComplete`, `PruneSparesWriters`, `CorruptionIsReal`; for the follow `VerdictIsHistory`, `JournalExact`, `LiveTabKept`, `NoForgottenScreen`; `OneSpawner`; `ScannersAgree`, `GrammarIsParsed`; and under fairness `EveryAttemptEnds` of the lock and `EndsUnlessMissed` of the follow |
| `follow_parks` | expected violation, finding 6 |

Bounds. `Dispatch`: `MaxTurns` messages are minted by a dispatch and one or two
operators, each of which runs any number of commands one after another; two
messages are the least with which a second turn meets leftovers of the first.
`ServerStart`: two commands, as a race for a lock-protected record is pairwise;
one alternate port makes every walk of the candidates have a first and a last.
`RepoLock`: two commands and one process that is dead at the start and whose id
may be used again, so that both may reclaim the same owner. `Publication`: one
product file, changed or not, two commands (of them two finalizers, on a ref that was
not published), `MaxEdits` = 3 further edits, with which each exception of `NoEmptyCommit`
occurs. `Journal`: three processes, two files, two lines, one record per page: a
page that is not the last exists. `Follow`: six cases of script, replay, ids,
readable history, mode and display, `MaxFaults` broken or garbled streams, kills
or failed reads in all. `Invocation` needs no bound: it keeps of what was read
only what later decisions depend on.

Deadlock is checked for `RefStore` only. Everywhere else commands end, the server
may stop, and a state in which all have ended has no successor.

### Fairness

The safety properties need none. `EveryCommandEnds` assumes weak fairness of each
command's own steps (`Request`, `Start`) and of its `AcquireStartLock`, and nothing of the
server, of other programs, or of kills: requests time out, so that a command never
waits on the server for good; it waits for `server.lock`, which its holder gives up
because it goes on, and which the kernel then hands to one that waits.
`EveryAttemptEnds` assumes that a process on the repository lock goes on
(`Work`, until it is killed) and that its deadline passes (`Clock`).
`EndsUnlessMissed` assumes that the follow and the server go on (`GoesOn`): the turn
emits its next event, and a follow delivers what it was sent or reconnects.
`Missed` excepts the case of finding 6. `follow_parks` uses the same fairness,
`FollowFairness`, without the exception.

### Findings

1. `reserve_intent` enters the store without retrying a pending directory sync
   (`refs.rs:1072-1093`), against the ADR's "the next `oca` process that enters
   the ref store owns the retry". The consequence is limited: the next
   replacement settles it.
2. A running record is not a proof of admission (`crash_recovery.rs:142-145`):
   reconciliation itself writes running records, and an `oca ls` that read the
   intent earlier may write one over the state another command relies on.
   With one operator and `Overlap` FALSE the proof is sound (`dispatch` checks it).
3. `oca m` killed between its running intent and the patch of the record is
   forgotten: the next `oca m` sees a settled record, removes the intent as stale
   and starts a second turn while the first runs (`crash_recovery.rs:213-219`).
4. Recovery recognises "the commit of this turn" by a subject that all turns of
   the ref share (`crash_recovery.rs:457-470`), so a later turn whose commit is
   still missing is settled with an earlier turn's commit.
5. `oca ls` reconciles the intent of a dispatch that is still alive
   (`crash_recovery.rs:63-77`). From a copy in phase planned it tombstones the
   record that the dispatch has written and acknowledged since
   (`crash_recovery.rs:303-334`), and nobody has to die for it.
6. The follow re-reads the history once, only while it has no cursor, and before
   it subscribes again (`oca-core/src/follow.rs:745-779`). On a server without
   replay, as measured in `docs/live-acceptance-1.18.10.md:115`, an idle that is
   emitted while there is no stream is lost, and a follow without a timeout does
   not end.

So three properties hold only without an `ls` that meets a live dispatch (`Overlap`
FALSE), which the passing runs that check them say in their configuration:
`AckedIsKept` (finding 5), `AdmittedIsTraceable` (the `ls` removes the intent of a
prompt in flight) and `LocalProofSound` (the `ls` patches the record to running
before the send). With `Overlap` TRUE in the configuration of `dispatch`,
`TypeOK`, `NoReplay`, `SendInv`, `SettledHasCommit` and `CompletionIsReply` still
hold (5 million states, too long to repeat with every check); the proofs of these
and of `AckedIsAdmitted` cover both values.

### Exceptions the properties state

Where a property has an exception, it is one that the code really needs; each was
found as a counterexample of the property without it.

- `LastJobHolds`: a git child that outlives its killed `oca` works on after the lock
  was reclaimed (`oca-git/src/lib.rs:757`).
- `NoEmptyCommit`: the size that is checked is the file's, what is committed is the
  index. A worker that writes a file three times behind a finalizer's first scan, the
  last time behind its second, gets an empty one committed. When another finalizer
  stages the files meanwhile, one write behind the second scan is enough: the first one
  passes its checks, the worker empties the file, the second stages it, the first
  commits.
- `UncertainIsTraced`: commands of one ref share the intent file and no publication
  takes the turn lock, so that one may write over or remove the other's trace
  (`crossed`).
- `PagesAreComplete`, `CorruptionIsReal`, `PruneSparesWriters`: prunings remove by
  path. The second of two that looked at the same file removes its successor,
  under a live writer; a reader whose file was replaced may call a record damaged
  that its writer is still at (`moved`).
- `LiveTabKept`: an earlier turn's idle that is delivered after the history was read
  (`joined`) ends the follow between two tool steps.
- `NoForgottenScreen`: a call to open, mark or close the display that failed or had no
  answer (`lost`) may have opened a tab that no record names, or left one open; a tab
  stays when the follow lost the server. A start of the agent that fails is no
  exception: the tab is closed again.
- `VerdictIsHistory`: a stream that left an event out (`gap`). And it speaks of the turn's
  end only for a follow that ends behind the turn's own idle. One may end before it:
  a classified `oca f` by the history it reads, if that happens to end with a
  complete step between two tool steps (`follow.rs:702`, `:747`), and any
  follow by an earlier turn's idle that is delivered after such a history. Then the
  property says that the report is exactly that history, and nothing of the steps
  to come, which may change the verdict. Both occur in run `host`.
- `JournalExact`: only of a server that replays, and per run of `oca f`.
- `ClientHasSession`: a fault may let a second server start, and a server may go. With
  three commands and two ports there is one more exception: a server whose
  starter has not recorded it yet.
- `DistinctClaims`: a command that works from an older copy of an intent removes the
  intent or record of a live dispatch (`released`).

### Seen while modelling

Not checked by a run:

- `oca f` on a turn that calls tools may report it as ended between two tool steps, when
  the history it reads ends with a complete step at that moment.
- The prefix of a message id holds 48 bits of clock and counter and Unix time needs
  more: every 2^36 ms (2.2 years) ids start again below the earlier ones of their session.
- The comment at `oca-core/src/foreground.rs:237-240` says that the worktree
  backend's `create_session` patches an existing ref, which it does not.
- The helper of a headed ref holds the journal's lock for its whole follow, so that
  `oca f` of that ref fails as `events_corrupt`; the shared lock of a reading
  `oca events` makes a starting `oca f` fail too. A torn tail makes every later
  `oca f` and `oca events` of that turn fail, and nothing mends it.
- `oca k` reads the record before the helper patches it, and then leaves the tab open
  (`control.rs:213`, `:232`).
- `record_is_live` only connects (`server.rs:466`): another program on a recorded port
  passes for the server. Servers orphaned on alternate ports are never adopted.
- A success status other than 204 after a prompt is `protocol_mismatch`, not
  `prompt_uncertain`, though the prompt was admitted.
- `oca pr` after an earlier `oca push` and a later commit opens a pull request that
  names a commit the remote does not have. `published_uncertain` is cleared by hand
  only.
- A `worktree.lock` without an owner record is never reclaimed.
- An intent without a record is not shown by `oca ls`, which lists records; and
  `--blocked` filters by the state that an uncertain intent has replaced.
- Kill a first `oca` between the creation and the writing of `~/.oca/spawner`, and
  every later command without a harness variable fails.
- `[models.Flash]` in the configuration lifts the refusal of the shipped `flash`
  while the shipped definition is the one that is used; a model named `deepseek` is
  shadowed by `flash`'s synonym; a model named like a verb cannot be reached; a
  model called `--` would make the two readings of a line disagree.
- The published grammar lists `flash` and `deepseek`, which the parser always
  refuses to dispatch, and no `--` for `oca q`, which the parser accepts.
- The reply configuration's `min_words` is not used; an explicit null as a review's
  note passes the decoder and not the schema; a blocked or partial review may say
  nothing.
- The tracker keeps the text of a message it does not know yet until the message
  comes, but the history it reads gives it no such text: a text that precedes its
  message is lost if the history is read between the two and the text is not sent
  again (`oca-core/src/follow.rs:850`). A server that sends a text again with each
  update, as the scripts here do, mends it.
- The chain of a follow is in the order in which messages were first seen. After a
  gap that swallowed the first message of a turn, an update of that message comes
  behind a later one.
- The date arithmetic of a rate limit overflows its i64 for years beyond 10^13, and
  an empty provider header is read as a wait of zero.

## Proofs

`RefStoreProofs` proves, for any set of processes and ids and from the one
assumption that the null values are not processes, ids, records or maps
(`NullAssumption`): `Spec => []IInv` (`Invariant`), from it each safety property of
the run, and `Spec => RefMapSpec` (`Refinement`).

None of the properties is inductive. `IInv` adds what the code's authors rely on: the
flock is held exactly by the process inside an operation (`LockInv`); inside one, before
the rename, the disk agrees with what is visible and the buffer is one update away from
it, and from the marking on the marker is set (`StepInv`); the disk holds at most the
visible map and one older one (`DiskInv`). For `DistinctClaims` it adds that a live
claim that was not taken away is protected by a record or by an intent, its owner's or,
after a recovery from an old copy, another's (`ClaimInv`); and that an id about to be
given out is free, that no pending replacement hands it to another, and that a claimed
id keeps its record in one (`TargetInv`): these are what makes it safe that intents are
rewritten without `refs.lock`. What the records and intents *say* is not part of it: a
recovery may insert a record for an intent that is gone, or is another dispatch's by
now. The refinement maps `refs` to `file` and `stable` to the older of the contents on
disk; a rename is an `Update` because the buffer is one update away, a sync a `Settle`.

`DispatchProofs` proves `Spec => []SendInv` (`SendInvariant`) and from it
`Spec => []NoReplay` (`NeverReplayed`), for any set of operators, any number of
messages and both values of `Overlap`, from `BoundAssumption`. `NoReplay` alone
is not inductive: it does not say why the next send is the first. `SendInv` adds
that a message not yet minted is unsent, and that what a process holds at a place
from which it may still send (`Pending`) was minted, is unsent, and is held by no
other such process. Every step either leaves its process where it cannot send
(`Leaves`), moves it towards the prompt with the message it has or without one
(`Advances`), mints a message (`PersistUncertain`, `Queue`), begins a new turn
without one (`Message`), or sends (`Send`). Those last actions have a lemma each, the
other actions one per group, and `NextSend` puts them together. The argument is
also why the retry of a dispatch is safe: the only step from `prompt` back to a
`Pending` place is the one for a request that never reached the server; that this
is what the error code says is `RetryIsSafe`.

`TurnProofs` proves `Spec => []TurnInv` (`TurnInvariant`), again for any operators, any
number of messages and both values of `Overlap`, and from it the types,
`CompletionIsReply`, `SettledHasCommit` and `AckedIsAdmitted`. These say that a
completion names a sent message with a valid reply, and that a settled worktree record
names some commit: not that the message is the record's newest, nor whose commit it is
(run `dispatch_commit`). The properties speak of files, and the processes write them
from copies that may be old; the invariant therefore says what every copy, at every
place of every process, has behind it: a reply that is named by any copy of the intent,
or is being settled, has come (`ReplyInv`); a copy in phase committed names a commit,
and who settles without one does so on a ref without worktree (`CommitInv`, with
`LogInv` for the numbers of the commits and `EarlyInv` for a worktree that is still
being made); before its acknowledgement a dispatch has at most one message, and the
places behind the confirmation know it admitted (`FirstInv`, `DispatcherInv`). A step
predicate per group of actions says what one step may do to each of these parts, a lemma
that a step which does so keeps the part.

`AckedRefIsKept` proves `AckedIsKept` from `KeptInv`, which says that once a dispatch is
acknowledged no process holds an intent from which recovery would take the ref for
a strand (`Beyond`). It assumes `~Overlap`, and needs it: run `dispatch_list` is the
behaviour in which an `ls` has read the intent of a live dispatch.

`AdmittedLeavesTrace` proves `AdmittedIsTraceable` from `TraceInv`, for any number of
operators that list, follow and abort (`Allowed \subseteq Queries`), again with
`~Overlap`. From before the first byte of the prompt until the record names the
message, the intent on disk and the one in the dispatch's hand say that it may be
under way; a dispatch that gives up its intent has a message that can no longer
arrive (`SendingInv`). After that, a message that is not lost and that no record
names is where recovery finds it: a record that names no message still has the
reserved session and the state running, so that nobody can abort it, follow it or
take its intent for a stale one, and every copy of the intent that a command holds
is one that recovery completes (`SoughtInv`). `TraceInv` has been checked with two
operators before it was proved (2.5 million states). The assumption on `Allowed` is
needed for `oca m`: on a ref recovered before its dispatch sent anything, the message
that finding 3 forgets is the first one.

`LocalProofIsSound` proves `LocalProofSound`, that a running record which names the
message of an uncertain intent is proof of its admission, for any number of turns,
under two assumptions: `~Overlap`, and `Serial`, that the commands which overlap all
take the turn lock (`m`, `q`, `k`) or that one operator runs any commands one after
another. It needs them: `ls` and `f` take no lock, and run `dispatch_proof` is an `ls`
that patches the record beside an `m`. `ProofInv` is what the authors rely on: whoever
runs `m`, `q` or `k` has the turn lock until it ends (`LockInv`, which is `TurnLockIsHeld`
and holds for any commands); no file, copy or goal names a message that was not
minted, so that a new one is no earlier one's (`MintedInv`); until a dispatch writes its
record as running, with an intent that asks for no proof, the record names nothing
(`UnrecordedInv`); and a recovery acts on what the file still asks, upserts as running
only what was admitted, and `q` patches in no intent's message (`AnswerInv`). It was
checked with one operator and all five commands, and with two operators that send,
queue and abort, for two turns (1.5 million and 222,000 states), before it was proved.

`ServerStartProofs` proves, for any commands and ports, `StartLockInv`, and from it
`EachServerPaidFor` and the action property `ClientHasSession`. Only
the holder of `server.lock` spawns or writes (`LockInv`); each place of a start knows
which port it looks at and what it found there (`PlaceInv`, `StartInv`); and the
servers of `oca` that run are the recorded one, the one being started, and those
that a fault has paid for (`RestInv`).

`WorktreesProofs` proves `LockExcludes`: mutual exclusion, and that nobody removes a
lock that a living process has. The inductive `LockInv` says who the directory and
its owner record belong to at each place of each process, and that a reclaimer has
seen, with the mutex in its hand, an owner that had died and will not come back: when
its process id is used again, it is by a process that has not got the lock. The theorem of
`Worktrees`, that its commands implement this lock (`TreesImplementLock`), carries
mutual exclusion over (`JobsExclude`). `TreesInvariant` adds `JobInv`, what worktree and
branch are in the middle of a job and that only the holder has one, and
`ReportedJobHolds` is `LastJobHolds` from it.

`HostProofs` has the rest of a host.

- Publication (`PublicationInvariant`): the gates a command has passed are those its
  settings open, the intent is uncertain from the trace to the settlement unless another
  command of the ref wrote it, and, as long as nobody was outrun (`Unspoilt`), every
  empty file on its way into a commit has cost the worker a write behind the second scan
  (`Late`), and three behind the first unless another finalizer staged it (`Sneaks`).
  From it `NoEmptyCommit`, `UncertainIsTraced`, `PullHasBranch` and `ProtectedKept`, for
  any commands, products and number of edits (`EditAssumption`).
- The spawner tag (`SpawnerIsOne`; `TagAssumption`: the file's states are not tags) and
  the locks of the journal (`JournalLocks`), from which `PruneSparesWriters` and
  `CorruptionIsReal` follow for any processes, files and lines.
- The pages of the journal (`PagesComplete`): `PagesInv` says that until something is
  pruned there is one file, and that who writes it has the number of its next record;
  that the writers exclude one another comes from `JournalLocks`. A page is what
  `After` leaves of the records, a recursion along the file whose result is computed
  for a numbered file (`AfterNumbered`) by the least place at which it could be wrong.
  `JournalAssumption`: the bounds are numbers, and pages, files and lines positive.
- Follow (`FollowKeepsJournal`): `JournalingInv` says that what the tracker has seen, what
  the stream has passed and what the cursor names is in the journal, except for the
  event that is being recorded, and counts the writings of an event by the runs.
  This is `JournalExact` for any turn, any faults and any number of runs.
  `HelperInvariant` carries it into the headed helper and adds `TrackingInv`: what the
  tracker has attributed is behind the history it read or behind the stream. Hence
  an idle that ends the follow is the last event or one from before the history
  was read.
- The display (`DisplayInvariant`): what each stage knows of display, record and outcome.
  `ScreensAreFound` is `NoForgottenScreen`; with `TrackingInv` it gives `LiveTabKept`
  (`LiveTabIsKept`). `SetupAssumption` says of the data that an idle before the last
  event of a turn's script belongs to an earlier turn, so that no message of the turn
  is before it; `DisplayAssumption` that `oca f` has no display.
- The verdict (`FollowTells`, and `HelperTells` for the helper beside `oca k`): what a
  follow that ends behind the turn's own idle reports is what the history says at the
  end, for any turn, unless a stream left an event out; one that ends earlier reports
  the history it read last. For the latter `HistoryInv` says that the chain is that
  history (`LastRead`) until the stream or the cursor brings the first event of the
  turn's own steps (`Untouched`), and before an earlier turn's idle there is none. For
  the former: The chain alone is no function of what was delivered: a server that
  replays brings old updates again, which take an entry back, and newer ones that mend
  it. `TellingInv` therefore says of a stream without a gap that the chain tells what is
  `Behind`: the events the stream has passed or the cursor has seen, and what the
  history had. There is one entry per message that is behind, and it shows the newest of
  its updates behind; so does its text; and a pending text waits only for a message that
  is not in the chain. When the idle is behind, all is, and that is the history
  (`TellsVerdict`). An update makes the chain tell one event more (`MessageTells`,
  `PartTells`), a history read makes it tell what was joined (`HistoryIsTold`), a new
  stream begins at what is behind.
- Types. `FollowTypes` and `HelperTypes` add to the above that no step is in a chain
  twice, and that the journal counts of an event are bounded also if events have no
  ids: then each stream begins behind everything emitted, and nothing is delivered
  twice (`CountedOnce`). `JournalTypesHold` needs that `After` keeps records of the file,
  whatever they are: if it did not, there would be a shortest part of the file along
  which its recursion has no solution (`LongerSolution`, `AfterIsTyped`).

`MCHostProofs` puts these together with `LineTypes` below: `HostInvariant` is `HostInv`,
the invariant that run `host` checks, for any processes, files, turns and arguments.
Each step of the host is one of the part that runs.

`InvocationProofs` is about all configurations, models and lines: `ScannersAlwaysAgree`
needs that what the scan has seen and what the parser has taken agree after every word
(`ReadAlike`), and that no model is called `--`. `GrammarIsFollowed` compares the
parser's table with the published grammar case by case, for every command and flag
(`TablesAgree`), and adds that a line only gathers what its command takes. `LineTypes`
is the types of a line. Of the pure parts the module compares the decoder of a reply
with the schema, and proves that message ids ascend (`Ascending`: within one window of
2^36 ms of Unix time, whatever the window; `DescendingAtTheWrap`: into the next one they
descend) and that the calendar of a rate limit counts days: the number of each day is
one more than that of the day before, in any year. The cases are a day within a month,
the end of a month other than February (the year of the calculation, which begins in
March, is the same), and the end of February, where the leap rules are.

The attempts changed the model in three places. `ClientHasSession` was a state property,
which holds for two commands and not for three, and is now about the step that
reads the hint back; a push that repeats one already done marks itself in
`touched`, too; and the types of a follow said that its chain is in the order of the
turn, which the scripts of the run keep and a turn with a gap at its first message
does not: now they say that no message is in it twice.

### Only model-checked

- Liveness under fairness (`EveryCommandEnds`, `EveryAttemptEnds`, `EndsUnlessMissed`):
  the prover has no ENABLED.
- `EveryFollowEnds`, `AckedIsKept` with an overlapping `ls`, `LocalProofSound` with
  overlapping commands, and the other properties of runs that expect a violation: they
  are false.

Every invariant and action property of a passing run is stated by a theorem; the
refinement of `RefMap` by `Refinement`.

## Plan

1. (done) `RefStore`, `Dispatch`, `ServerStart`, `RepoLock`, `Worktrees`,
   `Publication`, `Follow`, `Headed`, `Journal`, `Spawner`, `Invocation` and the
   pure modules.
2. (done) Proofs of the inductive invariants of `Dispatch`, `ServerStart`, `Worktrees`,
   `Publication`, `Journal`, `Spawner`, `Follow` and `Headed`, and the properties that
   follow from them.
3. `Dispatch` and `Publication` composed on one intent file, with `oca push` against
   recovery; several refs in one `oca ls`.

## Not modelled

Rendering, the texts of help, errors and preambles, policies and roles (fixed
tables that nothing changes), the filter, order and page of `oca ls`, the parsing of
TOML and of header texts, the generated HTTP client, the test kit, release scripts
and build tasks. The HTTP client appears as answered, refused, not sent, or unknown.
The history probe of the attach helper changes nothing and is left out. Clocks
appear as the possibility of a timeout.
