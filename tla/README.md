# Verification of mkvgo

TLA+ modules that model the concurrent and crash-exposed parts of mkvgo, the
TLC configurations that check them on small instances, and theorems about them
checked by TLAPS. Paths are those of the repository, without the leading `src/`.

Run TLC with `tlc -config X.cfg M`, the proofs with `tlapm M.tla`.
`PROJECT.json` maps each definition to the lines it stands for, names the runs
and, for each property, a mutation of the model (an operator with "Mutant" in its
comment, never used by a specification) that the property catches.

## 1. Inventory

mkvgo reads, writes and repairs Matroska and MP4 files, and serves them as HLS
and DASH on demand. Most of it is sequential: parse, transform, write a new file.
What can go wrong in ways a test would hardly reach is in the parts that change a
file in place, and in those that serve many viewers from one source.

| component | state it keeps | operations | hard behaviour | correct when |
|---|---|---|---|---|
| in-place patch (`mkv/ops/reindex_inplace.go`, `retime.go`) | the file itself: patched zones, a 64-byte intent record in the head Void, a journal after the last byte | `ReindexInPlace`, `RetimeTracks(InPlace)`, `RecoverInPlace` | crashes, torn writes, power cuts, failing calls, also during recovery and rollback | the file is always the original or the finished one, or recoverable to it; answers are true of the medium |
| window cache, flights (`mp4/hlswindow.go`, `hlsflight.go`, `hlsplan_segment.go`) | bundles of framed renditions, their bytes and age order; the build in flight of each window | `Segment` on a plan over Matroska: hit, join, lead, publish, take, rebuild alone | requests racing for a window, clients leaving, builds failing, bundles dropped while they are taken from | one build per window; nobody who waits is let down; bytes are accounted and bounded; every request returns |
| walk slots (`mp4/walkslots.go`) | a channel of slots, replaced when the cap changes | `acquireWalk`, release, `SetMaxConcurrentWalks` | the cap changes while slots are held | each slot goes back where it came from |
| encryption gate (`mp4/cryptslots.go`, `hlsstream_crypt.go`) | free slots, a heap of waiters ordered by age, those that left | `acquire`, `release`, `handOff` | a waiter handed a slot as it leaves; waiters that left still in the heap | no slot lost or made, none idle, oldest first, every waiter served |
| admission gate (`mkvhttp/admission.go`) | a channel of slots and an atomic counter, joined by no lock | `enter`, `leave` | arrivals and departures between any two atomic operations | limits hold, counter exact, every request answered |
| window tables, kept segments (`mp4/hlsstream.go`) | table flights of an MP4 source; a process-wide atomic budget of kept bytes | take, keep, reclaim, close | locks of several plans, finalizers | each byte comes back once |
| shared reads of a remote MP4 (`mp4/mp4share.go`) | the span of a window being read, its waiters, its TTL | lookup, wait, take, drop | the window dropped and begun anew during a wait | a reader gets the bytes of its window or walks itself |
| in-place moov edit (`mp4/editshift.go`) | old moov, appended moov, header bytes | append, sync, flip | crash between the flips | exactly one moov is live |
| temporary outputs (`mkv/ops/output.go`, `internal/tmplock`) | temp file, its lock, the final name | create, lock, sweep leftovers, rename | two runs on one output, leftovers of a dead one | a run never deletes another's output |
| rollback ledger (`mkv/ops/rollback.go`) | an append-only file of entries | emit, apply | torn entries, spool failing | an entry is whole or ignored |
| growing HLS (`mp4/growinghls.go`) | segments published so far | refresh, completion | viewers polling while the end is settled | the playlist only grows and ends once |
| HTTP source (`httpfs`) | the connection, the identity of the version | ranged reads, retries | the object replaced between ranges | one read never mixes two versions |
| everything else (EBML codec, reader, writer, muxers, remuxing operations, CLI, WebAssembly, S3 signing) | none, or local to a call | | sequential | output equals what the format says: data, covered by the repository's tests |

How they interact: a request enters the admission gate, then asks a plan for a
segment; the plan's window cache runs its walks under the walk slots; an
encrypted segment takes the encryption gate once per sample; the source under the
walk is a file or `httpfs`. The in-place operations share a file with no one:
they refuse or recover what an earlier run left, and meet the other components
only on disk. The hazards of each, at their lines, are in `PROJECT.json`.

## 2. Plan

Built in this order, the most costly failures first:

1. `AtomicPatch`, `InPlacePatch`, proofs: the part that can lose a user's file.
2. `WindowCache`, proofs of its flights and slots: the part with the most interleavings (cache, flights and slots in one module, since one request goes through them all).
3. `CryptGate`, `AdmissionGate`, proofs.
4. `KeptWindows`, proofs: the budget every plan of the process shares, with the window tables and the shared reads of a remote MP4 that live under it. One module, since a reclaim by either goes through both.
5. `MoovSwap`, proofs: the in-place edit of an MP4, with kills, power cuts and failing calls.
6. `TempOutput`, proofs: several runs on one output, and power cuts.
7. `GrowingPlan`, proofs: a file that is planned and served while it is written.

Left, in the order of what it would add:

1. `httpfs`: ranged reads on one connection with retries, against an external server that replaces the object.
2. The rollback ledger: entries cut short and applied again.
3. Bounded algorithms: EBML variable-size integers, the SeekHead and Void fit of `buildInPlacePatch`.

## 3. Modules

### InPlacePatch (and AtomicPatch)

A process patches a file: recover what an earlier run left, scan, write the
intent record, append Cues and journal, overwrite the zones, verify, clear the
record, emit the rollback entry, truncate the journal away. Each `sync`, write
and truncate of the code is one action; `pc` names the call that comes next and
`goal` why (`patch`, `recover` for `RecoverInPlace`, `undo` for the closure
`rollback`). The file is what the code can tell apart of it: each zone is before,
after or torn; the 64 bytes of the intent record are zeros, whole, its head, or
torn; what follows the original's end is nothing, the Cues, a whole append, one
cut before its trailer, or one whose trailer does not match its payload. `job`,
chosen at the start, is a reindex, a reindex whose head Void has no 64 zero bytes
(`reindexFull`), or a retime, which writes no record and appends no Cues.

Failures: `Fails` makes the call at `pc` return an error, having written nothing
or in part, and takes the code's error path (refuse, roll back, "uncommitted",
"rollback ALSO failed"). `Crash` kills the process between two calls (`kill`),
in the middle of a write (`torn`), or cuts the power (`power`): `mZone`,
`mIntent`, `mTail` are the values the medium may hold of each part since its last
sync, and a power cut picks any combination.

`AtomicPatch` is what the caller is promised: one change, at once, and replies
that are true. `AtomicSpec` is the refinement, with `Content` (what a recovery
of the file yields) as the mapping.

Left out: how the patches are computed, and `RetimeTracksReplace`, which writes
a new file. A patch is asked for until the file is finished: shifting a retimed
file again is another patch.

### WindowCache

A member of `Requests` is one call of `buildSegmentTrack` on a Matroska source.
Its steps are the code's lock regions and blocking points: under `winMu` it hits,
joins or leads (`window`); a leader queues for a walk slot, walks, publishes and
ends the flight; a waiter selects between the flight's end and its client; then
it takes its rendition, or finds it gone and walks alone. The goroutine that
watches a leader is `LeaderGone`. `winOrder`, `winBytes`, `winPeak`, `built`,
`served` and `dropped` are the fields of the plan; the plan's option is chosen
in `Init` out of `WinBudgets`. A walk slot belongs to the channel the request read, `chan`.

Left out: the MP4-source branch, which builds its segment in line under a slot,
the counters that are not bytes, the content of a segment.

### CryptGate

`cryptOrder` whole. `acquire` is split where it unlocks: `AcquireFree` or
`Enqueue`, then `Granted` or `GiveUp` as the select decides. `handOff` pops the
heap under the lock, so it is one operator; it is used by `Release` and by a
waiter that leaves just as it is handed a slot. Waiters that left stay in the
heap, in `gone`, until a hand-off drops them, as in the code.

### AdmissionGate

`enter` is split at each atomic operation: the first select, `Add(1)`, the second
select, the deferred `Add(-1)`. No lock joins the counter and the channel, so
neither does the model. Which waiter gets a freed slot is left open.

### KeptWindows

A member of `Requests` is one `Open` and the handle it returns, on a plan over a
remote Matroska file (`Mkv`) or a remote MP4 (`Mp4`). All plans share `total`,
the process's `windowBytesTotal`.

- Matroska: `Hit`, `Join` or `Lead` under `tabMu`; a leader reserves its window's span (`Reserve`), reclaims if it does not fit (`Lock`, `Drop`, `Unlock` for each plan in turn, then `ReserveAgain`), walks, and stores its table (`Publish`). `Take` hands a segment out once and moves its bytes to the handle, which gives them back when it is written, closed or collected. `Collect` is the cleanup the Go runtime runs on a plan nobody uses, with what `acct` says by then.
- MP4: a whole video segment reads its window's span once (`Begin`, `ReadEnds`, `ReadFails`) and keeps the audio it passes; an audio segment looks it up, waits for the read, or for one to begin (`LookUp`, `GraceOver`, `HeldUp`, `ReadSeen`), and is marked served (`Served`). `TTL` is both the timer and `expire`.

`tabMu[p]` is who holds plan p's lock through a reclaim; the other lock regions
are single actions, taken only while it is free. A panic of a keeping walk loses
its reserve (section 6), so `Conserved` counts only runs without one.

`Span` is what `windowSpan` estimates for each window: a distance between two
cues, of the window before for the last one. The segments may weigh more than
that, and then the budget is passed (section 6): the bound `WithinBudget` states
is the budget times the worst ratio of the two.

Left out: what a walk reads and which plans keep at all (`keepable`: plans that
do not keep touch none of this state), `Source`, the pins of a table and
`checkSource`, the statistics.

### MoovSwap

An edit scans the top level, appends its moov, syncs, flips the type of the
strays and then of the moov in use, each with its sync. `box[i]` is what stands
where edit i appended, `may[i]` what the medium may hold there. `Kill` cuts the
running write, `PowerCut` picks any subset of the unsynced writes, and each call
may fail. `First` is what a reader finds walking from the head; every property
is stated for what is there now and for what a power cut at that instant leaves.

Left out: what the new moov holds, and the mdats of chapter titles, appended with
it and retired after it, which no reader looks for on its own.

### TempOutput

Runs that write or replace the same `dst`. `name` is the directory, `lock` the
locks, which belong to files and not to names, as flock's do. Each system call
on a name or a lock is one action, so that another run may act between a look at
the name and its use. `medium` is the list of directories a power cut may leave:
renames reach the disk in order, the last flush bounds how far back; the content
of a file is whole after a cut only if it was flushed. `stolen` remembers that a
name was used for a file another run had put there since, the race of section 6.

Left out: file systems without locks, a `Create` of the caller, the Windows lock.

### GrowingPlan

A `Writer` appends the blocks of one of `Files`, whole clusters at a time as far
as the plan can see. `Refresh` and `Complete` hold `scanMu` and walk from the
cursor (`ScanBlock`, `ScanCluster`): under the write lock while the head and the
lead are open, beside it afterwards. `publishSettled` publishes the windows no
later block can change. Requests walk the file as far as it is written when they
do, and learn where windows open on the audio grid (`starts`) and where tracks
end (`ended`); each of their steps is a lock region. `Finished` is the reference:
`PlanHLS` and the full pass over the finished file, translated from
`mp4/hlsplan.go` and `mp4/gridwindow.go`.

Of a file the model assumes what the code refuses to plan without: times that
count from each track's first block, a keyframe, clusters in order
(`FilesAssumption`, `TracksOpenAtZero`, `KeysAssumption`). The loops over blocks
and cuts are recursive functions and the publishing loop is the window it stops
at, so that the module can be proved about. `PublishedIsFinal` is of files that
are `even`: each track has its blocks before a cut written by the time the scan
publishes the window, and ends inside a window (`Interleaved`, `EndsInside`).

Left out: where a walk starts (it skips only what is before the window), the look
ahead for reordered frames and the stride probe, what segments hold besides
their frames and their place on the grid.

## 4. Runs

| run | question | bounds and why they are enough |
|---|---|---|
| `patch_kill` | after kills, is the next recovery always able to restore; is the patch done in the end? | 3 zones: first, middle, last of the loops; 3 crashes: in the patch, in its recovery, in the recovery of that |
| `patch_all` | torn crashes and failing calls together: write-ahead, true answers, atomicity | 2 crashes, 2 failing calls: a failing patch whose rollback fails, and a recovery torn after it |
| `power_forward` | are the syncs where they have to be? | one cut at any instant: the run of a call is short, and every combination of pending writes is tried |
| `cache_bytes` | bytes and budget | 4 requests on 2 windows of 3 renditions: two that share a rendition, eviction while one takes; budgets derived, fitting one window, and none |
| `cache_walks` | flights and slots with clients leaving; does every request return? | 3 requests on one window, 2 of which leave: a leader gone, a waiter gone, a newcomer's second flight; caps 1 then 2; one read that fails; no budget, so nothing is kept between them |
| `crypt` | slots and order of the encryption gate | 3 requests on one slot, 2 samples each, so that one asks again while others wait |
| `admission` | limits, counter and answers of the gate | 5 requests on 2 slots and one place: two turned away while one waits |
| `kept_windows` | does each kept byte come back once, within the budget; does everyone return? | 2 Matroska plans and one MP4, 4 requests, room for one reserve and one table in all: every second reserve reclaims from another plan, two plans reclaim from each other; one window weighs more than its estimate and two walks of it pass the budget by all the bound allows, the other less; one client leaves, one failure, one panic |
| `moov_swap` | is there always one moov to read, and the right one? | 4 edits: one that leaves a stray, one that finds it, one cut while it retires both, one after; 3 crashes, 2 failing calls |
| `temp_output` | is what the output's name stands for whole, kept by failures and by power cuts? | 3 runs of any kind: a leftover, its clearer, and one that comes between; one crash, one failing call |
| `growing` | is what is published final, does the list only grow and end? | 7 files of up to 5 clusters: steady audio, a lace across a cut, audio a window late, two cuts in a cluster, a last window of one frame, with and without a grid, the three endings; a cut each 4, grid step 2, a lead of 2; 2 requests, 2 asks (what one learns, the other uses), one failure |
| `temp_stolen` | what a comment and a test say and the code does not do (section 6) | two writers, nothing failing |

Symmetry is used in `cache_bytes` and `temp_output` only, which check no
liveness. Deadlock is not checked in `kept_windows`, `moov_swap` and `growing`,
where the system does stop (all requests answered, all edits spent, the plan
closed and the asks spent); in `kept_windows` and `growing` a liveness property
says that it does not stop earlier. In the other runs it is checked, and the
modules end in an explicit stuttering step.

In `patch_all`, `NoLoss` is not checked but `SurvivesOne` is: with a
second torn crash, in the middle of clearing the 64-byte record, the debris is
recognised by no recovery. It is harmless (bytes in a Void; the next reindex
writes no record, which `RecordFits` models), but the file is not byte for byte
the original.

`OutputWhole`, `FailureKeepsOutput`, `AckedSurvives` and `OriginalKept` are stated
for behaviours in which no name was `stolen`; `temp_stolen` shows one that was.
`PublishedIsFinal` is stated for files whose tracks keep up with each other, none
ending right on a cut; section 6 says what the code does with the others. The
files that do not are still scanned and asked for in the run, under the other
properties.

## 5. Fairness

- `InPlacePatch`: the running call goes on (WF of its steps, all of which are sequential code), and whoever asked for the patch asks again (SF of `Begin`); nothing makes a crash or a failure happen or stop, their number is bounded.
- `WindowCache`: goroutines run (WF of each request's step); a walk is sure to end only once its context has ended, since the walk checks it. That the source answers is a premise (`SourceAnswers`) of `EveryRequestReturns` only; `AbandonedEnd` does without. WF of `AcquireWalk` is enough as long as the slot a request waits for is not taken for ever by newcomers: every request takes a bounded number of slots.
- `CryptGate`: WF of `Granted` and `Release` only: a waiter resumes once it is handed a slot, encrypting a sample ends. Nothing is assumed of a source, a client, or a newcomer.
- `AdmissionGate`: WF of each request's step, serving included: a handler that serves returns, as its answer is sent or the write of it fails (a client that stalls is the HTTP server's timeouts to end; they are set outside this code).
- `KeptWindows`: one WF for all requests together: while some goroutine can go on, one does, and each takes a bounded number of steps. Walks end; the read of a remote MP4's video does not have to, since it writes to its client as it goes, and `Answered` asks nothing of it but everything of the audio segments that wait for it.
- `GrowingPlan`: the file gets written, scans and requests end (WF); the server polls `Refresh` (WF) and, once the source is written, calls `Complete` until the plan is closed (SF: `scanMu` is granted in turn, so a stream of refreshes does not keep it out).
- `MoovSwap` and `TempOutput` check safety only: nothing in them waits.

## 6. What the code does otherwise than its documentation

One is a run that TLC ends with a counterexample:

- `temp_stolen`: "The second run is refused while the first holds its temporary file, and nothing of the first's is touched" (`mkv/ops/output_busy_test.go:32`). `Take` compares the handle it locked with the file its run created, and not with what the name stands for after the lock (`internal/tmplock/tmplock.go:32`), and `Clear` removes by name. A run that opened the name before another created, and removed, its file may rename the other's half-written file onto the output.

Seen while modelling, in the models or beside them, and not kept as runs:

In-place patch:

- the rollback truncates the journal with no sync after the restored zones, so a power cut may keep the truncate and not the zones (`mkv/ops/reindex_inplace.go:1018`);
- "the file is left mid-operation with its journal still attached" is also answered when the append was short and there is no journal (`:150`);
- a journal whose trailer landed before its payload is refused for good, the intent record unread (`:936`);
- `recoverIntent` cuts the tail and clears the record with one sync after both: a power cut may keep only the second (`:770`);
- a retime has no intent record, so the tail of a torn append stays in the file (`mkv/ops/retime.go:406`).

`patch_kill` and `patch_all` exclude these by crash model (kills and torn writes,
no power cut), `power_forward` by allowing one cut, so that none falls into the
recovery of another, and no failing call.

Other outputs:

- a replace that fails removes the temporary name a second time, by then possibly another run's (`mkv/ops/reindex_replace.go:49`; part of `stolen`); two replaces of one file, one after the other's read, lose the first's change;
- `flushDir` does not look at the error of the directory's `Sync` (`mkv/ops/output.go:168`);
- two edits of one MP4 that both pass the check of its size append over each other (`mp4/editshift.go:602`); nothing locks the file, as its comment allows for another writer only at that point;
- `Diagnose` takes the last moov of a file where readers take the first, and so reads an interrupted edit's (`mp4/diagnose.go:194`).

Serving:

- a walk reserves `windowSpan`, an estimate, and keeps what the segments weigh without asking again (`mp4/hlsstream.go:467`): the kept bytes may pass the `SetWindowBytes` budget by what the walks under way underestimate;
- a keeping walk that panics never gives its reserve back (`mp4/hlsstream.go:400`): `WalkPanics` in `KeptWindows`;
- after `SetMaxConcurrentWalks` lowers the cap, walks of the old channel and new ones together may exceed it until the old end (`mp4/walkslots.go:24`); the comment on the setting advises to set it first;
- a request may be answered 503 with an empty queue, as one that got its slot or left is counted until `enter` returns (`mkvhttp/admission.go:32`).

Growing plans:

- `trackEndedBefore` uses `<=` (`mp4/hlsplan_far.go:43`): a track whose last frame stands on a cut is taken to have ended before that window on the second request for it, which comes back without the frame;
- audio without a grid that is stored a window behind its video is not waited for by `gridSettledLocked`, so a published segment changes when the rest is written, against `mp4/growinghls.go:22-24`;
- a scan of the head that fails part of the way through a cluster is folded in again by the retry, and the composition shift is measured on frames counted twice (`mp4/growinghls.go:452`);
- an element other than a Cluster between two Clusters ends the plan early (`mp4/growinghls.go:377`).

## 7. Proofs

`InPlacePatchProofs`, for any number of zones and any bounds:

- `TypeCorrect`: every action keeps the types; one lemma per effect on the file.
- `WriteAheadHolds` and `PatchIsAtomic`, under `CrashModel # "power"` (the unsynced rollback of section 6 is their counterexample with power cuts). `WriteAhead` is not inductive: it does not say where a call may be when zones are patched. The invariant is `TypeOK /\ SafeFile /\ Placed`: `SafeFile` is what the file may hold at any instant (`WriteAhead`, and no intent record facing a patched file without its journal), `Placed` ties `pc`, `goal` and `k` to the zones done so far (those below `k` patched or restored, the rest not). The refinement proof maps each action to `Commit`, a reply or a stutter: the truncate at `commit` is the only step that changes `Content`.

- `BarrierHolds` and `AnswersAreTrue`, under the same assumption. They are about the medium, so the invariant gains `OnMedium`: what each sync settled, at every step that relies on it, and where a call may be while an earlier answer stands (in a recovery that finds nothing to do). With a power cut they fail once two calls may fail: a record whose write and whose clearing were both cut short is torn in the cache and still headed on the medium, the next run sees no record, and a power cut brings it back beside that run's journal.
- `KillsLoseNothing`: `NoLoss` when the process is only killed between two calls and no call fails, the conditions of `patch_kill`, for any number of zones and kills. `Unhurt` says `Recoverable` of every instant, not only of those when no call runs.

- `OneFailureLosesNothing`: `SurvivesOne`, short of power cuts. `Once` is the invariant: an intent record on the file is always one its journal knows of, the calls of a recovery are reached only after the one failure, and each step of it finds the file as the step before left it.

- `BarrierHoldsThroughPowerCuts` and `AnswersSurvivePowerCuts`, under `CrashModel = "power"` and `MaxFaults = 0`, for any number of power cuts, those that fall into the recovery of an earlier one included. They do not rest on `SafeFile`, which two cuts can break: a cut into the unsynced rollback (section 6) leaves a file no later patch understands, and even of that one the order of the syncs and what a caller was told stay true. The invariant `Steady` says what each sync settles for the steps behind it (`Settled`: everything, `Cleared`: no record), and that a file whose last journal has no zone for an intent record can get none back from the medium, which is the counterexample above excluded.
- `WriteAheadSurvivesOnePowerCut`, for one power cut (`MaxCrashes <= 1`) and no failing call. `Early` says what is true until that cut: no recovery has anything to do and no zone is patched, on the medium either, before the journal is synced. `FirstPowerCut` then splits on where the call is: everything is settled, or nothing is patched, or the whole journal is on the medium, or every patch is and no record. From there on the file is `SafeFile` and the lemmas of the crash-free steps carry it.

`WindowCacheProofs`, for any finite set of requests, any sequence of caps, any
number of departures and failing reads: `NobodyAbandoned`, `OneBuildHolds`,
`RequestsFailForThemselves`, `SlotsMatch`. The first three are one induction over
a flight's life: nothing is on it before its request leads, it is where newcomers
find it until it ends or is cancelled (`Found`, `Current`), its counter is the
number of those who wait on it (`Counted`), and it is cancelled (`Abandoned`) or
fails while reads succeed (`Blameless`) only when its leader has gone and nobody
waits. The cache never enters: a bundle found in it is waited on by nobody.
`SlotInv` is apart from it, one lemma for each way a count of walks changes.
So is the cache's own, of `BytesAreAccounted` and `CacheIsConsistent`, for any
finite sets of windows and renditions and any budget: a request takes from a
bundle of its own window (`OfWindow`), the cache holds bundles of its windows that
were framed (`Stored`), and what was served and what bundles still hold, cached or
dropped, was framed once (`Sums`), so that no count goes negative.

`SumsAndOrders` holds what those two and `KeptWindowsProofs` need of sums over
finite sets (an element taken first, one value changed, a part and the rest) and
of age orders. The community module's sum is a fold, whose recursion is over the
elements in an order nobody chose. Induction over a predicate being out of the
prover's reach, each lemma takes a smallest set it fails on, by the
well-foundedness of the strict subsets, and contradicts it.

`KeptWindowsProofs`, for any finite sets of requests, plans, windows and
renditions: `BytesAreConserved`, `BudgetsHold`, `NoWindowIsDead`. None is
inductive: what a plan gives back is right only if a table stands in one place, is
the one built for that window, and if a request that has no table holds nothing.
`KInv` has what each step of a request may have reserved, hold and take from
(`Requested`), where tables and flights are (`Tabs`, `TabAges`), which shared
windows are read or kept (`Shares`), and the sums: all that is owned against
`total` (`Totals`), each plan's account against its tables (`Accounts`), all tables
against theirs (`Rooms`). A panic makes `total` more than what is owned, never
less. `Bounded` is the byte budget: it counts what a walk may yet add over its
reserve from the moment it reserves, so that it falls with every step but a
reserve that fits.

`GateProofs`, of the encryption gate, for any finite set of requests and any number of slots:
`SlotsAreConserved`, `NoSlotIdles`, `OldestFirst`. The invariant adds `Placed`
(who is in the heap, ready or gone, by the step it is at) and `Numbered` (no two
requests have one place in the order), which `HandOff` needs to choose one
waiter; `HandOffKeeps` proves the two users of `handOff` at once.

And of the admission gate, for any two limits: `InFlightIsBounded`,
`WaitingIsBounded`, `CounterIsExact`. The three are inductive together with the
types: the queue's bound follows from the exact counter at the moment of
`Add(1)`. `MoveCount` and `GotoCount` say how a cardinality changes when one
request takes one step.

`MoovSwapProofs`, for any number of edits, crashes and failing calls:
`ReadableAtEveryInstant`, `HalfEditsAreNeverRead`, `EditsAreKept`, `OneMoovIsLeft`, `FailedEditsLeaveNoTear`.
None is inductive. The induction knows two boxes, `Heads(b, f)`: b is the moov
that the medium surely holds or has retired, f the one every reader finds when b
is retired; a sync that settles the last flip makes them one. `Phase` says what
an edit has established at each of its steps. A power cut then only picks among
values the invariant already allows.

`TempOutputProofs`, for any number of runs, kills, power cuts and failing calls:
`OutputIsWhole`, `FailuresKeepTheOutput`, `AckedOutputsSurvive`, `TheOriginalIsKept`.
The four are one induction. `Locks` says who holds which lock, whatever was
stolen. While nothing was, `Owned` says that a run from its copy to its rename
has the temporary name to itself, and `InOrder` what every directory that is, or
that a power cut may leave, names: flushed files, of runs that did rename theirs,
with the original or an acknowledged output among them. `Monotone` and
`RenamedStays` carry a directory that is in order over any step, so that only the
three renames have a directory of their own to account for.

`GrowingPlanProofs`, for any set of files that satisfy the assumptions, any
number of requests, questions and failing scans: `BoundsAsPlanned`,
`PlaylistOnlyGrows`, `InitMeasuredAsPlanned`, `SegmentsAreFinal`. A scan that fails part of the way
through a cluster may have recorded keyframes ahead of the cursor, and its retry
meets them again; so the cuts are tied to the blocks by what they cover and not
by the cursor (`WalkInv`: every cut found is the planned one and every block
walked under the lock is covered), and refolding a covered block changes nothing. The lead
is not so lucky, which is why `InitAsPlanned` excepts `refolded`: `LeadInv` is
that the lead is the planned one's prefix over the blocks walked while no scan of
the head was cut short. `ListInv` orders what is listed, published and cut, and
the types need what each step of a request has (`ReqInv`). The loops being
recursive functions, each is opened once, by the theorem that such a function
exists, and then used through its two equations.

`SegmentsAreFinal` is the largest of them, since it compares an answer made of a
part of the file, out of what earlier requests learned of other parts, with what
the full pass makes of the whole. `PublishedIsFinal` says nothing of how either
is reached; `FinalsInv`, the invariant it follows from, does, in four parts:

- `GridInv`, of the scans. A scan cut short folds its cluster again, so the audio frames kept may hold some twice. They still echo the frames written (`Echoes`, `Keeps`): in order, each of them a frame heard, none heard since the first open window left out. Each slot of the grid is the next one or the frame's own, whichever is later, so frames kept twice can only put the end the scan derives later than the window's own (`Spilled`): the scan may hold a window back longer than it had to, and never publishes it early.
- `SettledInv`: of a published window, all that a walk for it waits for is written, and, when its audio spills over its end, all that a walk for the window after waits for too (`SettledBy`). That is where `even` is used, and `AtInv`, that no cut is found past the cluster walked now, nor past what is written whole: the window that the cluster publishes has its other tracks heard too. Settled windows have the same full pass whichever cuts are found later (`SettledPass`).
- `AnswersInv`, of the requests: the track ends recorded by walks are ends (`EndsKnown`), whatever the walk was for and wherever the file ended then; a boundary learned is the opening of its window or the end of the one before, which agree when both hold frames (`StartsKnown`, `EndNext`); and each request's segment is, as far as it went, the full pass's (`ReqFinal`). One lemma for each step of a request (`AskAnswers` to `EndAnswers`), one for all the others (`AnswersKept`).
- `EndingInv`, for the windows of a closed plan: it closes only over a file that is written whole, whatever failed before.

The assumptions are those the modules name: the constants are numbers of the
right range, the sets of requests, plans, windows and renditions are finite.
Nothing else is assumed.

Only model-checked: liveness (fairness is out of the prover's reach). Neither
checked nor proved, because it is not so: that a power cut loses nothing
(`NoLoss`, `SurvivesOne`, `AtomicSpec`) and that `WriteAhead` survives a second
one, see section 6.

## 8. Not modelled

- The S3 source: signing and addressing over `httpfs`, with no state of its own.
- `httpfs`: the state that matters is the server's, outside this code; first on the list of what is left.
- The rollback ledger: its order within a patch is a step of `InPlacePatch`; whether an entry is whole is decided by a digest of its bytes, which is data.
- The HTTP handlers apart from the admission gate, the command line and the web front ends: no shared state.
- The EBML codec, the readers and writers, the muxers, CENC and the remuxing operations: sequential transformations of data. They are most of the code by lines; their control is loops over boxes and elements, and what could be wrong in them is a byte, which the repository's round-trip tests compare.
