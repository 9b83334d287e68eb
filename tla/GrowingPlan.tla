---------------------------- MODULE GrowingPlan ----------------------------
(* HLS over a Matroska file that is still being written: GrowingHLSPlan     *)
(* (mp4/growinghls.go) and the walks its requests make through the HLSPlan  *)
(* it extends (mp4/hlsplan_walk.go, hlsplan_timing.go, gridwindow.go).      *)
(*                                                                          *)
(* A writer appends blocks to clusters; Refresh and Complete, one at a time *)
(* (scanMu), walk the whole clusters from a cursor and publish the segments *)
(* they close; requests hold the plan shared (mu, a read lock) while they   *)
(* read the file, which goes on growing under them. A block is a record     *)
(* [t, ms, key]; a laced block's frames are blocks of the same ms. The      *)
(* plan's windows count from 1 here, from 0 in the code; a position in the  *)
(* file is the number of its cluster.                                       *)
EXTENDS Integers, Sequences, FiniteSets, SequencesExt

CONSTANTS
  Files,      \* the finished files: [blocks, ends, tracks, grid, ending], ends[c] the last block of cluster c
  SegMs,      \* Options.SegmentMs
  Tick,       \* gridTS: the grid's step, in the unit of ms
  LeadMax,    \* compositionPrefix
  Requests, None,
  MaxAsks,    \* bound: segments asked for
  MaxFaults   \* bound: scans that fail

ASSUME GrowingAssumption ==
  /\ SegMs \in Nat \ {0} /\ Tick \in Nat \ {0} /\ LeadMax \in Nat \ {0}
  /\ MaxAsks \in Nat /\ MaxFaults \in Nat
Blocks == [t : {"v", "a"}, ms : Nat, key : BOOLEAN]
ASSUME FilesAssumption ==
  \A f \in Files :
    /\ f.blocks \in Seq(Blocks) /\ \A i \in DOMAIN f.blocks : f.blocks[i].t \in f.tracks
    /\ f.ends \in Seq(Nat) \ {<<>>} /\ Last(f.ends) = Len(f.blocks)
    /\ \A c, d \in DOMAIN f.ends : c <= d => f.ends[c] <= f.ends[d]
    /\ "v" \in f.tracks /\ f.tracks \subseteq {"v", "a"}
    /\ f.grid \in BOOLEAN /\ (f.grid => "a" \in f.tracks)
    /\ f.ending \in {"cues", "declared", "open"}

VARIABLES
  file,     \* the file as it will be once written
  written,  \* the blocks of it already there
  trailer,  \* the element after the last cluster is there
  scan,     \* the Refresh or Complete holding scanMu: the file's size when it began, the blocks it walked of the
            \* cluster at the cursor, whether it walks them with mu held, and what it met when it does not
  plan,     \* the GrowingHLSPlan
  opened,   \* PlanGrowingHLS returned
  starts,   \* gridStart: where each window opens on the grid, -1 until learned
  ended,    \* trackEndMs: where a walk met the end of the source, -1 if none
  req,      \* the requests
  asks, faults,
  refolded  \* a scan failed part of the way through a cluster of the head

filevars == <<file, written, trailer>>
learned  == <<starts, ended>>
vars     == <<filevars, scan, plan, opened, learned, req, asks, faults, refolded>>

----------------------------------------------------------------------------
(* The grid of an audio track whose frames are timed on it.                 *)

\* The elements of s at the places I.
Picked(s, I) ==
  LET out[i \in 0..Len(s)] ==
        IF i = 0 THEN <<>> ELSE IF i \in I THEN Append(out[i-1], s[i]) ELSE out[i-1]
  IN out[Len(s)]

Of(t, blocks) == Picked(blocks, {i \in DOMAIN blocks : blocks[i].t = t})
TimesOf(t, blocks) == LET own == Of(t, blocks) IN [i \in DOMAIN own |-> own[i].ms]

\* Times count from the track's first block.
ASSUME TracksOpenAtZero == \A f \in Files : \A t \in f.tracks : TimesOf(t, f.blocks)[1] = 0
gridIndex(ms) == (ms + Tick \div 2) \div Tick

\* The slots of the frames of a window opened on its first block's own slot.
gridFrames(pts) ==
  LET k[i \in DOMAIN pts] ==
        IF i = 1 THEN gridIndex(pts[1])
        ELSE IF pts[i] = pts[i-1] \/ gridIndex(pts[i]) < k[i-1] + 1 THEN k[i-1] + 1
        ELSE gridIndex(pts[i])
  IN k
gridColdEnd(pts) == Last(gridFrames(pts)) + 1
gridJitter(pts) ==
  \E i \in 2..Len(pts) : pts[i] # pts[i-1] /\ gridIndex(pts[i]) # gridFrames(pts)[i-1] + 1
gridOpen(pts, prevEnd) ==
  IF prevEnd > gridIndex(pts[1]) /\ gridJitter(pts) THEN prevEnd ELSE gridIndex(pts[1])

\* The index of the first time at or past ms, one past the last when none is.
FirstAt(pts, ms) ==
  LET at == {i \in DOMAIN pts : pts[i] >= ms}
  IN IF at = {} THEN Len(pts) + 1 ELSE CHOOSE i \in at : \A j \in at : i <= j

----------------------------------------------------------------------------
(* What PlanHLS and the full pass make of the finished file.                *)

ClusterOf(f, i) == CHOOSE c \in DOMAIN f.ends : i <= f.ends[c] /\ (c > 1 => i > f.ends[c-1])
IsKey(b) == b.t = "v" /\ b.key
KeysOf(f) ==
  Picked([i \in DOMAIN f.blocks |-> [ms |-> f.blocks[i].ms, at |-> ClusterOf(f, i)]],
         {i \in DOMAIN f.blocks : IsKey(f.blocks[i])})

\* PlanHLS plans no file without a keyframe.
ASSUME KeysAssumption == \A f \in Files : KeysOf(f) # <<>>

\* PlanHLS's bounds and offsets, cut from the index.
PlannedCuts(f) ==
  LET keys == KeysOf(f)
      cuts[i \in 0..Len(keys)] ==
        IF i = 0 THEN <<[ms |-> 0, at |-> keys[1].at]>>
        ELSE IF keys[i].ms >= Last(cuts[i-1]).ms + SegMs THEN Append(cuts[i-1], keys[i]) ELSE cuts[i-1]
  IN cuts[Len(keys)]

\* The frames the full pass puts in window n of a track, all its times in pts, and the first after them.
WindowTo(cuts, pts, n) == IF n < Len(cuts) THEN FirstAt(pts, cuts[n+1].ms) ELSE Len(pts) + 1
FullWindow(cuts, pts, n) ==
  SubSeq(pts, IF n = 1 THEN 1 ELSE FirstAt(pts, cuts[n].ms), WindowTo(cuts, pts, n) - 1)
FullNext(cuts, pts, n) == IF WindowTo(cuts, pts, n) <= Len(pts) THEN pts[WindowTo(cuts, pts, n)] ELSE -1

\* gridTimeWindows: where each window of the finished track opens, and where the next one it holds frames in does.
FullOpen(cuts, pts, n) ==
  LET before == IF n = 1 THEN <<>> ELSE FullWindow(cuts, pts, n - 1)
  IN gridOpen(FullWindow(cuts, pts, n), IF before = <<>> THEN -1 ELSE gridColdEnd(before))
FullEnd(cuts, pts, n) ==
  LET later == {m \in n+1..Len(cuts) : FullWindow(cuts, pts, m) # <<>>}
  IN IF later = {} THEN -1 ELSE FullOpen(cuts, pts, CHOOSE m \in later : \A k \in later : m <= k)

FullPass(f, cuts, n) ==
  LET pts == [t \in f.tracks |-> TimesOf(t, f.blocks)]
      gridded == f.grid /\ FullWindow(cuts, pts["a"], n) # <<>>
  IN [frames |-> [t \in f.tracks |-> FullWindow(cuts, pts[t], n)],
      next   |-> [t \in f.tracks |-> FullNext(cuts, pts[t], n)],
      open   |-> IF gridded THEN FullOpen(cuts, pts["a"], n) ELSE -1,
      end    |-> IF gridded THEN FullEnd(cuts, pts["a"], n) ELSE -1]

\* The opening frames the composition shift is measured on.
PlannedLead(f) ==
  LET video == Of("v", f.blocks)
      close == {i \in 2..Len(video) : video[i].key \/ i > LeadMax}
      n     == IF close = {} THEN Len(video) ELSE (CHOOSE i \in close : \A j \in close : i <= j) - 1
  IN [i \in 1..n |-> video[i].ms]

\* Every track keeps up with the video: what it has before a cut is written, and its first block past the cut if it
\* goes that far, before the scan publishes the window.
Interleaved(f) ==
  LET cuts  == PlannedCuts(f)
      audio == {i \in DOMAIN f.blocks : f.blocks[i].t = "a"}
      by(n) == f.ends[IF ~f.grid THEN cuts[n].at ELSE IF n < Len(cuts) THEN cuts[n+1].at ELSE Len(f.ends)]
  IN \A n \in 2..Len(cuts) : \/ \E i \in audio : i <= by(n) /\ f.blocks[i].ms >= cuts[n].ms
                             \/ \A i \in audio : i <= by(n)
\* A track that reaches a cut goes past it.
EndsInside(f) ==
  \A n \in DOMAIN PlannedCuts(f) : \A i \in DOMAIN f.blocks :
    f.blocks[i].ms >= PlannedCuts(f)[n].ms =>
      \E j \in DOMAIN f.blocks : f.blocks[j].t = f.blocks[i].t /\ f.blocks[j].ms > PlannedCuts(f)[n].ms

\* All of it, file by file: full[k][n] is window n of the file cut by the first k cuts alone.
Finished ==
  [f \in Files |->
    LET cuts == PlannedCuts(f)
    IN [cuts   |-> cuts,
        lead   |-> PlannedLead(f),
        full   |-> [k \in 1..Len(cuts) |-> [n \in 1..k |-> FullPass(f, SubSeq(cuts, 1, k), n)]],
        even   |-> Interleaved(f) /\ EndsInside(f)]]

----------------------------------------------------------------------------
(* The plan.                                                                *)

NoList  == [n |-> 0, ended |-> FALSE, served |-> FALSE]
NewPlan == [cursor |-> 0, cuts |-> <<>>, gridPts |-> <<>>, gridWin |-> 0, met |-> {},
            lead |-> <<>>, leadDone |-> FALSE, headDone |-> FALSE,
            published |-> 0, done |-> FALSE, list |-> NoList]

Idle    == [pc |-> "idle", call |-> "none", size |-> 0, at |-> 0, locked |-> FALSE, keys |-> <<>>, audio |-> <<>>]
NoReq   == [pc |-> "idle", n |-> 0, closed |-> FALSE, seg |-> None]
Whole   == Cardinality({c \in DOMAIN file.ends : file.ends[c] <= written})   \* whole clusters so far
Written == Whole = Len(file.ends) /\ (file.ending = "cues" => trailer)

Init ==
  /\ file \in Files /\ written = 0 /\ trailer = FALSE
  /\ scan = Idle /\ plan = NewPlan /\ opened = FALSE
  /\ starts = [n \in DOMAIN Finished[file].cuts |-> -1]
  /\ ended = [t \in file.tracks |-> -1]
  /\ req = [r \in Requests |-> NoReq]
  /\ asks = 0 /\ faults = 0 /\ refolded = FALSE

\* extendHeadLocked: a track's first sample.
extendHead(p, b) == [p EXCEPT !.met = @ \union {b.t}]

\* extendLeadLocked: the prefix closes on the second keyframe or when it is full.
extendLead(p, b) ==
  IF p.leadDone THEN p
  ELSE IF (p.lead # <<>> /\ b.key) \/ Len(p.lead) >= LeadMax THEN [p EXCEPT !.leadDone = TRUE]
  ELSE [p EXCEPT !.lead = Append(@, b.ms)]

\* recordKeyframeLocked.
recordKeyframe(cuts, ms, at) ==
  LET known == IF cuts = <<>> THEN <<[ms |-> 0, at |-> at]>> ELSE cuts
  IN IF ms >= Last(known).ms + SegMs THEN Append(known, [ms |-> ms, at |-> at]) ELSE known

recordKeyframes(cuts, keys, at) ==
  LET after[i \in 0..Len(keys)] == IF i = 0 THEN cuts ELSE recordKeyframe(after[i-1], keys[i], at)
  IN after[Len(keys)]

\* scanClusterLocked, one block.
foldBlock(p, b, at) ==
  IF b.t = "a" THEN [extendHead(p, b) EXCEPT !.gridPts = Append(@, b.ms)]
  ELSE LET q == extendLead(extendHead(p, b), b) IN IF b.key THEN [q EXCEPT !.cuts = recordKeyframe(@, b.ms, at)] ELSE q

\* dropGridWindowLocked, of the windows up to n: what is left opens on the frames of window n + 1.
dropGridWindows(p, n) ==
  IF n = p.gridWin THEN p.gridPts ELSE SubSeq(p.gridPts, FirstAt(p.gridPts, p.cuts[n+1].ms), Len(p.gridPts))

gridSettledAlone(p, m) ==   \* a window is timed for good once the first frame after it is met
  LET pts == dropGridWindows(p, m - 1)
  IN ~file.grid \/ FirstAt(pts, p.cuts[m+1].ms) <= Len(pts) \/ m + 2 <= Len(p.cuts)

\* gridSettledLocked, m the first window not yet published, its next cut known.
gridSettled(p, m) ==
  ~file.grid \/
  LET pts == dropGridWindows(p, m - 1)
      to  == FirstAt(pts, p.cuts[m+1].ms)
  IN IF to > Len(pts) THEN m + 2 <= Len(p.cuts)
     ELSE \/ to = 1
          \/ gridColdEnd(SubSeq(pts, 1, to - 1)) <= gridIndex(pts[to])
          \/ /\ m + 2 <= Len(p.cuts)
             /\ \/ FirstAt(SubSeq(pts, to, Len(pts)), p.cuts[m+2].ms) <= Len(pts) - to + 1
                \/ m + 3 <= Len(p.cuts)

\* updateSegCountLocked's loop: the windows settled one after the other are published, and their frames dropped.
publishSettled(p) ==
  LET to == CHOOSE n \in p.gridWin..Len(p.cuts) :
              /\ \A m \in p.gridWin+1..n : m < Len(p.cuts) /\ gridSettled(p, m)
              /\ ~(n + 1 < Len(p.cuts) /\ gridSettled(p, n + 1))
  IN [p EXCEPT !.gridWin = to, !.gridPts = dropGridWindows(p, to), !.published = to]

updateSegCount(p) ==
  IF ~p.headDone THEN [p EXCEPT !.published = 0]
  ELSE IF p.done THEN [p EXCEPT !.published = Len(p.cuts)]
  ELSE publishSettled(p)

\* resolveHeadLocked, once every selected track showed its first sample.
resolveHead(p) == [p EXCEPT !.headDone = @ \/ p.met = file.tracks]

rebuildEarly(p) ==   \* outputs as soon as every track has its sample entry
  IF p.headDone
  THEN [p EXCEPT !.list = [n |-> p.published, ended |-> p.done, served |-> TRUE]] ELSE p
rebuildAll(p) ==   \* the segment still accumulating is listed
  IF p.headDone /\ p.leadDone
  THEN [p EXCEPT !.list = [n |-> Len(p.cuts), ended |-> p.done, served |-> TRUE]] ELSE p
\* rebuildOutputsLocked, once the head and the lead are resolved.
rebuildOutputs(p) ==
  IF p.headDone /\ p.leadDone
  THEN [p EXCEPT !.list = [n |-> p.published, ended |-> p.done, served |-> TRUE]] ELSE p

finalizedUnlisted(p) ==   \* the plan closes, its playlist is left as the last scan built it
  updateSegCount([p EXCEPT !.leadDone = TRUE, !.done = TRUE])

\* finalizeLocked.
finalized(p) ==
  rebuildOutputs(updateSegCount([p EXCEPT !.leadDone = TRUE, !.done = TRUE]))

----------------------------------------------------------------------------
(* The writer.                                                              *)

WriteBlock ==
  /\ written < Len(file.blocks) /\ written' = written + 1
  /\ UNCHANGED <<file, trailer>>
WriteTrailer ==
  /\ Whole = Len(file.ends) /\ file.ending = "cues" /\ ~trailer
  /\ trailer' = TRUE /\ UNCHANGED <<file, written>>
Write ==
  /\ WriteBlock \/ WriteTrailer
  /\ UNCHANGED <<scan, plan, opened, learned, req, asks, faults, refolded>>

----------------------------------------------------------------------------
(* Refresh and Complete.                                                    *)

NoReader == \A r \in Requests : req[r].pc \in {"idle", "answered"}

Begin(call) ==
  /\ scan.pc = "idle" /\ ~plan.done
  /\ scan' = [Idle EXCEPT !.pc = "scan", !.call = call, !.size = Whole]
  /\ UNCHANGED <<filevars, plan, opened, learned, req, asks, faults, refolded>>
Refresh  == Begin("refresh")
Complete == opened /\ Written /\ Begin("complete")

\* publish: the plan changes with mu write-held.
Publish(p, next) ==
  /\ NoReader
  /\ plan' = p /\ scan' = next
  /\ UNCHANGED <<filevars, learned, req, asks>>

\* scanCluster walks a whole cluster. Until the head and the lead are resolved every block is folded in at once,
\* with mu held throughout; afterwards the keyframes and the audio's times are kept aside and published together.
HeadOpen == ~(plan.headDone /\ plan.leadDone)
Cluster  ==
  SubSeq(file.blocks, IF plan.cursor = 0 THEN 1 ELSE file.ends[plan.cursor] + 1, file.ends[plan.cursor + 1])
Walking  == scan.pc = "scan" /\ plan.cursor < scan.size
ScanBlock ==
  /\ Walking /\ scan.at < Len(Cluster)
  /\ LET b == Cluster[scan.at + 1]
         locked == IF scan.at = 0 THEN HeadOpen ELSE scan.locked
         next == [scan EXCEPT !.at = @ + 1, !.locked = locked]
     IN IF locked THEN Publish(foldBlock(plan, b, plan.cursor + 1), next)
        ELSE /\ scan' = IF b.t = "a" THEN [next EXCEPT !.audio = Append(@, b.ms)]
                        ELSE IF b.key THEN [next EXCEPT !.keys = Append(@, b.ms)] ELSE next
             /\ UNCHANGED <<filevars, plan, learned, req, asks>>
  /\ UNCHANGED <<opened, faults, refolded>>

foldKept(p) ==
  [p EXCEPT !.gridPts = @ \o scan.audio, !.cuts = recordKeyframes(@, scan.keys, p.cursor + 1)]
NextCluster == [scan EXCEPT !.at = 0, !.locked = FALSE, !.keys = <<>>, !.audio = <<>>]
ScanCluster ==
  /\ Walking /\ scan.at = Len(Cluster)
  /\ \E p \in {IF scan.locked THEN resolveHead(plan) ELSE foldKept(plan)} :
       Publish([updateSegCount(p) EXCEPT !.cursor = @ + 1], NextCluster)
  /\ UNCHANGED <<opened, faults, refolded>>

\* Where a scan that fails leaves the call: Complete still closes the plan.
Abandoned(call) == IF call = "complete" THEN [NextCluster EXCEPT !.pc = "close"] ELSE Idle

ScanFailsPast ==   \* the cursor moves past the cluster that failed
  /\ Walking
  /\ faults < MaxFaults /\ faults' = faults + 1
  /\ IF opened
     THEN /\ scan' = Abandoned(scan.call) /\ plan' = [plan EXCEPT !.cursor = @ + 1]
          /\ refolded' = (refolded \/ (scan.locked /\ scan.at > 0))
     ELSE scan' = Idle /\ plan' = NewPlan /\ UNCHANGED refolded
  /\ UNCHANGED <<filevars, opened, learned, req, asks>>

\* A read fails, or the context ends, part of the way through a cluster: what was kept aside is lost, what was
\* folded in stays, and the cursor does not move. The first scan's failure is PlanGrowingHLS's: no plan is returned.
ScanFails ==
  /\ Walking
  /\ faults < MaxFaults /\ faults' = faults + 1
  /\ IF opened
     THEN /\ scan' = Abandoned(scan.call) /\ UNCHANGED plan
          /\ refolded' = (refolded \/ (scan.locked /\ scan.at > 0))
     ELSE scan' = Idle /\ plan' = NewPlan /\ UNCHANGED refolded
  /\ UNCHANGED <<filevars, opened, learned, req, asks>>

\* The element after the last cluster is no cluster, or the Segment's declared end is reached.
AtEnd ==
  /\ scan.pc = "scan" /\ plan.cursor = Len(file.ends)
  /\ trailer \/ (file.ending = "declared" /\ scan.size = Len(file.ends))
Finalize ==
  /\ AtEnd \/ scan.pc = "close"
  /\ Publish(finalized(plan), Idle)
  /\ opened' = TRUE
  /\ UNCHANGED <<faults, refolded>>

\* peekTail fails: Complete tries once more, and leaves the plan open if that fails too.
FinalizeFails ==
  /\ AtEnd \/ scan.pc = "close"
  /\ plan.headDone /\ plan.cuts # <<>>
  /\ faults < MaxFaults /\ faults' = faults + 1
  /\ IF opened
     THEN Publish(plan, IF AtEnd THEN Abandoned(scan.call) ELSE Idle)
     ELSE Publish(NewPlan, Idle)
  /\ UNCHANGED <<opened, refolded>>

\* What follows the cursor is not whole yet: the outputs are rebuilt.
ScanRests ==
  /\ scan.pc = "scan" /\ plan.cursor >= scan.size /\ ~AtEnd
  /\ Publish(rebuildOutputs(plan), Abandoned(scan.call))
  /\ opened' = TRUE
  /\ UNCHANGED <<faults, refolded>>

----------------------------------------------------------------------------
(* Requests: Segment(n), over the blocks the file holds by then.            *)

Visible == SubSeq(file.blocks, 1, written)

\* trackEndedBefore: no block of track t at or past ms, as a walk met the end without one.
trackEndedBefore(t, ms) == ended[t] >= 0 /\ ended[t] <= ms

\* walkWindow: window n of each track, the first block of it after the window, and the ends the walk met. It goes
\* on until every track it waits for crossed the window's end, or the file ends. The seat the walk starts from
\* (segPos, coldStart) skips only blocks before the window and is left out.
walkWindow(n) ==
  LET B == Visible
      start == plan.cuts[n].ms
      crossing(t) == {i \in DOMAIN B : B[i].t = t /\ n < Len(plan.cuts) /\ B[i].ms >= plan.cuts[n+1].ms}
      cross == [t \in file.tracks |-> IF crossing(t) = {} THEN 0
                                      ELSE CHOOSE i \in crossing(t) : \A j \in crossing(t) : i <= j]
      waiting == {t \in file.tracks : ~trackEndedBefore(t, start)}
      atEnd == \E t \in waiting : cross[t] = 0
      last  == IF atEnd THEN Len(B)
               ELSE CHOOSE i \in {cross[t] : t \in waiting} \union {0} : \A t \in waiting : cross[t] <= i
      window(t) ==
        LET read == TimesOf(t, SubSeq(B, 1, IF cross[t] \in 1..last THEN cross[t] - 1 ELSE last))
        IN SubSeq(read, IF n = 1 THEN 1 ELSE FirstAt(read, start), Len(read))
      seen(t) == LET met == {start} \union {B[i].ms : i \in {j \in DOMAIN B : B[j].t = t}}
                 IN CHOOSE ms \in met : \A other \in met : other <= ms
  IN [frames |-> [t \in file.tracks |-> window(t)],
      next   |-> [t \in file.tracks |-> IF cross[t] \in 1..last THEN B[cross[t]].ms ELSE -1],
      ended  |-> [t \in file.tracks |->
                    IF atEnd /\ cross[t] = 0 /\ seen(t) > ended[t] THEN seen(t) ELSE ended[t]]]

\* learnGridStart: the first value kept.
learnGridStart(s, n, k) == IF n <= Len(plan.cuts) /\ s[n] < 0 THEN [s EXCEPT ![n] = k] ELSE s

Step(r, seg, pc) == req' = [req EXCEPT ![r].seg = seg, ![r].pc = pc]

Ask(r) ==
  /\ opened /\ ~scan.locked
  /\ asks < MaxAsks /\ asks' = asks + 1
  /\ req[r].pc \in {"idle", "answered"}
  /\ \E n \in 1..plan.published :
       req' = [req EXCEPT ![r] = [pc |-> "walk", n |-> n, closed |-> plan.done, seg |-> None]]
  /\ UNCHANGED <<filevars, scan, plan, opened, learned, faults, refolded>>

WalkWindow(r) ==
  /\ req[r].pc = "walk"
  /\ LET w == walkWindow(req[r].n)
         seg == [frames |-> w.frames, next |-> w.next, open |-> -1, end |-> -1]
     IN /\ ended' = w.ended
        /\ Step(r, seg, IF file.grid /\ w.frames["a"] # <<>> THEN "open" ELSE "answered")
  /\ UNCHANGED <<filevars, scan, plan, opened, starts, asks, faults, refolded>>

\* gridSpanFor, the window's opening: learned by an earlier walk, or derived, from the window before when its own
\* blocks leave the grid.
GridOpens(r) ==
  LET n == req[r].n
      seg == req[r].seg
      pts == seg.frames["a"]
      before == n > 1 /\ gridJitter(pts)
      w == walkWindow(n - 1)
      prevEnd == IF before /\ w.frames["a"] # <<>> THEN gridColdEnd(w.frames["a"]) ELSE -1
  IN /\ req[r].pc = "open"
     /\ IF starts[n] >= 0 THEN UNCHANGED learned
        ELSE /\ starts' = learnGridStart(starts, n, gridOpen(pts, prevEnd))
             /\ ended' = IF before THEN w.ended ELSE ended
     /\ Step(r, [seg EXCEPT !.open = starts'[n]], "end")
     /\ UNCHANGED <<filevars, scan, plan, opened, asks, faults, refolded>>

\* gridSpanFor, where the window after it opens: the track's end, what was learned, or the next block's slot, from
\* the window after when this one ends past it.
GridEnds(r) ==
  LET n == req[r].n
      seg == req[r].seg
      next == seg.next["a"]
      cold == gridColdEnd(seg.frames["a"])
      skips == n + 2 <= Len(plan.cuts) /\ next >= plan.cuts[n+2].ms
      after == cold > gridIndex(next)
      w == walkWindow(n + 1)
      end == IF after /\ w.frames["a"] # <<>> THEN gridOpen(w.frames["a"], cold) ELSE gridIndex(next)
  IN /\ req[r].pc = "end"
     /\ \/ /\ next < 0
           /\ Step(r, seg, "answered") /\ UNCHANGED learned
        \/ /\ next >= 0 /\ starts[n+1] >= 0
           /\ Step(r, [seg EXCEPT !.end = starts[n+1]], "answered") /\ UNCHANGED learned
        \/ /\ next >= 0 /\ starts[n+1] < 0 /\ skips
           /\ Step(r, [seg EXCEPT !.end = gridIndex(next)], "answered") /\ UNCHANGED learned
        \/ /\ next >= 0 /\ starts[n+1] < 0 /\ ~skips
           /\ Step(r, [seg EXCEPT !.end = end], "answered")
           /\ starts' = learnGridStart(starts, n + 1, end)
           /\ ended' = IF after THEN w.ended ELSE ended
     /\ UNCHANGED <<filevars, scan, plan, opened, asks, faults, refolded>>

\* A read fails, or the request's context ends.
GiveUp(r) ==
  /\ req[r].pc \in {"walk", "open", "end"}
  /\ req' = [req EXCEPT ![r] = NoReq]
  /\ UNCHANGED <<filevars, scan, plan, opened, learned, asks, faults, refolded>>

Serve(r) == GiveUp(r) \/ WalkWindow(r) \/ GridOpens(r) \/ GridEnds(r)
Scanning == ScanFails \/ FinalizeFails \/ ScanBlock \/ ScanCluster \/ Finalize \/ ScanRests

Next ==
  \/ Write
  \/ Refresh
  \/ Complete
  \/ Scanning
  \/ \E r \in Requests : Ask(r) \/ Serve(r)

Spec == Init /\ [][Next]_vars

\* The file gets written, scans and requests end; the server polls Refresh and, once the source is written, calls
\* Complete until the plan is closed (scanMu is granted in turn, however often Refresh is polled).
FairSpec ==
  /\ Spec /\ WF_vars(Write) /\ WF_vars(Refresh) /\ SF_vars(Complete)
  /\ WF_vars(Scanning) /\ WF_vars(\E r \in Requests : Serve(r))

----------------------------------------------------------------------------
(* Properties.                                                              *)

Windows == DOMAIN starts
Segments == [frames : [file.tracks -> Seq(Nat)], next : [file.tracks -> Nat \union {-1}],
             open : Nat \union {-1}, end : Nat \union {-1}]

TypeOK ==
  /\ file \in Files /\ written \in 0..Len(file.blocks) /\ trailer \in BOOLEAN
  /\ scan.pc \in {"idle", "scan", "close"} /\ scan.size \in 0..Whole /\ scan.at \in 0..Len(file.blocks)
  /\ plan.cursor \in 0..Whole /\ plan.gridWin \in 0..Len(plan.cuts) /\ plan.met \subseteq file.tracks
  /\ plan.published \in 0..Len(plan.cuts)
  /\ starts \in [Windows -> Nat \union {-1}] /\ ended \in [file.tracks -> Nat \union {-1}]
  /\ \A r \in Requests :
       /\ req[r].pc \in {"idle", "walk", "open", "end", "answered"}
       /\ req[r].pc \in {"open", "end", "answered"} => req[r].seg \in Segments
  /\ asks \in 0..MaxAsks /\ faults \in 0..MaxFaults

\* The cuts found while the file grows, over failed scans and their retries, are the first of those PlanHLS reads
\* from the finished file's index, and all of them once a plan that scanned the whole file closes.
BoundsArePlanned ==
  /\ TypeOK
  /\ IsPrefix(plan.cuts, Finished[file].cuts)
  /\ plan.done /\ plan.cursor = Len(file.ends) => plan.cuts = Finished[file].cuts

IsFinal(r) ==
  LET k == IF req[r].closed THEN Len(plan.cuts) ELSE Len(Finished[file].cuts)
  IN req[r].pc = "answered" => req[r].seg = Finished[file].full[k][req[r].n]

\* A published segment is final: whatever part of the file is written when it is asked for, whichever requests came
\* before it and whatever they learned, it holds the frames the full pass puts in it and opens and ends on the
\* grid where the full pass has it. Of a file whose tracks keep up with each other, none ending right on a cut.
PublishedIsFinal == Finished[file].even => \A r \in Requests : IsFinal(r)

\* The playlist only grows: a listed segment is served from then on, and nothing changes after ENDLIST.
ListOnlyGrows ==
  [][ /\ plan.list.served => plan'.list.n >= plan.list.n /\ plan'.list.served
      /\ plan.list.ended => plan' = plan
      /\ plan'.list.n <= plan'.published
      /\ opened => plan'.published >= plan.published ]_vars

\* The init's edit list is measured on the frames PlanHLS measures it on, and never again once the outputs are
\* served: unless a scan of the head failed part of the way through a cluster, or the plan closed unscanned.
InitAsPlanned ==
  /\ plan.list.served => plan.leadDone
  /\ plan.leadDone /\ ~refolded /\ (plan.done => plan.cursor = Len(file.ends)) => plan.lead = Finished[file].lead

\* A source that gets written whole ends in a closed plan, its playlist with ENDLIST when the head was ever read.
EventuallyClosed == <>[](plan.done /\ (plan.headDone => plan.list.ended))

=============================================================================
