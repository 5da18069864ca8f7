---------------------------- MODULE RunTelemetry ----------------------------
(***************************************************************************)
(* The sample rows of finished runs: the orchestrator inserts them with the *)
(* run's last commit, retention passes of two processes delete them and     *)
(* leave a mark, and readers thin them in the database.  Every statement    *)
(* reads what is committed when it starts.                                  *)
(*                                                                         *)
(* A series is the number of its samples, a sample its number in the        *)
(* series.                                                                  *)
(***************************************************************************)
EXTENDS Integers, FiniteSets, FiniteSetsExt, Functions

CONSTANTS
  StoredRun, Pass, Reader,
  Series,      \* engine_sample, and gpu_sample of each device
  EngineSeries,
  Recording,   \* what a run may have recorded: lengths of its series
  Budget
ASSUME RunTelemetryAssumption ==
  /\ IsFiniteSet(StoredRun) /\ IsFiniteSet(Pass) /\ IsFiniteSet(Series)
  /\ EngineSeries \in Series
  /\ Recording \subseteq [Series -> Nat]
  /\ Budget \subseteq Nat \ {0}

VARIABLES
  phase,       \* of each run: "running", "ended", or "old" when past every horizon
  samples,     \* rows of each run and series
  recorded,    \* ... as the run's last commit inserted them
  marked,      \* run_telemetry_pruned
  pass,        \* retention passes: the statement each is at, and what it knows
  reader       \* get_run_telemetry requests, likewise

telemetryVars == <<phase, samples, recorded, marked, pass, reader>>

Nothing == [s \in Series |-> 0]
Total(f) == SumFunction(f)
Gpus == Series \ {EngineSeries}
Of(f, R) == SumFunction([r \in R |-> Total(f[r])])

TelemetryInit ==
  /\ phase = [r \in StoredRun |-> "running"]
  /\ samples = [r \in StoredRun |-> Nothing] /\ recorded = samples
  /\ marked = {}
  /\ pass \in [Pass -> [at : {"candidates"}, runs : {{}}, count : {0}, dry : BOOLEAN]]
  /\ reader \in [Reader -> [at : {"counts"}, run : StoredRun, budget : Budget,
                            counts : {Nothing}, shown : {[s \in Series |-> {}]},
                            mark : {FALSE}]]

(* execute_run: status, summary and samples in one commit.  A run that does  *)
(* not succeed, or whose sampler recorded nothing, has none.                 *)
Finish(r) ==
  /\ phase[r] = "running"
  /\ phase' = [phase EXCEPT ![r] = "ended"]
  /\ \E n \in Recording :
       /\ samples' = [samples EXCEPT ![r] = n]
       /\ recorded' = [recorded EXCEPT ![r] = n]
  /\ UNCHANGED <<marked, pass, reader>>

GrowOld(r) ==
  /\ phase[r] = "ended"
  /\ phase' = [phase EXCEPT ![r] = "old"]
  /\ UNCHANGED <<samples, recorded, marked, pass, reader>>
-----------------------------------------------------------------------------
(* prune_telemetry: terminal runs past the horizon without a mark.           *)
(* Mutant of Candidates: aged by queued_at. *)
CandidatesByAgeInQueue(runs) == runs \ marked
Candidates(runs) == {r \in runs : phase[r] = "old"} \ marked

SelectCandidates(p) ==
  LET found == Candidates(StoredRun) IN
  /\ pass[p].at = "candidates"
  /\ pass' = [pass EXCEPT ![p].at = IF found = {} THEN "done" ELSE "count",
                          ![p].runs = found]
  /\ UNCHANGED <<phase, samples, recorded, marked, reader>>

CountSamples(p) ==
  /\ pass[p].at = "count"
  /\ pass' = [pass EXCEPT ![p].at = IF pass[p].dry THEN "done" ELSE "delete",
                          ![p].count = Of(samples, pass[p].runs)]
  /\ UNCHANGED <<phase, samples, recorded, marked, reader>>

(* The deletes and the marks, in one commit, which a mark that another pass  *)
(* has left meanwhile takes back.                                            *)
Deleted(p) ==
  /\ samples' = [r \in StoredRun |-> IF r \in pass[p].runs THEN Nothing ELSE samples[r]]
  /\ marked' = marked \cup pass[p].runs
(* Mutant of DeleteAndMark: a mark that is there already is left as it is. *)
DeleteAndMarkAgain(p) ==
  /\ pass[p].at = "delete"
  /\ Deleted(p)
  /\ pass' = [pass EXCEPT ![p].at = "done"]
  /\ UNCHANGED <<phase, recorded, reader>>
DeleteAndMark(p) ==
  /\ pass[p].at = "delete"
  /\ \/ /\ pass[p].runs \cap marked = {}
        /\ Deleted(p)
        /\ pass' = [pass EXCEPT ![p].at = "done"]
     \/ /\ pass[p].runs \cap marked # {}
        /\ pass' = [pass EXCEPT ![p].at = "failed"]
        /\ UNCHANGED <<samples, marked>>
  /\ UNCHANGED <<phase, recorded, reader>>
-----------------------------------------------------------------------------
(* get_run_telemetry: the two counts, the two series, and the mark, each a   *)
(* statement of its own.  Which samples survive is decided from the counts,  *)
(* and the place of a sample in its series from the rows that are there by   *)
(* then.                                                                     *)
CeilDiv(a, b) == (a + b - 1) \div b
Stride(total, budget) == IF total <= budget THEN 1 ELSE CeilDiv(total, budget)

Thinned(stride, n) == {i \in 1..n : (i - 1) % stride = 0 \/ i = n}
Sampled(counts) == {s \in Gpus : counts[s] > 0}
DeviceBudget(counts, budget) ==
  IF Sampled(counts) = {} THEN budget
  ELSE Max({1, budget \div Cardinality(Sampled(counts))})
StrideOf(q, s) ==
  IF s = EngineSeries THEN Stride(q.counts[s], q.budget)
  ELSE Stride(Max({q.counts[g] : g \in Gpus}), DeviceBudget(q.counts, q.budget))

Ask(q, at) == reader[q].at = at
Counting(q, some) ==
  [s \in Series |-> IF s \in some THEN samples[reader[q].run][s] ELSE reader[q].counts[s]]
CountEngine(q) ==
  /\ Ask(q, "counts")
  /\ reader' = [reader EXCEPT ![q].at = "devices", ![q].counts = Counting(q, {EngineSeries})]
  /\ UNCHANGED <<phase, samples, recorded, marked, pass>>

CountDevices(q) ==
  /\ Ask(q, "devices")
  /\ reader' = [reader EXCEPT ![q].at = "engine", ![q].counts = Counting(q, Gpus)]
  /\ UNCHANGED <<phase, samples, recorded, marked, pass>>

Showing(q, some) ==
  [s \in Series |-> IF s \in some THEN Thinned(StrideOf(reader[q], s), samples[reader[q].run][s])
                    ELSE reader[q].shown[s]]
ReadEngine(q) ==
  /\ Ask(q, "engine")
  /\ reader' = [reader EXCEPT ![q].at = "gpu", ![q].shown = Showing(q, {EngineSeries})]
  /\ UNCHANGED <<phase, samples, recorded, marked, pass>>

ReadGpu(q) ==
  /\ Ask(q, "gpu")
  /\ reader' = [reader EXCEPT ![q].at = "mark", ![q].shown = Showing(q, Gpus)]
  /\ UNCHANGED <<phase, samples, recorded, marked, pass>>

(* Mutant of ReadMark: only looked up when nothing was counted. *)
ReadMarkIfEmpty(q) ==
  /\ Ask(q, "mark")
  /\ reader' = [reader EXCEPT ![q].at = "answered",
                              ![q].mark = reader[q].run \in marked /\ reader[q].counts = Nothing]
  /\ UNCHANGED <<phase, samples, recorded, marked, pass>>
ReadMark(q) ==
  /\ Ask(q, "mark")
  /\ reader' = [reader EXCEPT ![q].at = "answered", ![q].mark = reader[q].run \in marked]
  /\ UNCHANGED <<phase, samples, recorded, marked, pass>>

TelemetryNext ==
  \/ \E r \in StoredRun : Finish(r) \/ GrowOld(r)
  \/ \E p \in Pass : SelectCandidates(p) \/ CountSamples(p) \/ DeleteAndMark(p)
  \/ \E q \in Reader : \/ CountEngine(q) \/ CountDevices(q)
                        \/ ReadEngine(q) \/ ReadGpu(q) \/ ReadMark(q)
TelemetrySpec == TelemetryInit /\ [][TelemetryNext]_telemetryVars
-----------------------------------------------------------------------------
(* A marked run has lost every sample for good, and an unmarked one none.    *)
MarkMeansGone ==
  \A r \in StoredRun : samples[r] = IF r \in marked THEN Nothing ELSE recorded[r]

(* What a pass reports it deleted, and no other pass reports those again.    *)
Applied == {p \in Pass : pass[p].at = "done" /\ ~pass[p].dry}
ReclaimedOnce ==
  SumFunction([p \in Applied |-> pass[p].count]) = Of(recorded, marked) - Of(samples, marked)

(* An answered reader that was not given the first and the last sample of a  *)
(* series was told that the run was pruned, or asked before the run ended    *)
(* (get_run_telemetry; "an empty series needs its explanation attached").    *)
EmptyIsExplained ==
  \A q \in Reader : LET a == reader[q] IN
    a.at = "answered" /\ ~a.mark =>
      \A s \in Series : a.counts[s] > 0 => {1, a.counts[s]} \subseteq a.shown[s]
-----------------------------------------------------------------------------
(* What the three rest on, of every reachable state.                         *)
Pruning == [at : {"candidates", "count", "delete", "done", "failed"},
            runs : SUBSET StoredRun, count : Nat, dry : BOOLEAN]
Reading == [at : {"counts", "devices", "engine", "gpu", "mark", "answered"}, run : StoredRun,
            budget : Budget, counts : [Series -> Nat], shown : [Series -> SUBSET Nat],
            mark : BOOLEAN]
TelemetryTypeOK ==
  /\ phase \in [StoredRun -> {"running", "ended", "old"}]
  /\ samples \in [StoredRun -> [Series -> Nat]] /\ recorded \in [StoredRun -> [Series -> Nat]]
  /\ marked \subseteq StoredRun
  /\ pass \in [Pass -> Pruning] /\ reader \in [Reader -> Reading]

(* Samples arrive with the end of a run, and only an old one loses them.     *)
RowsByPhase ==
  \A r \in StoredRun : /\ phase[r] = "running" => recorded[r] = Nothing
                       /\ r \in marked => phase[r] = "old"

(* What a pass counted is what it still finds, if nobody was faster.         *)
PassKnows ==
  \A p \in Pass : LET a == pass[p] IN
    /\ a.at = "candidates" => a.count = 0
    /\ \A r \in a.runs : phase[r] = "old"
    /\ a.at = "delete" => ~a.dry /\ (a.runs \cap marked = {} => a.count = Of(recorded, a.runs))

(* A reader of a run that is not pruned yet has counted what was recorded, or *)
(* nothing of it yet, and has both ends of each series it counted and read.  *)
BothEnds(a, s) == a.counts[s] > 0 => {1, a.counts[s]} \subseteq a.shown[s]
ReaderKnows ==
  \A q \in Reader : LET a == reader[q] IN
    a.at # "answered" /\ a.run \notin marked =>
      /\ \A s \in Series : a.counts[s] \in {0, recorded[a.run][s]}
      /\ a.at \in {"gpu", "mark"} => BothEnds(a, EngineSeries)
      /\ a.at = "mark" => \A s \in Gpus : BothEnds(a, s)

TelemetryInv ==
  RowsByPhase /\ MarkMeansGone /\ PassKnows /\ ReclaimedOnce /\ ReaderKnows /\ EmptyIsExplained
=============================================================================
