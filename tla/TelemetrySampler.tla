-------------------------- MODULE TelemetrySampler --------------------------
(***************************************************************************)
(* The telemetry of one benchmark: a tick per interval scrapes the engine  *)
(* and reads every device, the series are thinned when the engine's grows  *)
(* past its cap, and intervals that were overrun are skipped.              *)
(*                                                                         *)
(* Time is counted in fractions of the interval from the sampler's start.  *)
(* A sample is the tick that produced it, with its device for a GPU; what  *)
(* was measured is left out.  A series is the set of its samples: they are *)
(* appended, and read back, in the order of their ticks.                   *)
(***************************************************************************)
EXTENDS Naturals, Sequences, FiniteSets

CONSTANTS
  Device,      \* device_indices
  Cap,         \* MAX_ENGINE_SAMPLES
  Interval,    \* _interval
  Duration,    \* how long a tick may take
  Muted,       \* which sources may be silent in one tick
  MaxTicks     \* bound on the ticks of a benchmark
ASSUME SamplerAssumption ==
  /\ Cap \in Nat \ {0} /\ Interval \in Nat \ {0}
  /\ Duration \subseteq Nat /\ MaxTicks \in Nat

VARIABLES
  tickIndex,   \* _tick_index
  engineTicks, \* _engine
  gpuTicks,    \* _gpu
  stride,      \* _keep_stride; _effective_interval is Interval * stride
  nextTick,    \* next_tick of _run
  now,         \* when the last tick ended
  begun,       \* when it began, + 1
  heard        \* what answered each tick

samplerVars == <<tickIndex, engineTicks, gpuTicks, stride, nextTick, now, begun, heard>>

Source == {"engine"} \cup Device

SamplerTypeOK ==
  /\ tickIndex \in 0..MaxTicks
  /\ engineTicks \subseteq 0..MaxTicks
  /\ gpuTicks \subseteq (0..MaxTicks) \X Device
  /\ stride \in Nat \ {0}
  /\ nextTick \in Nat /\ now \in Nat /\ begun \in Nat
  /\ heard \in Seq(SUBSET Source)

SamplerInit ==
  /\ tickIndex = 0 /\ engineTicks = {} /\ gpuTicks = {} /\ stride = 1
  /\ nextTick = 0 /\ now = 0 /\ begun = 0
  /\ heard = <<>>

-----------------------------------------------------------------------------
Later(a, b) == IF a > b THEN a ELSE b
(* Mutant of Advance: it lands on the interval that is under way. *)
AdvanceToNow(next, t) ==
  IF next + Interval > t THEN next + Interval
  ELSE next + Interval + ((t - next - Interval) \div Interval) * Interval
(* By whole intervals from the origin, past all that were missed. *)
Advance(next, t) ==
  IF next + Interval > t THEN next + Interval
  ELSE next + Interval + ((t - next - Interval) \div Interval + 1) * Interval

(* _sample_gpus, of the devices that answer. *)
SampleGpus(tick, answering) == {tick} \X (Device \cap answering)

(* Mutant of Decimate: the engine's series by position in the list. *)
DecimateByPosition(engine, gpu) ==
  /\ stride' = stride * 2
  /\ engineTicks' = {t \in engine : Cardinality({u \in engine : u < t}) % 2 = 0}
  /\ gpuTicks' = {s \in gpu : s[1] % stride' = 0}
(* Whole ticks that fall on the doubled stride stay. *)
Decimate(engine, gpu) ==
  /\ stride' = stride * 2
  /\ engineTicks' = {t \in engine : t % stride' = 0}
  /\ gpuTicks' = {s \in gpu : s[1] % stride' = 0}

(* _tick, and _run up to the next one.  An engine that does not answer, and  *)
(* a device that refuses, record nothing.                                    *)
Tick(answering, late, duration) ==
  LET engine == engineTicks \cup (IF "engine" \in answering THEN {tickIndex} ELSE {})
      gpu == gpuTicks \cup SampleGpus(tickIndex, answering)
      start == Later(nextTick, now) + late
  IN /\ tickIndex < MaxTicks
     /\ tickIndex' = tickIndex + 1
     /\ IF Cardinality(engine) > Cap THEN Decimate(engine, gpu)
        ELSE engineTicks' = engine /\ gpuTicks' = gpu /\ UNCHANGED stride
     /\ begun' = start + 1
     /\ now' = start + duration
     /\ nextTick' = Advance(nextTick, now')
     /\ heard' = Append(heard, answering)

SamplerNext ==
  \E silent \in Muted, late \in 0..(Interval - 1), duration \in Duration :
    Tick(Source \ silent, late, duration)

SamplerSpec == SamplerInit /\ [][SamplerNext]_samplerVars

-----------------------------------------------------------------------------
HeardAt(tick) == heard[tick + 1]
Ticks == 0..(Len(heard) - 1)
(* Is what source s said at this tick still in the series? *)
Kept(s, tick) ==
  IF s = "engine" THEN tick \in engineTicks ELSE <<tick, s>> \in gpuTicks

(* Thinning drops whole ticks, none of which falls on the reported interval: *)
(* of the sources that answered a tick none is kept without the others, so   *)
(* that no device disappears from the topology, and a gap on the grid means  *)
(* that nobody answered.                                                     *)
ThinnedByTick ==
  \A tick \in Ticks : \A s \in HeardAt(tick) :
    /\ \A d \in HeardAt(tick) : Kept(s, tick) <=> Kept(d, tick)
    /\ tick % stride = 0 => Kept(s, tick)

(* Falling behind is not made up for: no two ticks begin in one interval,    *)
(* and the schedule stays on the grid of the first.                          *)
NoBurst ==
  [][/\ (begun > 0 => (begun' - 1) \div Interval > (begun - 1) \div Interval)
     /\ nextTick' % Interval = 0]_samplerVars

(* Inductive: what was heard is numbered by tick, and the next tick is due on *)
(* the grid, after the last one began.                                       *)
SamplerInv ==
  /\ Len(heard) = tickIndex
  /\ ThinnedByTick
  /\ nextTick % Interval = 0
  /\ begun > 0 => nextTick >= begun

(* "the reported interval always describes the spacing of the samples        *)
(* actually returned" (telemetry.py:82).                                     *)
IntervalIsSpacing ==
  \A t, u \in engineTicks : t < u => u - t >= stride
=============================================================================
