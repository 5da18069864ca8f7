----------------------------- MODULE AgentProofs -----------------------------
(***************************************************************************)
(* What the agent's sampler and benchmark runner guarantee: the sampler for *)
(* every cap, interval, set of devices and course of a benchmark, the       *)
(* runner for any number of benchmarks, cancels and lifetimes of the agent. *)
(***************************************************************************)
EXTENDS AgentParts, EngineOnHand, ServerProofs, NumberTheorems

(* The schedule advances by whole intervals, past the end of the tick.       *)
LEMMA IntervalPositive == Interval \in Nat \ {0} /\ Duration \subseteq Nat
BY SamplerAssumption

LEMMA AdvancePastNow ==
  ASSUME NEW next \in Nat, NEW t \in Nat, next % Interval = 0
  PROVE  Advance(next, t) \in Nat /\ Advance(next, t) % Interval = 0 /\ Advance(next, t) > t
<1>1. PICK q \in Nat : next = Interval * q
  BY IntervalPositive, AsMultiple
<1>2. CASE next + Interval > t
  <2>1. next + Interval = Interval * (q + 1) /\ q + 1 \in Nat
    BY <1>1, IntervalPositive, SMT
  <2>2. Advance(next, t) = Interval * (q + 1)
    BY <1>2, <2>1 DEF Advance
  <2>3. Advance(next, t) > t
    BY <1>2 DEF Advance
  <2> QED
    BY <2>1, <2>2, <2>3, IntervalPositive, Multiple
<1>3. CASE ~(next + Interval > t)
  <2> DEFINE gap == t - next - Interval
             missed == gap \div Interval
  <2>1. gap \in Nat /\ t = next + Interval + gap
    BY <1>3, IntervalPositive, SMT
  <2>2. Advance(next, t) = (next + Interval) + ((missed + 1) * Interval)
    BY <1>3 DEF Advance
  <2> HIDE DEF gap
  <2>3. missed \in Nat /\ gap < Interval * (missed + 1)
    BY <2>1, IntervalPositive, PassedBy
  <2> HIDE DEF missed
  <2>4. Advance(next, t) = Interval * (q + missed + 2) /\ q + missed + 2 \in Nat
    BY <1>1, <2>2, <2>3, IntervalPositive, SMT
  <2>5. Advance(next, t) > t
    BY <1>1, <2>1, <2>2, <2>3, IntervalPositive, SMT
  <2> QED
    BY <2>4, <2>5, IntervalPositive, Multiple
<1> QED
  BY <1>2, <1>3

-----------------------------------------------------------------------------
LEMMA SamplerInit1 == SamplerInit => SamplerTypeOK /\ SamplerInv
<1> SUFFICES ASSUME SamplerInit PROVE SamplerTypeOK /\ SamplerInv
  OBVIOUS
<1>1. SamplerTypeOK
  BY SamplerAssumption DEF SamplerInit, SamplerTypeOK
<1>2. Len(heard) = 0 /\ Ticks = {}
  BY DEF SamplerInit, Ticks
<1>3. nextTick % Interval = 0
  BY IntervalPositive DEF SamplerInit
<1> QED
  BY <1>1, <1>2, <1>3 DEF SamplerInit, SamplerInv, ThinnedByTick

LEMMA SamplerTypesKept ==
  ASSUME SamplerTypeOK, SamplerInv, NEW answering \in SUBSET Source,
         NEW late \in 0..(Interval - 1), NEW duration \in Nat,
         Tick(answering, late, duration)
  PROVE  SamplerTypeOK'
<1>1. now' \in Nat /\ begun' \in Nat
  BY DEF Tick, Later, SamplerTypeOK
<1>2. nextTick' \in Nat
  BY <1>1, AdvancePastNow DEF Tick, SamplerTypeOK, SamplerInv
<1>3. tickIndex' \in 0..MaxTicks /\ tickIndex \in 0..MaxTicks
  BY SamplerAssumption DEF Tick, SamplerTypeOK
<1>4. /\ stride' \in Nat \ {0}
      /\ engineTicks' \subseteq engineTicks \cup {tickIndex}
      /\ gpuTicks' \subseteq gpuTicks \cup SampleGpus(tickIndex, answering)
  BY DEF Tick, Decimate, SamplerTypeOK
<1>5. SampleGpus(tickIndex, answering) \subseteq (0..MaxTicks) \X Device
  BY <1>3 DEF SampleGpus
<1>6. heard' \in Seq(SUBSET Source)
  BY DEF Tick, SamplerTypeOK
<1> QED
  BY <1>1, <1>2, <1>3, <1>4, <1>5, <1>6 DEF SamplerTypeOK

(* The next tick begins in a later interval, and is due on the grid.         *)
LEMMA TickAdvances ==
  ASSUME SamplerTypeOK, SamplerInv, NEW answering \in SUBSET Source,
         NEW late \in 0..(Interval - 1), NEW duration \in Nat,
         Tick(answering, late, duration)
  PROVE  /\ nextTick' % Interval = 0 /\ nextTick' >= begun'
         /\ begun > 0 => (begun' - 1) \div Interval > (begun - 1) \div Interval
<1> DEFINE start == Later(nextTick, now) + late
<1>1. /\ start \in Nat /\ start >= nextTick
      /\ now' = start + duration /\ begun' = start + 1 /\ nextTick' = Advance(nextTick, now')
  BY DEF Tick, Later, SamplerTypeOK
<1>2. nextTick' \in Nat /\ nextTick' % Interval = 0 /\ nextTick' > now'
  <2>1. now' \in Nat /\ nextTick \in Nat /\ nextTick % Interval = 0
    BY <1>1 DEF SamplerTypeOK, SamplerInv
  <2> QED
    BY <1>1, <2>1, AdvancePastNow
<1>3. ASSUME begun > 0
      PROVE  (begun' - 1) \div Interval > (begun - 1) \div Interval
  <2>1. begun - 1 \in Nat /\ begun - 1 < nextTick /\ begun' - 1 = start
    BY <1>1, <1>3 DEF SamplerTypeOK, SamplerInv
  <2> QED
    BY <1>1, <2>1, IntervalPositive, LaterInterval DEF SamplerTypeOK, SamplerInv
<1> QED
  BY <1>1, <1>2, <1>3, SMT

(* Of the sources that answered a tick, all are kept or none.                *)
LEMMA ThinningKept ==
  ASSUME SamplerTypeOK, SamplerInv, NEW answering \in SUBSET Source,
         NEW late \in 0..(Interval - 1), NEW duration \in Nat,
         Tick(answering, late, duration)
  PROVE  ThinnedByTick'
<1>1. /\ Len(heard') = Len(heard) + 1 /\ Len(heard) = tickIndex /\ tickIndex \in Nat
      /\ heard'[tickIndex + 1] = answering
      /\ \A i \in 1..tickIndex : heard'[i] = heard[i]
  BY DEF Tick, SamplerTypeOK, SamplerInv
<1>2. Ticks' = Ticks \cup {tickIndex} /\ tickIndex \notin Ticks /\ Ticks \subseteq Nat
  BY <1>1 DEF Ticks
<1> DEFINE Answered(s, t) == Kept(s, t) \/ (t = tickIndex /\ s \in answering)
<1>3. \A s \in Source, t \in Nat :
        Kept(s, t)' <=> Answered(s, t) /\ (stride' # stride => t % stride' = 0)
  BY DEF Tick, Decimate, SampleGpus, Kept, Source, SamplerTypeOK
<1>4. stride \in Nat \ {0} /\ stride' \in {stride, stride * 2}
  BY DEF Tick, Decimate, SamplerTypeOK
<1>5. \A t \in Nat : t % stride' = 0 => t % stride = 0
  BY <1>4, MultipleTwice
<1>6. ASSUME NEW t \in Ticks', NEW s \in HeardAt(t)'
      PROVE  /\ s \in Source /\ t \in Nat
             /\ \A d \in HeardAt(t)' : d \in Source /\ (Answered(s, t) <=> Answered(d, t))
             /\ t % stride = 0 => Answered(s, t)
  <2>1. CASE t = tickIndex
    BY <1>1, <1>6, <2>1 DEF HeardAt
  <2>2. CASE t \in Ticks
    <3>1. t \in Nat /\ t # tickIndex /\ t + 1 \in 1..tickIndex
      BY <1>1, <2>2 DEF Ticks
    <3>2. HeardAt(t)' = HeardAt(t) /\ HeardAt(t) \subseteq Source
      BY <1>1, <3>1 DEF HeardAt, SamplerTypeOK
    <3> QED
      BY <1>6, <2>2, <3>1, <3>2 DEF SamplerInv, ThinnedByTick
  <2> QED
    BY <1>2, <2>1, <2>2
<1> HIDE DEF Answered
<1>7. ASSUME NEW t \in Ticks', NEW s \in HeardAt(t)'
      PROVE  /\ \A d \in HeardAt(t)' : (Kept(s, t)' <=> Kept(d, t)')
             /\ t % stride' = 0 => Kept(s, t)'
  <2>1. \A d \in HeardAt(t)' :
          /\ d \in Source /\ t \in Nat
          /\ Kept(d, t)' <=> Answered(d, t) /\ (stride' # stride => t % stride' = 0)
          /\ Answered(s, t) <=> Answered(d, t)
    BY <1>3, <1>6, <1>7
  <2>2. t % stride' = 0 => Answered(s, t)
    BY <1>5, <1>6, <1>7, <2>1
  <2> QED
    BY <1>7, <2>1, <2>2, Zenon
<1> QED
  BY <1>7 DEF ThinnedByTick
-----------------------------------------------------------------------------
LEMMA SamplerStep ==
  ASSUME SamplerTypeOK, SamplerInv, [SamplerNext]_samplerVars
  PROVE  /\ SamplerTypeOK' /\ SamplerInv'
         /\ UNCHANGED samplerVars \/
              /\ begun > 0 => (begun' - 1) \div Interval > (begun - 1) \div Interval
              /\ nextTick' % Interval = 0
<1>1. ASSUME NEW silent \in Muted, NEW late \in 0..(Interval - 1), NEW duration \in Duration,
             Tick(Source \ silent, late, duration)
      PROVE  /\ SamplerTypeOK' /\ SamplerInv'
             /\ begun > 0 => (begun' - 1) \div Interval > (begun - 1) \div Interval
             /\ nextTick' % Interval = 0
  <2>1. Source \ silent \in SUBSET Source /\ duration \in Nat
    BY IntervalPositive
  <2>2. Len(heard') = tickIndex'
    BY <1>1 DEF Tick, SamplerTypeOK, SamplerInv
  <2>3. SamplerTypeOK' /\ ThinnedByTick'
    BY <1>1, <2>1, SamplerTypesKept, ThinningKept
  <2>4. /\ nextTick' % Interval = 0 /\ nextTick' >= begun'
        /\ begun > 0 => (begun' - 1) \div Interval > (begun - 1) \div Interval
    BY <1>1, <2>1, TickAdvances
  <2> QED
    BY <2>2, <2>3, <2>4 DEF SamplerInv
<1>2. CASE UNCHANGED samplerVars
  BY <1>2 DEF samplerVars, SamplerTypeOK, SamplerInv, ThinnedByTick, Ticks, HeardAt, Kept
<1> QED
  BY <1>1, <1>2 DEF SamplerNext

(* Ticks, series and schedule keep their types, and the series and what was  *)
(* heard are numbered alike.                                                 *)
THEOREM SamplerInvariant == SamplerSpec => [](SamplerTypeOK /\ SamplerInv)
<1>1. (SamplerTypeOK /\ SamplerInv) /\ [SamplerNext]_samplerVars => (SamplerTypeOK /\ SamplerInv)'
  BY SamplerStep
<1> QED
  BY <1>1, SamplerInit1, PTL DEF SamplerSpec

(* Thinning drops whole ticks and none on the reported interval, for every   *)
(* cap and every pattern of outages (TelemetrySampler._decimate).            *)
THEOREM ThinsWholeTicks == SamplerSpec => []ThinnedByTick
BY SamplerInvariant, PTL DEF SamplerInv

(* No two ticks begin in one interval, and the schedule stays on its grid,   *)
(* however long ticks take: the next tick is due after the last one ended    *)
(* (TelemetrySampler._run).                                                  *)
THEOREM NeverBursts == SamplerSpec => NoBurst
<1>1. SamplerTypeOK /\ SamplerInv /\ [SamplerNext]_samplerVars =>
        [/\ begun > 0 => (begun' - 1) \div Interval > (begun - 1) \div Interval
         /\ nextTick' % Interval = 0]_samplerVars
  BY SamplerStep
<1> QED
  BY <1>1, SamplerInvariant, PTL DEF SamplerSpec, NoBurst
-----------------------------------------------------------------------------
USE BenchAssumption

(* The steps that concern one request, or one cancel, or the agent. *)
LEMMA BenchInitTypes == BenchInit => BenchTypeOK
<1> SUFFICES ASSUME BenchInit PROVE BenchTypeOK
  OBVIOUS
<1>1. agentUp \in BOOLEAN /\ cancelled \in BOOLEAN
  BY Zenon DEF BenchInit
<1>2. lives \in 1..MaxLives /\ agentUp
  BY SMT DEF BenchInit
<1> QED
  BY <1>1, <1>2 DEF BenchInit, BenchTypeOK, Step, Answer

LEMMA BenchTypesKept == BenchTypeOK /\ [BenchNext]_benchVars => BenchTypeOK'
<1> SUFFICES ASSUME BenchTypeOK, [BenchNext]_benchVars
             PROVE  BenchTypeOK'
  OBVIOUS
<1> USE DEF BenchTypeOK, Step, Answer, benchLife, steps, runner, disk, history,
            At, MoveTo, GoTo, Reply, Leave, SetClient
<1>1. ASSUME NEW r \in Request, Accept(r) \/ ResetFails(r)
      PROVE  BenchTypeOK'
  BY <1>1 DEF Accept, ResetFails
<1>2. ASSUME NEW r \in Request, Enter(r)
      PROVE  BenchTypeOK'
  <2>1. cancelled' \in BOOLEAN
    BY <1>2, Zenon DEF Enter
  <2> QED
    BY <1>2, <2>1 DEF Enter, LetIn
<1>3. ASSUME NEW r \in Request, ForkClient(r) \/ CannotFork(r) \/ RegisterClient(r)
      PROVE  BenchTypeOK'
  BY <1>3 DEF ForkClient, CannotFork, RegisterClient
<1>4. ASSUME NEW r \in Request, Finish(r) \/ TimeOut(r) \/ Reaped(r) \/ StopSampling(r)
      PROVE  BenchTypeOK'
  BY <1>4 DEF Finish, Verdict, TimeOut, Reaped, StopSampling
<1>5. ASSUME NEW r \in Request, SpawnWorkers(r) \/ ClientExits(r) \/ WorkersExit(r)
      PROVE  BenchTypeOK'
  BY <1>5 DEF SpawnWorkers, ClientExits, WorkersExit
<1>6. ASSUME NEW c \in Canceller, Cancel(c)
      PROVE  BenchTypeOK'
  <2>1. cancelled' \in BOOLEAN
    BY <1>6, Zenon DEF Cancel
  <2> QED
    BY <1>6, <2>1 DEF Cancel
<1>7. CASE AgentDies
  <2>1. agentUp' \in BOOLEAN /\ cancelled' \in BOOLEAN
    BY <1>7, Zenon DEF AgentDies
  <2> QED
    BY <1>7, <2>1 DEF AgentDies
<1>8. CASE AgentRestarts
  <2>1. agentUp' \in BOOLEAN /\ agentUp'
    BY <1>8, Zenon DEF AgentRestarts
  <2> QED
    BY <1>8, <2>1 DEF AgentRestarts, SweepStale
<1>9. CASE UNCHANGED benchVars
  BY <1>9 DEF benchVars
<1> QED
  BY <1>1, <1>2, <1>3, <1>4, <1>5, <1>6, <1>7, <1>8, <1>9 DEF BenchNext, HandleBench

(* Every request is at one of its awaits, with an answer of /bench; the slot *)
(* names a request or nobody.                                                *)
THEOREM BenchTypes == BenchSpec => []BenchTypeOK
BY BenchInitTypes, BenchTypesKept, PTL DEF BenchSpec

(* No step leaves a request with more than its await may hold. *)
LEMMA HoldingsKept ==
  ASSUME BenchTypeOK, HoldsByStep, [BenchNext]_benchVars
  PROVE  HoldsByStep'
<1> USE DEF BenchTypeOK, HoldsByStep, Step, Answer,
            benchLife, steps, runner, disk, history, At, MoveTo, GoTo, Reply, Leave, SetClient
<1>1. ASSUME NEW r \in Request, Accept(r) \/ ResetFails(r)
      PROVE  HoldsByStep'
  BY <1>1 DEF Accept, ResetFails
<1>2. ASSUME NEW r \in Request, Enter(r)
      PROVE  HoldsByStep'
  BY <1>2 DEF Enter
<1>3. ASSUME NEW r \in Request, ForkClient(r) \/ RegisterClient(r)
      PROVE  HoldsByStep'
  BY <1>3 DEF ForkClient, RegisterClient
<1>4. ASSUME NEW r \in Request, CannotFork(r)
      PROVE  HoldsByStep'
  BY <1>4 DEF CannotFork
<1>5. ASSUME NEW r \in Request, Finish(r)
      PROVE  HoldsByStep'
  BY <1>5 DEF Finish, Verdict
<1>6. ASSUME NEW r \in Request, TimeOut(r) \/ Reaped(r)
      PROVE  HoldsByStep'
  BY <1>6 DEF TimeOut, Reaped
<1>7. ASSUME NEW r \in Request, StopSampling(r)
      PROVE  HoldsByStep'
  BY <1>7 DEF StopSampling
<1>8. ASSUME NEW r \in Request, SpawnWorkers(r) \/ ClientExits(r) \/ WorkersExit(r)
      PROVE  HoldsByStep'
  BY <1>8 DEF SpawnWorkers, ClientExits, WorkersExit
<1>9. ASSUME NEW c \in Canceller, Cancel(c)
      PROVE  HoldsByStep'
  BY <1>9 DEF Cancel
<1>10. CASE AgentDies
  BY <1>10 DEF AgentDies
<1>11. CASE AgentRestarts
  BY <1>11 DEF AgentRestarts, SweepStale
<1>12. CASE UNCHANGED benchVars
  BY <1>12 DEF benchVars
<1> QED
  BY <1>1, <1>2, <1>3, <1>4, <1>5, <1>6, <1>7, <1>8, <1>9, <1>10, <1>11, <1>12
  DEF BenchNext, HandleBench

(* The slot names the only client there is, unless two were let in. *)
LEMMA SlotKept ==
  ASSUME BenchTypeOK, HoldsByStep, SlotInv, [BenchNext]_benchVars
  PROVE  SlotInv'
<1> USE DEF BenchTypeOK, HoldsByStep, SlotInv, InSlot, LetIn, Step,
            benchLife, steps, runner, disk, history, At, MoveTo, GoTo, Reply, Leave, SetClient
<1>1. ASSUME NEW r \in Request, Accept(r) \/ ResetFails(r)
      PROVE  SlotInv'
  BY <1>1 DEF Accept, ResetFails
<1>2. ASSUME NEW r \in Request, Enter(r)
      PROVE  SlotInv'
  BY <1>2 DEF Enter
<1>3. ASSUME NEW r \in Request, ForkClient(r) \/ RegisterClient(r)
      PROVE  SlotInv'
  BY <1>3 DEF ForkClient, RegisterClient
<1>4. ASSUME NEW r \in Request, CannotFork(r)
      PROVE  SlotInv'
  BY <1>4 DEF CannotFork
<1>5. ASSUME NEW r \in Request, Finish(r)
      PROVE  SlotInv'
  BY <1>5 DEF Finish, Verdict
<1>6. ASSUME NEW r \in Request, TimeOut(r) \/ Reaped(r)
      PROVE  SlotInv'
  BY <1>6 DEF TimeOut, Reaped
<1>7. ASSUME NEW r \in Request, StopSampling(r)
      PROVE  SlotInv'
  BY <1>7 DEF StopSampling
<1>8. ASSUME NEW r \in Request, SpawnWorkers(r) \/ ClientExits(r) \/ WorkersExit(r)
      PROVE  SlotInv'
  BY <1>8 DEF SpawnWorkers, ClientExits, WorkersExit
<1>9. ASSUME NEW c \in Canceller, Cancel(c)
      PROVE  SlotInv'
  BY <1>9 DEF Cancel
<1>10. CASE AgentDies
  BY <1>10 DEF AgentDies
<1>11. CASE AgentRestarts
  BY <1>11 DEF AgentRestarts, SweepStale
<1>12. CASE UNCHANGED benchVars
  BY <1>12 DEF benchVars
<1> QED
  BY <1>1, <1>2, <1>3, <1>4, <1>5, <1>6, <1>7, <1>8, <1>9, <1>10, <1>11, <1>12
  DEF BenchNext, HandleBench

(* The flag a cancel raises stays up until the verdict on its client. *)
LEMMA FlagKept ==
  ASSUME BenchTypeOK, HoldsByStep, SlotInv, FlagInv, [BenchNext]_benchVars
  PROVE  FlagInv'
<1> USE DEF BenchTypeOK, HoldsByStep, SlotInv, InSlot, LetIn, FlagInv, Step,
            benchLife, steps, runner, disk, history, At, MoveTo, GoTo, Reply, Leave, SetClient
<1>1. ASSUME NEW r \in Request, Accept(r) \/ ResetFails(r)
      PROVE  FlagInv'
  BY <1>1 DEF Accept, ResetFails
<1>2. ASSUME NEW r \in Request, Enter(r)
      PROVE  FlagInv'
  BY <1>2 DEF Enter
<1>3. ASSUME NEW r \in Request, ForkClient(r) \/ RegisterClient(r)
      PROVE  FlagInv'
  BY <1>3 DEF ForkClient, RegisterClient
<1>4. ASSUME NEW r \in Request, CannotFork(r)
      PROVE  FlagInv'
  BY <1>4 DEF CannotFork
<1>5. ASSUME NEW r \in Request, Finish(r)
      PROVE  FlagInv'
  BY <1>5 DEF Finish, Verdict
<1>6. ASSUME NEW r \in Request, TimeOut(r) \/ Reaped(r)
      PROVE  FlagInv'
  BY <1>6 DEF TimeOut, Reaped
<1>7. ASSUME NEW r \in Request, StopSampling(r)
      PROVE  FlagInv'
  BY <1>7 DEF StopSampling
<1>8. ASSUME NEW r \in Request, SpawnWorkers(r) \/ ClientExits(r) \/ WorkersExit(r)
      PROVE  FlagInv'
  BY <1>8 DEF SpawnWorkers, ClientExits, WorkersExit
<1>9. ASSUME NEW c \in Canceller, Cancel(c)
      PROVE  FlagInv'
  BY <1>9 DEF Cancel
<1>10. CASE AgentDies
  BY <1>10 DEF AgentDies
<1>11. CASE AgentRestarts
  BY <1>11 DEF AgentRestarts, SweepStale
<1>12. CASE UNCHANGED benchVars
  BY <1>12 DEF benchVars
<1> QED
  BY <1>1, <1>2, <1>3, <1>4, <1>5, <1>6, <1>7, <1>8, <1>9, <1>10, <1>11, <1>12
  DEF BenchNext, HandleBench

(* A verdict of success was formed with the flag down.                      *)
LEMMA VerdictsKept ==
  ASSUME BenchTypeOK, HoldsByStep, SlotInv, FlagInv, CancelledIsNotMeasured, [BenchNext]_benchVars
  PROVE  CancelledIsNotMeasured'
<1> USE DEF BenchTypeOK, HoldsByStep, SlotInv, InSlot, FlagInv, CancelledIsNotMeasured, Step, Answer,
            benchLife, steps, runner, disk, history, At, MoveTo, GoTo, Reply, Leave, SetClient
<1>1. ASSUME NEW r \in Request, Accept(r) \/ ResetFails(r)
      PROVE  CancelledIsNotMeasured'
  BY <1>1 DEF Accept, ResetFails
<1>2. ASSUME NEW r \in Request, Enter(r)
      PROVE  CancelledIsNotMeasured'
  BY <1>2 DEF Enter
<1>3. ASSUME NEW r \in Request, ForkClient(r) \/ RegisterClient(r)
      PROVE  CancelledIsNotMeasured'
  BY <1>3 DEF ForkClient, RegisterClient
<1>4. ASSUME NEW r \in Request, CannotFork(r)
      PROVE  CancelledIsNotMeasured'
  BY <1>4 DEF CannotFork
<1>5. ASSUME NEW r \in Request, Finish(r)
      PROVE  CancelledIsNotMeasured'
  <2>1. answer'[r] = "measured" => ~cancelled
    BY <1>5 DEF Finish, Verdict
  <2> QED
    BY <1>5, <2>1 DEF Finish
<1>6. ASSUME NEW r \in Request, TimeOut(r) \/ Reaped(r)
      PROVE  CancelledIsNotMeasured'
  BY <1>6 DEF TimeOut, Reaped
<1>7. ASSUME NEW r \in Request, StopSampling(r)
      PROVE  CancelledIsNotMeasured'
  BY <1>7 DEF StopSampling
<1>8. ASSUME NEW r \in Request, SpawnWorkers(r) \/ ClientExits(r) \/ WorkersExit(r)
      PROVE  CancelledIsNotMeasured'
  BY <1>8 DEF SpawnWorkers, ClientExits, WorkersExit
<1>9. ASSUME NEW c \in Canceller, Cancel(c)
      PROVE  CancelledIsNotMeasured'
  BY <1>9 DEF Cancel
<1>10. CASE AgentDies
  BY <1>10 DEF AgentDies
<1>11. CASE AgentRestarts
  BY <1>11 DEF AgentRestarts, SweepStale
<1>12. CASE UNCHANGED benchVars
  BY <1>12 DEF benchVars
<1> QED
  BY <1>1, <1>2, <1>3, <1>4, <1>5, <1>6, <1>7, <1>8, <1>9, <1>10, <1>11, <1>12
  DEF BenchNext, HandleBench

LEMMA BenchInvInit == BenchInit => BenchInv
BY DEF BenchInit, BenchInv, HoldsByStep, SlotInv, InSlot, LetIn, FlagInv, CancelledIsNotMeasured

(* Each await holds what it may, and slot and flag follow the clients.       *)
THEOREM BenchInvariant == BenchSpec => []BenchInv
<1>1. BenchTypeOK /\ BenchInv /\ [BenchNext]_benchVars => BenchInv'
  BY HoldingsKept, SlotKept, FlagKept, VerdictsKept DEF BenchInv
<1> QED
  BY <1>1, BenchInvInit, BenchTypes, PTL DEF BenchSpec

(* Whoever was told that a benchmark was signalled never sees it reported    *)
(* as a measurement, unless another client was let in beside it: in          *)
(* "communicating" a told request is alone in the slot, so no Enter of       *)
(* another one has taken the flag down (BenchRunner.run, cancel).            *)
THEOREM CancelWins == BenchSpec => []CancelledIsNotMeasured
BY BenchInvariant, PTL DEF BenchInv

(* An answered request left no client, no sampler and no directory on the    *)
(* host, workers only after a timeout, a directory only if no executable     *)
(* was found (BenchRunner.run's finally, bench_run).                         *)
THEOREM AnswerCleansUp == BenchSpec => []AnswerLeavesNothing
<1>1. BenchInv => AnswerLeavesNothing
  BY DEF BenchInv, HoldsByStep, AnswerLeavesNothing
<1> QED
  BY <1>1, BenchInvariant, PTL
-----------------------------------------------------------------------------
(* A step of the agent is a step of every part, or leaves it alone.          *)
LEMMA EachPartSteps ==
  [AgentNext]_agentVars =>
    [Next]_vars /\ [BenchNext]_benchVars /\ [SamplerNext]_samplerVars
BY Zenon DEF AgentNext, agentVars

LEMMA PartsKept ==
  ASSUME MaxStarts <= 2, PartsInvariant, [AgentNext]_agentVars
  PROVE  PartsInvariant'
<1>1. [Next]_vars /\ [BenchNext]_benchVars /\ [SamplerNext]_samplerVars
  BY EachPartSteps
<1>2. /\ ServerTypeOK /\ ServerInv /\ OneEngine
      /\ BenchTypeOK /\ BenchInv
      /\ SamplerTypeOK /\ SamplerInv
  BY DEF PartsInvariant
<1>3. ServerTypeOK' /\ ServerInv'
  BY <1>1, <1>2, ServerTypesKept, LockKept, CallsKept, FieldsKept, WatchKept, FewKept DEF ServerInv
<1>4. OneEngine'
  BY <1>1, <1>2, OneEngineKept
<1>5. BenchTypeOK'
  BY <1>1, <1>2, BenchTypesKept
<1>6. BenchInv'
  BY <1>1, <1>2, HoldingsKept, SlotKept, FlagKept, VerdictsKept DEF BenchInv
<1>7. SamplerTypeOK' /\ SamplerInv'
  BY <1>1, <1>2, SamplerStep
<1> QED
  BY <1>3, <1>4, <1>5, <1>6, <1>7 DEF PartsInvariant

(* The engine, the benchmark client and the sampler of one agent all keep    *)
(* their types and their inductive invariants: for any number of starts,     *)
(* stops, benchmarks, cancels, ticks and deaths, as long as no more than two *)
(* starts are under way at a time (vllm_server.py, bench.py, telemetry.py).  *)
THEOREM PartsHold ==
  ASSUME MaxStarts <= 2
  PROVE  AgentSpec => []PartsInvariant
<1>1. AgentInit => PartsInvariant
  BY ServerInvInit, OneEngineInit, BenchInitTypes, BenchInvInit, SamplerInit1
  DEF AgentInit, PartsInvariant
<1>2. PartsInvariant /\ [AgentNext]_agentVars => PartsInvariant'
  BY PartsKept
<1> QED
  BY <1>1, <1>2, PTL DEF AgentSpec
-----------------------------------------------------------------------------
(* The supervisor against HostAgent's engine.  What a step makes of the      *)
(* engine that is on hand, and of the handler that takes it ...              *)
LEMMA StartsEngine ==
  ASSUME ServerTypeOK, NEW c \in Starter, Goto(c, "spawning"), UNCHANGED <<up, deaths>>,
         HeldEngine.state = "stopped", HeldEngine' = Agent!Loading(c)
  PROVE  EngineStep
<1>1. [d \in Starter |-> LoadOf(pc'[d])] = [d \in Starter |-> IF d = c THEN "polling" ELSE LoadOf(pc[d])]
  BY DEF Goto, LoadOf, ServerTypeOK
<1>2. Agent!StartEngine(c)
  BY <1>1 DEF Agent!StartEngine, Agent!SetEngine, Agent!SetLoad
<1> QED
  BY <1>2 DEF EngineStep

LEMMA EndsLoad ==
  ASSUME ServerTypeOK, up, NEW c \in Starter, NEW label, Goto(c, label), UNCHANGED <<up, deaths>>,
         \/ /\ LoadOf(pc[c]) = "polling" /\ LoadOf(label) \in {"undoing", "none"}
            /\ HeldEngine' \in {HeldEngine, Agent!NoEngine}
         \/ /\ LoadOf(pc[c]) = "undoing" /\ LoadOf(label) \in {"undoing", "none"}
            /\ HeldEngine' = Agent!NoEngine
         \/ /\ LoadOf(pc[c]) = "polling" /\ LoadOf(label) = "ready"
            /\ \/ HeldEngine.state = "stopped" /\ HeldEngine' = HeldEngine
               \/ HeldEngine.state # "stopped" /\ HeldEngine' = Agent!Ready(HeldEngine.config)
  PROVE  EngineStep
<1>1. [d \in Starter |-> LoadOf(pc'[d])] = [d \in Starter |-> IF d = c THEN LoadOf(label) ELSE LoadOf(pc[d])]
  BY DEF Goto, ServerTypeOK
<1> HIDE DEF LoadOf
<1>2. Agent!FindReady(c) \/ Agent!GiveUp(c) \/ Agent!Undo(c)
  BY <1>1 DEF Agent!FindReady, Agent!GiveUp, Agent!Undo, Agent!SetEngine, Agent!SetLoad
<1>3. Agent!EndLoad(c)
  BY <1>2 DEF Agent!EndLoad
<1> QED
  BY <1>3 DEF EngineStep

LEMMA StopsEngine ==
  ASSUME ServerTypeOK, NEW s \in Stopper, pc[s] # "killing", Goto(s, "killing"),
         UNCHANGED <<up, deaths>>, HeldEngine' = Agent!NoEngine
  PROVE  EngineStep
<1>1. s \notin Starter /\ pc'[s] = "killing"
  BY CallAssumption DEF Goto, ServerTypeOK
<1>2. \A d \in Starter : pc'[d] = pc[d]
  BY <1>1 DEF Goto, ServerTypeOK
<1>3. [d \in Starter |-> LoadOf(pc'[d])] = [d \in Starter |-> LoadOf(pc[d])]
  BY <1>2
<1>4. Agent!StopServer(Here)
  BY <1>3 DEF Agent!StopServer, Agent!SetEngine
<1>5. StopBegins
  BY <1>1 DEF StopBegins
<1> QED
  BY <1>4, <1>5 DEF EngineStep

(* ... or not.                                                               *)
LEMMA KeepsEngine ==
  ASSUME ServerTypeOK, NEW h \in Calls, NEW label, Goto(h, label), UNCHANGED <<up, deaths>>,
         h \in Starter => LoadOf(label) = LoadOf(pc[h]),
         HeldEngine' = HeldEngine
  PROVE  UNCHANGED heldVars
<1>1. \A d \in Starter : LoadOf(pc'[d]) = LoadOf(pc[d])
  <2> HIDE DEF LoadOf
  <2> QED
    BY DEF Goto, ServerTypeOK
<1>2. [d \in Starter |-> LoadOf(pc'[d])] = [d \in Starter |-> LoadOf(pc[d])]
  BY <1>1
<1> QED
  BY <1>2 DEF heldVars

(* What is on hand.  An engine that is not starting or ready is none; ...    *)
LEMMA NothingHeld ==
  state \notin {"starting", "ready"} \/ BeingStopped \/ ~OnHand => HeldEngine = Agent!NoEngine
BY DEF HeldEngine, Agent!NoEngine

(* ... a handler that neither launches nor kills leaves it as it is.         *)
LEMMA MovesBeside ==
  ASSUME ServerTypeOK, NEW h \in Calls, NEW label, Goto(h, label),
         pc[h] \in {"spawning", "forked"} <=> label \in {"spawning", "forked"},
         pc[h] \in {"killing", "killed"} <=> label \in {"killing", "killed"}
  PROVE  Launching' = Launching /\ (BeingStopped' <=> BeingStopped)
<1>1. Launching' = Launching
  BY DEF Launching, Goto, ServerTypeOK, Calls
<1>2. BeingStopped' <=> BeingStopped
  BY DEF BeingStopped, Goto, ServerTypeOK, Calls
<1> QED
  BY <1>1, <1>2

(* A call of stop() leaves what is on hand as it is, or nothing.             *)
LEMMA CallStopHolds ==
  ASSUME ServerTypeOK, ServerInv, NEW h \in Calls, pc[h] \in {"new", "polling", "asking"}, NEW s,
         CallStop(h, process, queue, s), UNCHANGED <<process, config>>
  PROVE  \/ Goto(h, Stopped(h)) /\ HeldEngine' = Agent!NoEngine /\ HeldEngine = Agent!NoEngine
         \/ Goto(h, "killing") /\ HeldEngine' = Agent!NoEngine
         \/ Goto(h, "undoing") /\ (s = state => HeldEngine' = HeldEngine)
            /\ (s = "failed" => HeldEngine' = Agent!NoEngine)
<1>1. CASE queue = <<>> /\ process = NoProc
  <2>1. Launching = {}
    BY <1>1 DEF ServerInv, LockDiscipline, Launching, Working
  <2>2. state' = "stopped" /\ Goto(h, Stopped(h))
    BY <1>1 DEF CallStop, BeginStop
  <2> QED
    BY <1>1, <2>1, <2>2, NothingHeld DEF OnHand, HeldEngine, Agent!NoEngine
<1>2. CASE queue = <<>> /\ process # NoProc
  BY <1>2 DEF CallStop, BeginStop, HeldEngine, Agent!NoEngine
<1>3. CASE queue # <<>>
  <2>1. Goto(h, "undoing") /\ state' = s
    BY <1>3 DEF CallStop
  <2>2. Launching' = Launching /\ (BeingStopped' <=> BeingStopped)
    BY <2>1, MovesBeside
  <2> QED
    BY <2>1, <2>2 DEF HeldEngine, OnHand, Agent!NoEngine
<1> QED
  BY <1>1, <1>2, <1>3

(* start() once the lock is the caller's.                                    *)
LEMMA BeginsLoad ==
  ASSUME ServerTypeOK, ServerInv, NEW h \in Starter, NEW q, BeginStart(h, q),
         pc[h] \in {"new", "waiting"}, UNCHANGED <<up, deaths>>, Launching = {}, ~BeingStopped
  PROVE  EngineStep \/ UNCHANGED heldVars
<1>0. h \in Calls /\ process' = process /\ process # h
  BY CallAssumption DEF ServerInv, LaunchesAreWatched, BeginStart, Calls
<1>1. CASE Goto(h, "refused") /\ UNCHANGED <<state, config>>
  <2>1. Launching' = Launching /\ (BeingStopped' <=> BeingStopped)
    BY <1>0, <1>1, MovesBeside
  <2>2. HeldEngine' = HeldEngine
    BY <1>0, <1>1, <2>1 DEF HeldEngine, OnHand
  <2> QED
    BY <1>0, <1>1, <2>2, KeepsEngine DEF LoadOf
<1>2. CASE Goto(h, "spawning") /\ state \notin {"starting", "ready"} /\ state' = "starting" /\ config' = h
  <2>1. Launching' # {}
    BY <1>2 DEF Launching, Goto, ServerTypeOK
  <2>2. ~BeingStopped'
    BY <1>2 DEF BeingStopped, Goto, ServerTypeOK
  <2>3. HeldEngine' = Agent!Loading(h)
    BY <1>2, <2>1, <2>2 DEF HeldEngine, OnHand, Agent!Loading
  <2>4. HeldEngine.state = "stopped"
    BY <1>2 DEF HeldEngine
  <2> QED
    BY <1>2, <2>3, <2>4, StartsEngine
<1>3. CASE Goto(h, "refused") /\ state \notin {"starting", "ready"} /\ config' = h
  <2>1. Launching' = Launching
    BY <1>0, <1>3, MovesBeside
  <2>2. ~OnHand'
    BY <1>0, <1>3, <2>1 DEF OnHand
  <2>3. HeldEngine = Agent!NoEngine /\ HeldEngine' = Agent!NoEngine
    BY <1>3, <2>2 DEF HeldEngine, Agent!NoEngine
  <2> QED
    BY <1>0, <1>3, <2>3, KeepsEngine DEF LoadOf
<1> QED
  BY <1>1, <1>2, <1>3 DEF BeginStart

(* The readiness a start finds is that of the engine on hand, or of one that *)
(* is being stopped: with two starts under way, none has failed a launch     *)
(* that another one asks after.                                              *)
LEMMA FindsReady ==
  ASSUME MaxStarts <= 2, ServerTypeOK, ServerInv, NEW h \in Starter, BecomeReady(h)
  PROVE  \/ HeldEngine.state = "stopped" /\ HeldEngine' = HeldEngine
         \/ HeldEngine.state # "stopped" /\ HeldEngine' = Agent!Ready(HeldEngine.config)
<1>0. h \in Calls /\ Goto(h, "capturing") /\ pc[h] = "asking" /\ UNCHANGED <<process, config>> /\ state' = "ready"
  BY DEF BecomeReady, Calls
<1>1. Launching' = Launching /\ (BeingStopped' <=> BeingStopped) /\ (OnHand' <=> OnHand)
  BY <1>0, MovesBeside DEF OnHand
<1>2. CASE BeingStopped \/ ~OnHand
  BY <1>1, <1>2 DEF HeldEngine
<1>3. CASE ~BeingStopped /\ OnHand
  <2>1. state \in {"starting", "ready"}
    <3> SUFFICES ASSUME state \notin {"starting", "ready"} PROVE FALSE
      OBVIOUS
    <3>1. PICK i \in Lines : Undoing(queue[i])
      BY <1>3 DEF OnHand, ServerInv, FieldsFollowLock, UndoerWaits
    <3>2. queue # <<>> /\ queue \in Seq(Calls) /\ queue[1] \in Calls /\ Holds(queue[1])
      BY <3>1, LeaveLine DEF Lines, ServerTypeOK, Calls, Holds
    <3>3. pc[queue[1]] \in Working
      BY <3>2, LeaveLine DEF BecomeReady, Awake, ServerInv, LockDiscipline, Lines, Calls
    <3>4. PICK k \in Starter : pc[k] \in {"spawning", "forked"}
      BY <1>3, <3>2, <3>3 DEF BeingStopped, Working, ServerInv, CallsByLife, Former, Calls
    <3>5. PICK g \in Starter : pc[g] = "undoing"
      BY <3>4 DEF ServerInv, LaunchesAreWatched, Launching
    <3>6. h \in UnderWay /\ k \in UnderWay /\ g \in UnderWay
      BY <1>0, <3>4, <3>5 DEF UnderWay, Ended
    <3>7. h = k \/ k = g \/ h = g
      BY <3>6, OfThree, FS_CardinalityType, MaxStartsAssumption DEF ServerInv, FewUnderWay
    <3> QED
      BY <1>0, <3>4, <3>5, <3>7
  <2>2. HeldEngine = [state |-> state, config |-> config] /\ HeldEngine' = [state |-> "ready", config |-> config]
    BY <1>0, <1>1, <1>3, <2>1 DEF HeldEngine
  <2> QED
    BY <2>1, <2>2 DEF Agent!Ready
<1> QED
  BY <1>2, <1>3

LEMMA EngineSteps ==
  ASSUME MaxStarts <= 2, ServerTypeOK, ServerInv, [Next]_vars
  PROVE  EngineStep \/ UNCHANGED heldVars
<1> USE DEF fields, host, life
<1>0. /\ LockDiscipline /\ FieldsFollowLock /\ CallsByLife
      /\ queue = <<>> => Launching = {} /\ ~BeingStopped
      /\ \A h \in Calls : pc[h] \notin Former \cup {"new"} => up
  <2>1. queue = <<>> => Launching = {} /\ ~BeingStopped
    BY DEF ServerInv, LockDiscipline, Launching, BeingStopped, Working
  <2> QED
    BY <2>1 DEF ServerInv, CallsByLife, Calls
<1>1. ASSUME NEW h \in Calls, pc[h] \in {"waiting", "undoing"}, Holds(h)
      PROVE  Launching = {} /\ ~BeingStopped
  <2>1. queue # <<>> /\ queue[1] = h
    BY <1>1, LeaveLine DEF Holds, ServerTypeOK
  <2> QED
    BY <1>0, <1>1, <2>1 DEF LockDiscipline, Launching, BeingStopped, Working, Calls
<1>2. ASSUME NEW h \in Stopper, Stop(h)
      PROVE  EngineStep \/ UNCHANGED heldVars
  <2>1. h \in Calls /\ h \notin Starter /\ pc[h] = "new" /\ UNCHANGED <<up, deaths>>
    BY <1>2, CallAssumption DEF Stop, Calls
  <2>2. \/ \E label \in {Stopped(h), "undoing"} : Goto(h, label) /\ HeldEngine' = HeldEngine
        \/ Goto(h, "killing") /\ HeldEngine' = Agent!NoEngine
    BY <1>2, <2>1, CallStopHolds DEF Stop
  <2> QED
    BY <2>1, <2>2, KeepsEngine, StopsEngine
<1>3. ASSUME NEW h \in Starter, GiveUp(h) \/ BadAnswer(h)
      PROVE  EngineStep
  <2>1. h \in Calls /\ pc[h] \in {"polling", "asking"} /\ UNCHANGED <<up, deaths>> /\ up
    BY <1>0, <1>3 DEF GiveUp, BadAnswer, Former, Calls
  <2>2. \E label \in {"failed", "killing", "undoing"} :
          Goto(h, label) /\ HeldEngine' \in {HeldEngine, Agent!NoEngine}
    BY <1>3, <2>1, CallStopHolds DEF GiveUp, BadAnswer, Stopped
  <2> QED
    BY <2>1, <2>2, EndsLoad DEF LoadOf
<1>4. ASSUME NEW h \in Calls, ResumeStop(h)
      PROVE  EngineStep \/ UNCHANGED heldVars
  <2>1. /\ pc[h] = "undoing" /\ Launching = {} /\ ~BeingStopped
        /\ UNCHANGED <<up, deaths, process>> /\ up
    BY <1>0, <1>1, <1>4 DEF ResumeStop, Former
  <2>2. /\ state' \in {"stopped", "stopping"} /\ HeldEngine' = Agent!NoEngine
        /\ \/ Goto(h, "killing")
           \/ Goto(h, Stopped(h)) /\ process = NoProc
    BY <1>4 DEF ResumeStop, BeginStop, HeldEngine, Agent!NoEngine
  <2>3. CASE h \in Starter
    <3>1. \E label \in {"killing", "failed"} : Goto(h, label)
      BY <2>2, <2>3 DEF Stopped
    <3> QED
      BY <2>1, <2>2, <2>3, <3>1, EndsLoad DEF LoadOf
  <2>4. CASE h \in Stopper /\ Goto(h, "killing")
    BY <2>1, <2>2, <2>4, StopsEngine
  <2>5. CASE h \notin Starter /\ Goto(h, Stopped(h)) /\ process = NoProc
    <3>1. HeldEngine = Agent!NoEngine
      BY <2>1, <2>5, NothingHeld DEF OnHand
    <3> QED
      BY <2>1, <2>2, <2>5, <3>1, KeepsEngine
  <2> QED
    BY <2>2, <2>3, <2>4, <2>5 DEF Calls
<1>5. ASSUME NEW h \in Calls, Kill(h)
      PROVE  UNCHANGED heldVars
  <2>1. pc[h] = "killing" /\ Goto(h, "killed") /\ UNCHANGED <<up, deaths>>
    BY <1>5 DEF Kill
  <2>2. BeingStopped /\ BeingStopped'
    BY <2>1 DEF BeingStopped, Goto, ServerTypeOK, Calls
  <2>3. HeldEngine' = HeldEngine
    BY <2>2 DEF HeldEngine
  <2> QED
    BY <2>1, <2>3, KeepsEngine DEF LoadOf
<1>6. ASSUME NEW h \in Calls, FinishStop(h)
      PROVE  EngineStep \/ UNCHANGED heldVars
  <2>1. pc[h] = "killed" /\ Goto(h, Stopped(h)) /\ UNCHANGED <<up, deaths>> /\ up
    BY <1>0, <1>6 DEF FinishStop, Former
  <2>2. HeldEngine = Agent!NoEngine /\ HeldEngine' = Agent!NoEngine
    BY <1>6, <2>1 DEF FinishStop, HeldEngine, BeingStopped, Agent!NoEngine, Calls
  <2>3. CASE h \in Starter
    BY <2>1, <2>2, <2>3, EndsLoad DEF LoadOf, Stopped
  <2>4. CASE h \notin Starter
    BY <2>1, <2>2, <2>4, KeepsEngine
  <2> QED
    BY <2>3, <2>4
<1>7. ASSUME NEW h \in Starter, Start(h)
      PROVE  EngineStep \/ UNCHANGED heldVars
  <2>1. CASE queue = <<>>
    BY <1>0, <1>7, <2>1, BeginsLoad DEF Start
  <2>2. CASE queue # <<>>
    <3>1. h \in Calls /\ pc[h] = "new" /\ Goto(h, "waiting") /\ UNCHANGED <<state, process, config, up, deaths>>
      BY <1>7, <2>2 DEF Start, Calls
    <3>2. HeldEngine' = HeldEngine
      BY <3>1, MovesBeside DEF HeldEngine, OnHand
    <3> QED
      BY <3>1, <3>2, KeepsEngine DEF LoadOf
  <2> QED
    BY <2>1, <2>2
<1>8. ASSUME NEW h \in Starter, ResumeStart(h)
      PROVE  EngineStep \/ UNCHANGED heldVars
  BY <1>1, <1>8, BeginsLoad DEF ResumeStart, Calls
<1>9. ASSUME NEW h \in Starter, Fork(h) \/ Look(h) \/ NoAnswer(h) \/ AnswerStarted(h)
      PROVE  UNCHANGED heldVars
  <2>1. /\ h \in Calls /\ UNCHANGED <<state, process, config, up, deaths>>
        /\ \E label \in Label :
             /\ Goto(h, label) /\ LoadOf(label) = LoadOf(pc[h])
             /\ pc[h] \in {"spawning", "forked"} <=> label \in {"spawning", "forked"}
             /\ pc[h] \notin {"killing", "killed"} /\ label \notin {"killing", "killed"}
    BY <1>9 DEF Fork, Look, NoAnswer, AnswerStarted, Label, Ended, LoadOf, Calls
  <2>2. HeldEngine' = HeldEngine
    BY <2>1, MovesBeside DEF HeldEngine, OnHand
  <2> QED
    BY <2>1, <2>2, KeepsEngine
<1>10. ASSUME NEW h \in Starter, CannotLaunch(h) \/ CannotRecord(h) \/ Register(h)
       PROVE  EngineStep \/ UNCHANGED heldVars
  <2>1. h \in Calls /\ pc[h] \in {"spawning", "forked"} /\ UNCHANGED <<config, up, deaths>> /\ up /\ config = h
    BY <1>0, <1>10 DEF CannotLaunch, CannotRecord, Register, Former, Calls, FieldsFollowLock, Launching
  <2>2. CASE CannotLaunch(h)
    <3>1. Goto(h, "refused") /\ HeldEngine' = Agent!NoEngine
      BY <2>2 DEF CannotLaunch, HeldEngine, Agent!NoEngine
    <3> QED
      BY <2>1, <3>1, EndsLoad DEF LoadOf
  <2>3. CASE CannotRecord(h) \/ (Register(h) /\ h \in alive)
    <3>1. /\ process' = h /\ UNCHANGED state
          /\ \E label \in {"refused", "asking"} : Goto(h, label)
      BY <2>3 DEF CannotRecord, Register
    <3>2. OnHand /\ OnHand'
      BY <2>1, <3>1, CallAssumption DEF OnHand, Launching
    <3>3. BeingStopped' <=> BeingStopped
      BY <2>1, <3>1 DEF BeingStopped, Goto, ServerTypeOK, Calls
    <3>4. HeldEngine' = HeldEngine
      BY <2>1, <3>1, <3>2, <3>3 DEF HeldEngine
    <3> QED
      BY <2>1, <3>1, <3>4, EndsLoad, KeepsEngine DEF LoadOf
  <2>4. CASE Register(h) /\ h \notin alive
    <3>1. /\ state' \notin {"starting", "ready"}
          /\ \E label \in {"killing", "undoing"} : Goto(h, label)
      BY <2>4, CallAssumption DEF Register, CallStop, BeginStop
    <3>2. HeldEngine' = Agent!NoEngine
      BY <3>1 DEF HeldEngine, Agent!NoEngine
    <3> QED
      BY <2>1, <3>1, <3>2, EndsLoad DEF LoadOf
  <2> QED
    BY <1>10, <2>2, <2>3, <2>4
<1>11. ASSUME NEW h \in Starter, BecomeReady(h)
       PROVE  EngineStep
  <2>1. h \in Calls /\ pc[h] = "asking" /\ Goto(h, "capturing") /\ UNCHANGED <<up, deaths>> /\ up
    BY <1>0, <1>11 DEF BecomeReady, Former, Calls
  <2> QED
    BY <1>11, <2>1, FindsReady, EndsLoad DEF LoadOf
<1>12. CASE (\E h \in Starter : Serve(h) \/ Exit(h)) \/ UNCHANGED vars
  <2>1. UNCHANGED <<state, process, config, pc, up, deaths>>
    BY <1>12 DEF Serve, Exit, vars
  <2> QED
    BY <2>1 DEF heldVars, HeldEngine, OnHand, BeingStopped, Launching
<1>13. CASE Restart
  <2>1. ~up /\ up' /\ UNCHANGED <<state, process, config, pc, deaths>>
    BY <1>13 DEF Restart
  <2>2. HeldEngine' = HeldEngine
    BY <2>1 DEF HeldEngine, OnHand, BeingStopped, Launching
  <2>3. Agent!RestartAgent(Here)
    BY <2>1, <2>2 DEF Agent!RestartAgent, Agent!SetBench, Agent!RunsOn, Agent!OnHost
  <2> QED
    BY <2>3 DEF EngineStep
<1>14. CASE Die
  <2>1. up /\ ~up' /\ deaths < MaxDeaths /\ deaths' = deaths + 1 /\ state' = "stopped"
    BY <1>14 DEF Die
  <2>2. \A d \in Starter : LoadOf(pc'[d]) = "none"
    BY <1>14 DEF Die, LoadOf
  <2>3. HeldEngine' = Agent!NoEngine
    BY <2>1 DEF HeldEngine, Agent!NoEngine
  <2>4. Agent!Die(Here)
    BY <2>1, <2>2, <2>3 DEF Agent!Die, Agent!MayFail, Agent!SetEngine, Agent!RunsOn
  <2> QED
    BY <2>4 DEF EngineStep
<1> HIDE DEF fields, host, life
<1> QED
  BY <1>2, <1>3, <1>4, <1>5, <1>6, <1>7, <1>8, <1>9, <1>10, <1>11, <1>12, <1>13, <1>14
  DEF Next, Handle, Calls

(* What the control plane takes an agent's engine to do is what the          *)
(* supervisor makes of it, as long as no more than two starts are under way: *)
(* every engine that is loaded, reported ready, or lost is so by a step      *)
(* that HostAgent has, for a start that is still going on, for a stop that   *)
(* was asked for, or for a death (VllmServer.start, stop, _await_readiness). *)
THEOREM SupervisorImplementsEngine ==
  ASSUME MaxStarts <= 2
  PROVE  Spec => HostEngineImplemented
<1>1. ServerInit => Agent!AgentInit
  <2> SUFFICES ASSUME ServerInit PROVE Agent!AgentInit
    OBVIOUS
  <2>1. HeldEngine = Agent!NoEngine
    BY DEF ServerInit, HeldEngine, Agent!NoEngine
  <2>2. \A c \in Starter : LoadOf(pc[c]) = "none"
    BY DEF ServerInit, LoadOf
  <2>3. up /\ deaths = 0
    BY DEF ServerInit
  <2> QED
    BY <2>1, <2>2, <2>3 DEF Agent!AgentInit
<1>2. (ServerTypeOK /\ ServerInv) /\ [Next]_vars => [EngineStep]_heldVars
  BY EngineSteps
<1> QED
  BY <1>1, <1>2, ServerInvariant, PTL DEF Spec, HostEngineImplemented

(* A caller that asks while nobody is in line is told of that engine: the    *)
(* status it reuses an engine on is the one its runs are measured on         *)
(* (VllmServer.status).                                                      *)
THEOREM HeldIsReported == Spec => []StatusTellsHeld
<1>1. ServerInv /\ StatusNamesEngine => StatusTellsHeld
  <2> SUFFICES ASSUME ServerInv, StatusNamesEngine, queue = <<>>, process # NoProc
               PROVE  /\ HeldEngine \in {Agent!Loading(process), Agent!Ready(process)}
                      /\ HeldEngine.state = state
    BY DEF StatusTellsHeld
  <2>1. OnHand /\ ~BeingStopped /\ config = process
    BY DEF OnHand, StatusNamesEngine, BeingStopped, ServerInv, LockDiscipline, Working
  <2>2. state \in {"starting", "ready"}
    BY DEF ServerInv, FieldsFollowLock, UndoerWaits, Lines
  <2>3. HeldEngine = [state |-> state, config |-> process]
    BY <2>1, <2>2 DEF HeldEngine
  <2> QED
    BY <2>2, <2>3 DEF Agent!Loading, Agent!Ready
<1> QED
  BY <1>1, ServerInvariant, StatusIsTrue, PTL
=============================================================================
