---------------------------- MODULE BenchRunner -----------------------------
(***************************************************************************)
(* The benchmark side of one agent: /bench handlers that nobody cancels    *)
(* when their callers hang up, BenchRunner's one process slot, the client  *)
(* process with its workers, its working directory, the telemetry sampler  *)
(* beside it, and what a death of the agent leaves of all that.            *)
(*                                                                         *)
(* A step is what a handler does from one await to the next.               *)
(***************************************************************************)
EXTENDS Naturals

CONSTANTS
  Request,     \* calls of /bench
  Canceller,   \* calls of /bench/cancel
  NoClient,    \* BenchRunner._process is None
  MaxLives     \* bound on the lifetimes of the agent
ASSUME BenchAssumption ==
  /\ {NoClient, "new", "nobody"} \cap Request = {}
  /\ MaxLives \in Nat \ {0}

VARIABLES
  agentUp,     \* is the agent serving?
  lives,       \* its lifetimes so far
  step,        \* the await each request is at
  answer,      \* ... and how it is answered
  slot,        \* BenchRunner._process
  cancelled,   \* BenchRunner._cancelled
  client,      \* the client process of each request
  workers,     \* requests whose client's workers are running
  workdirs,    \* requests whose directory is on disk
  sampling,    \* requests whose sampler is running
  told,        \* what each cancel request was answered
  beside       \* history: requests let in beside another one's client

runner == <<slot, cancelled>>
disk == <<client, workers, workdirs>>
benchLife == <<agentUp, lives>>
history == <<told, beside>>
steps == <<step, answer>>
benchVars == <<benchLife, steps, runner, disk, sampling, history>>

Step == {"new", "resetting", "launching", "forked", "communicating",
         "killing", "leaving", "answered", "lost"}
Answer == {"none", "refused", "unlaunched", "measured", "cancelled", "failed", "timeout"}

BenchTypeOK ==
  /\ agentUp \in BOOLEAN /\ lives \in 1..MaxLives /\ (~agentUp => lives < MaxLives)
  /\ step \in [Request -> Step] /\ answer \in [Request -> Answer]
  /\ slot \in Request \cup {NoClient} /\ cancelled \in BOOLEAN
  /\ client \in [Request -> {"none", "running", "result", "bad", "killed"}]
  /\ workers \subseteq Request /\ workdirs \subseteq Request /\ sampling \subseteq Request
  /\ told \in [Canceller -> {"new", "nobody"} \cup Request] /\ beside \subseteq Request

BenchInit ==
  /\ agentUp = TRUE /\ lives = 1
  /\ step = [r \in Request |-> "new"] /\ answer = [r \in Request |-> "none"]
  /\ slot = NoClient /\ cancelled = FALSE
  /\ client = [r \in Request |-> "none"]
  /\ workers = {} /\ workdirs = {} /\ sampling = {}
  /\ told = [c \in Canceller |-> "new"] /\ beside = {}

At(r, label) == agentUp /\ step[r] = label
MoveTo(r, label) == step' = [step EXCEPT ![r] = label]
GoTo(r, label) == MoveTo(r, label) /\ UNCHANGED answer
Reply(r, label, a) == MoveTo(r, label) /\ answer' = [answer EXCEPT ![r] = a]
(* The handler stops its sampler, which it awaits, and then answers.         *)
Leave(r, a) == Reply(r, "leaving", a)
SetClient(r, s) == client' = [client EXCEPT ![r] = s]

-----------------------------------------------------------------------------
(* /bench up to the cache reset: the state of the server, the room on disk. *)
Accept(r) ==
  /\ At(r, "new")
  /\ \/ Reply(r, "answered", "refused")
     \/ GoTo(r, "resetting")
  /\ UNCHANGED <<runner, disk, sampling, history, benchLife>>

ResetFails(r) ==
  /\ At(r, "resetting")
  /\ Reply(r, "answered", "refused")
  /\ UNCHANGED <<runner, disk, sampling, history, benchLife>>

LetIn == {q \in Request : step[q] \in {"launching", "forked", "communicating", "killing"}}
(* The reset is done: the sampler starts, and BenchRunner.run checks for a   *)
(* client before it launches one.  Without an executable to name, the        *)
(* directory that was made is left behind.                                   *)
Enter(r) ==
  /\ At(r, "resetting")
  /\ sampling' = sampling \cup {r}
  /\ \/ /\ slot # NoClient
        /\ Leave(r, "failed")
        /\ UNCHANGED <<cancelled, workdirs, beside>>
     \/ /\ slot = NoClient
        /\ cancelled' = FALSE
        /\ workdirs' = workdirs \cup {r}
        /\ \/ /\ GoTo(r, "launching")
              /\ beside' = beside \cup (IF LetIn = {} THEN {} ELSE LetIn \cup {r})
           \/ Leave(r, "unlaunched") /\ UNCHANGED beside
  /\ UNCHANGED <<slot, client, workers, told, benchLife>>

ForkClient(r) ==
  /\ At(r, "launching")
  /\ SetClient(r, "running")
  /\ GoTo(r, "forked")
  /\ UNCHANGED <<runner, workers, workdirs, sampling, history, benchLife>>

(* run() clears the slot on its way out, whoever is in it. *)
CannotFork(r) ==
  /\ At(r, "launching")
  /\ slot' = NoClient
  /\ workdirs' = workdirs \ {r}
  /\ Leave(r, "failed")
  /\ UNCHANGED <<cancelled, client, workers, sampling, history, benchLife>>

RegisterClient(r) ==
  /\ At(r, "forked")
  /\ slot' = r
  /\ GoTo(r, "communicating")
  /\ UNCHANGED <<cancelled, disk, sampling, history, benchLife>>

-----------------------------------------------------------------------------
(* communicate() returns once the client has exited and its pipes are        *)
(* closed, which its workers hold as well.                                   *)
(* Mutant of Verdict: the exit code is looked at first. *)
VerdictByExit(r) == IF client[r] = "result" THEN "measured"
                    ELSE IF cancelled THEN "cancelled" ELSE "failed"
Verdict(r) == IF cancelled THEN "cancelled"
              ELSE IF client[r] = "result" THEN "measured" ELSE "failed"
Finish(r) ==
  /\ At(r, "communicating")
  /\ client[r] # "running"
  /\ r \notin workers
  /\ slot' = NoClient
  /\ workdirs' = workdirs \ {r}
  /\ Leave(r, Verdict(r))
  /\ UNCHANGED <<cancelled, client, workers, sampling, history, benchLife>>

(* The timeout kills the leader of the group ... *)
TimeOut(r) ==
  /\ At(r, "communicating")
  /\ SetClient(r, IF client[r] = "running" THEN "killed" ELSE client[r])
  /\ GoTo(r, "killing")
  /\ UNCHANGED <<runner, workers, workdirs, sampling, history, benchLife>>

(* Mutant of Reaped: communicate() again, for its pipes. *)
ReapedWithPipes(r) ==
  /\ At(r, "killing")
  /\ r \notin workers
  /\ slot' = NoClient
  /\ workdirs' = workdirs \ {r}
  /\ Leave(r, "timeout")
  /\ UNCHANGED <<cancelled, client, workers, sampling, history, benchLife>>
(* ... and waits for it alone. *)
Reaped(r) ==
  /\ At(r, "killing")
  /\ slot' = NoClient
  /\ workdirs' = workdirs \ {r}
  /\ Leave(r, "timeout")
  /\ UNCHANGED <<cancelled, client, workers, sampling, history, benchLife>>

(* Mutant of StopSampling: a benchmark that failed leaves without it. *)
StopOnSuccess(r) ==
  /\ At(r, "leaving")
  /\ sampling' = IF answer[r] = "measured" THEN sampling \ {r} ELSE sampling
  /\ GoTo(r, "answered")
  /\ UNCHANGED <<runner, disk, history, benchLife>>
StopSampling(r) ==
  /\ At(r, "leaving")
  /\ sampling' = sampling \ {r}
  /\ GoTo(r, "answered")
  /\ UNCHANGED <<runner, disk, history, benchLife>>

(* /bench/cancel sends SIGTERM to the group of the client in the slot, which *)
(* may be one that has exited already.                                       *)
Cancel(c) ==
  /\ agentUp
  /\ told[c] = "new"
  /\ IF slot = NoClient
     THEN /\ told' = [told EXCEPT ![c] = "nobody"]
          /\ UNCHANGED cancelled
     ELSE /\ told' = [told EXCEPT ![c] = slot]
          /\ cancelled' = TRUE
  /\ UNCHANGED <<steps, slot, disk, sampling, beside, benchLife>>

-----------------------------------------------------------------------------
(* The client: it spawns workers, and exits with a result or without.  Its   *)
(* workers end when they are done or signalled.                              *)
SpawnWorkers(r) ==
  /\ client[r] = "running"
  /\ r \notin workers
  /\ workers' = workers \cup {r}
  /\ UNCHANGED <<steps, runner, client, workdirs, sampling, history, benchLife>>

ClientExits(r) ==
  /\ client[r] = "running"
  /\ \E s \in {"result", "bad"} : SetClient(r, s)
  /\ UNCHANGED <<steps, runner, workers, workdirs, sampling, history, benchLife>>

WorkersExit(r) ==
  /\ r \in workers
  /\ workers' = workers \ {r}
  /\ UNCHANGED <<steps, runner, client, workdirs, sampling, history, benchLife>>

-----------------------------------------------------------------------------
(* A death takes the handlers and samplers along and leaves clients, workers *)
(* and directories, also those whose answer was never given.                 *)
AgentDies ==
  /\ agentUp
  /\ lives < MaxLives
  /\ agentUp' = FALSE
  /\ step' = [r \in Request |-> IF step[r] \in {"new", "answered"} THEN step[r] ELSE "lost"]
  /\ slot' = NoClient /\ cancelled' = FALSE
  /\ sampling' = {}
  /\ UNCHANGED <<answer, disk, history, lives>>

(* sweep_stale_workdirs removes what is older than an hour. *)
SweepStale == \E old \in SUBSET workdirs : workdirs' = workdirs \ old

AgentRestarts ==
  /\ ~agentUp
  /\ agentUp' = TRUE
  /\ lives' = lives + 1
  /\ SweepStale
  /\ UNCHANGED <<steps, runner, client, workers, sampling, history>>
-----------------------------------------------------------------------------
HandleBench(r) ==
  \/ ResetFails(r) \/ Enter(r) \/ ForkClient(r) \/ CannotFork(r) \/ RegisterClient(r)
  \/ Finish(r) \/ TimeOut(r) \/ Reaped(r) \/ StopSampling(r)

BenchNext ==
  \/ \E r \in Request :
       Accept(r) \/ HandleBench(r) \/ SpawnWorkers(r) \/ ClientExits(r) \/ WorkersExit(r)
  \/ \E c \in Canceller : Cancel(c)
  \/ AgentDies
  \/ AgentRestarts

(* A handler that can go on does, at its timeout at the latest. *)
BenchSpec ==
  /\ BenchInit /\ [][BenchNext]_benchVars
  /\ \A r \in Request : WF_benchVars(HandleBench(r))

-----------------------------------------------------------------------------
(* Whoever was told that a benchmark was signalled never sees it reported as *)
(* a measurement, however its exit races the signal; unless another client   *)
(* was let in beside it, whose end frees the slot and lets a third reset the *)
(* flag of both (BenchRunner.run, cancel).                                   *)
CancelledIsNotMeasured ==
  \A r \in Request \ beside : answer[r] = "measured" => \A c \in Canceller : told[c] # r

(* An answered request has left nothing on the host that would disturb the   *)
(* next measurement: no client, no sampler, no directory; the workers are    *)
(* gone too unless the client was killed at its timeout, and the directory   *)
(* stays only if no executable was found.                                    *)
AnswerLeavesNothing ==
  \A r \in Request : step[r] = "answered" =>
    /\ client[r] # "running"
    /\ r \notin sampling
    /\ r \in workers => answer[r] = "timeout"
    /\ r \in workdirs => answer[r] = "unlaunched"

(* What makes both inductive.  First what a request holds at each await ...  *)
HoldsByStep ==
  /\ ~agentUp => slot = NoClient /\ \A r \in Request : step[r] \in {"new", "answered", "lost"}
  /\ \A r \in Request :
       /\ step[r] \in {"new", "resetting", "launching"} => client[r] = "none"
       /\ client[r] = "none" => r \notin workers
       /\ step[r] \in {"new", "resetting"} => r \notin workdirs \cup sampling
       /\ step[r] \in {"killing", "leaving", "answered"} => client[r] # "running"
       /\ step[r] \in {"leaving", "answered"} =>
            /\ r \in workers => answer[r] = "timeout"
            /\ r \in workdirs => answer[r] = "unlaunched"
       /\ step[r] = "answered" => r \notin sampling
       /\ answer[r] = "measured" => step[r] \in {"leaving", "answered", "lost"}

(* ... then who is in the slot, who was let in beside whom, and why the flag *)
(* is still up when a signalled client's verdict is formed.                  *)
InSlot == {r \in Request : step[r] \in {"communicating", "killing"}}
SlotInv ==
  /\ slot # NoClient => slot \in InSlot
  /\ \A q, r \in LetIn : q # r => r \in beside
  /\ InSlot \ beside \subseteq {slot}
FlagInv ==
  \A r \in Request, c \in Canceller : told[c] = r =>
    /\ step[r] \in {"communicating", "killing", "leaving", "answered", "lost"}
    /\ step[r] = "communicating" /\ r \notin beside => cancelled

BenchInv == HoldsByStep /\ SlotInv /\ FlagInv /\ CancelledIsNotMeasured

(* Every accepted benchmark is answered or dies with its agent. *)
EveryBenchAnswers ==
  \A r \in Request : step[r] # "new" ~> step[r] \in {"answered", "lost"}

(* "Kill the group: the benchmark client spawns workers, and leaving them    *)
(* running would keep loading the server we are about to declare idle"       *)
(* (bench.py:227).                                                           *)
TimeoutKillsTheGroup ==
  \A r \in Request : answer[r] = "timeout" => r \notin workers
=============================================================================
