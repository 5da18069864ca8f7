------------------------------ MODULE SweepApi ------------------------------
(***************************************************************************)
(* The write requests of the API that touch the queue: creating a run,     *)
(* creating a sweep and cancelling one.  Requests are served concurrently, *)
(* each on a session of its own, so a request that reads and then commits  *)
(* is two steps with anything in between.                                  *)
(***************************************************************************)
EXTENDS RunStore

CONSTANT Cancellable   \* the sweeps somebody may ask to cancel
ASSUME CancellableAssumption == Cancellable \subseteq Sweep

VARIABLES
  creating,    \* sweeps whose create request has passed _refuse_if_busy
  cancelling,  \* sweeps with a cancel request between its SELECT and commit
  sawQueued    \* the runs that request read as queued

apiVars == <<creating, cancelling, sawQueued>>

ApiTypeOK ==
  /\ creating \subseteq Sweep
  /\ cancelling \subseteq Cancellable
  /\ sawQueued \in [Sweep -> SUBSET Run]

ApiInit ==
  /\ creating = {}
  /\ cancelling = {}
  /\ sawQueued = [s \in Sweep |-> {}]

-----------------------------------------------------------------------------
(* POST /runs.  A run of its own needs no free host. *)
CreateRun(r) ==
  /\ sweepOf[r] = NoSweep
  /\ status[r] = "absent"
  /\ SetStatus({r}, "queued")
  /\ UNCHANGED <<summary, sweep, apiVars>>

(* The hosts a sweep's runs are on: a sweep names one. *)
HostsOf(s) == {hostOf[r] : r \in RunsOf(s)}
BusyWith(s) == {t \in Sweep : sweep[t] \in Active /\ HostsOf(t) \cap HostsOf(s) # {}}

(* POST /sweeps, up to _refuse_if_busy: a host with an active sweep is a 409, *)
(* which changes nothing.                                                     *)
CheckHostFree(s) ==
  /\ sweep[s] = "absent"
  /\ s \notin creating
  /\ BusyWith(s) = {}
  /\ creating' = creating \cup {s}
  /\ UNCHANGED <<storeVars, cancelling, sawQueued>>

(* ... and the one commit that inserts the sweep and all of its runs. *)
MaterializeSweep(s) ==
  /\ s \in creating
  /\ creating' = creating \ {s}
  /\ sweep' = [sweep EXCEPT ![s] = "queued"]
  /\ SetStatus(RunsOf(s), "queued")
  /\ UNCHANGED <<summary, cancelling, sawQueued>>

(* Mutant of ToCancel: only the next run is cancelled. *)
NextToCancel(s) == FirstOf(RunsOf(s) \cap Queued)
ToCancel(s) == RunsOf(s) \cap Queued

(* POST /sweeps/{id}/cancel reads the sweep and its queued runs.  A sweep    *)
(* that is already terminal is returned as it is.                            *)
ReadQueuedToCancel(s) ==
  /\ s \in Cancellable \ cancelling
  /\ sweep[s] \in Active
  /\ cancelling' = cancelling \cup {s}
  /\ sawQueued' = [sawQueued EXCEPT ![s] = ToCancel(s)]
  /\ UNCHANGED <<storeVars, creating>>

EndCancel(s) ==
  /\ cancelling' = cancelling \ {s}
  /\ sawQueued' = [sawQueued EXCEPT ![s] = {}]
  /\ UNCHANGED creating

(* Its commit updates, by primary key, every run it read as queued, whatever *)
(* the row holds by now ...                                                  *)
CommitCancel(s) ==
  /\ s \in cancelling
  /\ \A r \in sawQueued[s] : Writable(r)
  /\ SetStatus(sawQueued[s], "cancelled")
  /\ sweep' = [sweep EXCEPT ![s] = "cancelled"]
  /\ EndCancel(s)
  /\ UNCHANGED summary

(* ... unless one of them became terminal meanwhile: the trigger raises, the *)
(* transaction is rolled back and the caller gets an error.                  *)
RejectCancel(s) ==
  /\ s \in cancelling
  /\ \E r \in sawQueued[s] : ~Writable(r)
  /\ EndCancel(s)
  /\ UNCHANGED storeVars

ApiStep ==
  \/ \E r \in Run : CreateRun(r)
  \/ \E s \in Sweep : \/ CheckHostFree(s)
                      \/ MaterializeSweep(s)
                      \/ ReadQueuedToCancel(s)
                      \/ CommitCancel(s)
                      \/ RejectCancel(s)
=============================================================================
