---------------------------- MODULE VllmServerInv ---------------------------
(***************************************************************************)
(* Why the engine supervisor is right: an inductive invariant for any      *)
(* number of calls, and what it takes besides for two starts under way.    *)
(***************************************************************************)
EXTENDS VllmServer

(* The lock: who is in the queue waits for it, except for its head, and who  *)
(* spawns or kills is the head; nobody is in line twice.                     *)
Lines == DOMAIN queue
Working == {"spawning", "forked", "killing", "killed"}
LockDiscipline ==
  /\ ~up => queue = <<>>
  /\ \A i, j \in Lines : queue[i] = queue[j] => i = j
  /\ \A i \in Lines : pc[queue[i]] \in {"waiting", "undoing"} \/ (i = 1 /\ pc[queue[i]] \in Working)
  /\ \A h \in Starter \cup Stopper :
       /\ pc[h] \in {"waiting", "undoing"} => \E i \in Lines : queue[i] = h
       /\ pc[h] \in Working => queue # <<>> /\ queue[1] = h

(* Somebody in line will stop whatever there is by then ... *)
Undoing(h) == pc[h] \in {"undoing", "killing", "killed"}
UndoerWaits == \E i \in Lines : Undoing(queue[i])
UndoerAhead(h) == \E i, j \in Lines : i < j /\ queue[j] = h /\ Undoing(queue[i])
Launching == {h \in Starter : pc[h] \in {"spawning", "forked"}}
(* ... whenever the state lets a start in beside a process, or the config is *)
(* of another one.                                                           *)
FieldsFollowLock ==
  /\ \A h \in Launching : config = h
  /\ process # NoProc \/ Launching # {} =>
       state \in {"starting", "ready"} \/ UndoerWaits
  /\ process # NoProc /\ (Launching # {} \/ config # process) => UndoerWaits

(* Which calls can have an engine, and who is there in which lifetime. *)
Owned == {p \in alive : pc[p] \notin Former}
CallsByLife ==
  /\ \A p \in alive : pc[p] \notin {"new", "waiting", "spawning"}
  /\ ~up => \A h \in Starter \cup Stopper : pc[h] \in Former \cup {"new"}
  /\ \A h \in Stopper : pc[h] \in {"new", "undoing", "killing", "killed", "stopped", "lost"}
  /\ deaths = 0 => up /\ \A h \in Starter \cup Stopper : pc[h] \notin Former

(* The process there is was launched by a start that got past that; and a    *)
(* launch is failed only by a start that then waits to stop it.              *)
LaunchesAreWatched ==
  /\ process # NoProc => pc[process] \notin {"new", "waiting", "spawning"}
  /\ Launching # {} /\ state \notin {"starting", "ready"} =>
       \E g \in Starter : pc[g] = "undoing"

(* As many starts are under way as the callers of this agent allow.          *)
FewUnderWay == IsFiniteSet(UnderWay) /\ Cardinality(UnderWay) <= MaxStarts

(* While an engine is owned or being launched, a start that waits in line    *)
(* finds it starting or ready in its turn, or it was stopped before; and no  *)
(* handler that can still give up fails it from under one.                   *)
LineIsSafe ==
  /\ Owned \cup Launching # {}
  /\ state \notin {"starting", "ready"} \/ \E g \in Starter : pc[g] = "polling"
  => \A h \in Starter : pc[h] = "waiting" => UndoerAhead(h)

(* With two starts under way: an owned engine is on hand and on record, or   *)
(* just forked, and is the only one.                                         *)
OneEngine ==
  /\ EngineNeverLost
  /\ \A h \in Launching : Owned \subseteq {h}
  /\ (\E h \in Starter \cup Stopper : pc[h] = "killed") => Owned = {}
  /\ LineIsSafe
  /\ GivenUpHoldsNothing
  /\ deaths = 0 /\ state = "ready" /\ process = NoProc => \E h \in Launching : pc[h] = "forked"

ServerInv ==
  LockDiscipline /\ FieldsFollowLock /\ CallsByLife /\ LaunchesAreWatched /\ FewUnderWay
=============================================================================
