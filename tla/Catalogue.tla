----------------------------- MODULE Catalogue -----------------------------
(***************************************************************************)
(* The rows that a run refers to (configurations, workloads, hosts), the   *)
(* requests that create, annotate, import and delete them side by side,    *)
(* and the database they share: every request has a session of its own,    *)
(* reads what is committed, and meets the constraints when it writes.      *)
(*                                                                         *)
(* A step of a request is what it does from one await to the next.  A row  *)
(* is its key, and a configuration or a workload is its content, whose     *)
(* hash is its key.                                                        *)
(***************************************************************************)
EXTENDS Naturals, FiniteSets, Sequences, SequencesExt, Functions

CONSTANTS
  Caller,      \* requests
  Scenario,    \* what they may ask for together: a set of functions on Caller
  NoParent,    \* a configuration that was not edited from another one
  MaxBroken    \* bound on the sessions that break in a behaviour
ASSUME MaxBrokenAssumption == MaxBroken \in Nat
(* An agent answers a number of GPUs; a sweep has points, SweepCreate and     *)
(* SweepDirectory refuse an empty one; a parent that is missing is no text.   *)
IsRequest(q) ==
  /\ q.op \in {"config", "workload", "annotate", "register", "refresh", "delete", "run",
               "import", "sweep", "cancel"}
  /\ q.op \in {"register", "refresh"} => q.gpus \subseteq Nat
  /\ q.op = "config" => q.text # NoParent
  /\ q.op \in {"import", "sweep"} =>
       /\ Len(q.points) \in Nat \ {0} /\ DOMAIN q.points = 1..Len(q.points)
       /\ \A i \in DOMAIN q.points : q.points[i].text # NoParent
ASSUME CatalogueAssumption ==
  \A s \in Scenario : DOMAIN s = Caller /\ \A c \in Caller : IsRequest(s[c])

VARIABLES
  rows,        \* keys of server_config, workload and gpu_host
  parentOf,    \* server_config.parent_id of each stored text
  justified,   \* config_justification: the run of each text that has one
  inventory,   \* gpu_host.gpu_count and gpu_device of each stored host
  runs,        \* run
  over,        \* sweep.status: who asked for the sweeps that have ended
  asked,       \* the request of each caller
  at,          \* ... the await it is at
  point,       \* ... the point it imports
  draft,       \* ... the rows and runs it has flushed and not committed, the devices
               \*     it has read and the number its agent has answered
  reply        \* ... how it was answered

tables == <<rows, parentOf, justified, inventory, runs, over>>
transaction == <<point, draft>>
catalogueVars == <<tables, asked, at, transaction, reply>>

Config(t) == <<"config", t>>
(* create_workload hashes ten fields, _workload_for seven: the same traffic  *)
(* has two identities.                                                       *)
Workload(w) == <<"workload", w>>
ImportedWorkload(w) == <<"workload", w, "imported">>
Host(h) == <<"host", h>>

Empty == [rows |-> {}, runs |-> {}, seen |-> {}, found |-> 0]
CatalogueInit ==
  /\ rows = {} /\ parentOf = <<>> /\ justified = <<>> /\ inventory = <<>> /\ runs = {} /\ over = {}
  /\ asked \in Scenario
  /\ at = [c \in Caller |-> "select"]
  /\ point = [c \in Caller |-> 1]
  /\ draft = [c \in Caller |-> Empty]
  /\ reply = [c \in Caller |-> "none"]

(* What may be asked for.  An agent answers one of some numbers of GPUs.  A  *)
(* point of a sweep is a text, the stored one it is derived from (itself     *)
(* without a tensor-parallel axis) and a traffic; a point of an import is a  *)
(* text and a traffic, rebuilt from the files of a benchmark, and whether    *)
(* its results can be read.                                                  *)
NewConfig(t, p) == [op |-> "config", text |-> t, parent |-> p]
NewWorkload(w) == [op |-> "workload", traffic |-> w]
Register(h, gpus) == [op |-> "register", host |-> h, gpus |-> gpus]
Refresh(h, gpus) == [op |-> "refresh", host |-> h, gpus |-> gpus]
Delete(h) == [op |-> "delete", host |-> h]
NewRun(t, w, h) == [op |-> "run", text |-> t, traffic |-> w, host |-> h]
Justified(t, c) == [op |-> "annotate", text |-> t, run |-> c, clear |-> FALSE]
Withdrawn(t, c) == [op |-> "annotate", text |-> t, run |-> c, clear |-> TRUE]
Point(t, w, good) == [text |-> t, traffic |-> w, good |-> good]
Variation(base, t, w) == [base |-> base, text |-> t, traffic |-> w]
NewSweep(h, points) == [op |-> "sweep", host |-> h, points |-> points]
Import(h, points) == [op |-> "import", host |-> h, points |-> points]
Cancel(c) == [op |-> "cancel", sweep |-> c]

Asks(c, op, label) == asked[c].op = op /\ at[c] = label
Goto(c, label) == at' = [at EXCEPT ![c] = label] /\ UNCHANGED reply
Done(c, r) == at' = [at EXCEPT ![c] = "answered"] /\ reply' = [reply EXCEPT ![c] = r]
RollBack(c, r) == draft' = [draft EXCEPT ![c] = Empty] /\ Done(c, r)
(* What is committed is answered later: the row is read again first.         *)
Commit(c) == draft' = [draft EXCEPT ![c] = Empty] /\ Goto(c, "committed")

(* An insert waits for the session that has flushed the same key.            *)
FreeToInsert(c, key) == \A d \in Caller \ {c} : key \notin draft[d].rows
Referenced(h) == \E r \in runs : r.host = h
-----------------------------------------------------------------------------
(* create_config: content that is stored is returned as it is, whatever its   *)
(* parent; the parent of new content is looked up next.                      *)
SelectConfig(c) ==
  LET q == asked[c] IN
  /\ Asks(c, "config", "select")
  /\ CASE Config(q.text) \in rows -> Done(c, "existing")
       [] Config(q.text) \notin rows /\ q.parent = NoParent -> Goto(c, "insert")
       [] OTHER -> Goto(c, "parent")
  /\ UNCHANGED <<tables, asked, transaction>>

SelectParent(c) ==
  /\ Asks(c, "config", "parent")
  /\ IF asked[c].parent \in DOMAIN parentOf THEN Goto(c, "insert") ELSE Done(c, "refused")
  /\ UNCHANGED <<tables, asked, transaction>>

(* Mutant of InsertConfig: a later submission rewrites the parent. *)
InsertOrAdopt(c) ==
  LET q == asked[c] IN
  /\ Asks(c, "config", "insert")
  /\ FreeToInsert(c, Config(q.text))
  /\ rows' = rows \cup {Config(q.text)}
  /\ parentOf' = [t \in DOMAIN parentOf \cup {q.text} |->
                    IF t = q.text THEN q.parent ELSE parentOf[t]]
  /\ Goto(c, "committed")
  /\ UNCHANGED <<justified, runs, over, inventory, asked, transaction>>
InsertConfig(c) ==
  LET q == asked[c] IN
  /\ Asks(c, "config", "insert")
  /\ FreeToInsert(c, Config(q.text))
  /\ \/ /\ Config(q.text) \in rows
        /\ Done(c, "error")
        /\ UNCHANGED <<rows, parentOf>>
     \/ /\ Config(q.text) \notin rows
        /\ rows' = rows \cup {Config(q.text)}
        /\ parentOf' = [t \in DOMAIN parentOf \cup {q.text} |->
                          IF t = q.text THEN q.parent ELSE parentOf[t]]
        /\ Goto(c, "committed")
  /\ UNCHANGED <<justified, runs, over, inventory, asked, transaction>>

SelectWorkload(c) ==
  /\ Asks(c, "workload", "select")
  /\ IF Workload(asked[c].traffic) \in rows THEN Done(c, "existing") ELSE Goto(c, "insert")
  /\ UNCHANGED <<tables, asked, transaction>>

InsertWorkload(c) ==
  LET key == Workload(asked[c].traffic) IN
  /\ Asks(c, "workload", "insert")
  /\ FreeToInsert(c, key)
  /\ rows' = rows \cup {key}
  /\ IF key \in rows THEN Done(c, "error") ELSE Goto(c, "committed")
  /\ UNCHANGED <<parentOf, justified, inventory, runs, over, asked, transaction>>
-----------------------------------------------------------------------------
(* annotate_config: the run must have used this configuration, and there is  *)
(* at most one justification.  The request carries no run to withdraw it.    *)
SelectJustification(c) ==
  LET q == asked[c] IN
  /\ Asks(c, "annotate", "select")
  /\ IF \/ Config(q.text) \notin rows
        \/ ~q.clear /\ ~\E r \in runs : r.by = q.run /\ r.text = q.text
     THEN Done(c, "refused")
     ELSE Goto(c, IF q.text \in DOMAIN justified THEN "update" ELSE "insert")
  /\ UNCHANGED <<tables, asked, transaction>>

Justify(c) ==
  LET q == asked[c]
      others == DOMAIN justified \ {q.text} IN
  /\ asked[c].op = "annotate" /\ at[c] \in {"update", "insert"}
  /\ CASE q.clear -> /\ justified' = IF at[c] = "update" THEN Restrict(justified, others)
                                    ELSE justified
                     /\ Goto(c, "committed")
       [] ~q.clear /\ (at[c] = "update") # (q.text \in DOMAIN justified) ->
                     /\ UNCHANGED justified
                     /\ Done(c, "error")
       [] OTHER ->   /\ justified' = [t \in others \cup {q.text} |->
                                       IF t = q.text THEN q.run ELSE justified[t]]
                     /\ Goto(c, "committed")
  /\ UNCHANGED <<rows, parentOf, runs, over, inventory, asked, transaction>>

(* _handshake: any failure of it refuses the request.  The devices of an     *)
(* answer are numbered from zero, and a device row is its number and the     *)
(* request whose answer it is.                                               *)
Devices(n, c) == {<<i, c>> : i \in 0..n - 1}
Numbers(devices) == {d[1] : d \in devices}
Answers(c, label) ==
  \/ Done(c, "refused") /\ UNCHANGED draft
  \/ \E n \in asked[c].gpus : draft' = [draft EXCEPT ![c].found = n] /\ Goto(c, label)

(* register_host: the name and the devices in one commit.                    *)
HandshakeToRegister(c) ==
  /\ Asks(c, "register", "select")
  /\ Answers(c, "insert")
  /\ UNCHANGED <<tables, asked, point>>

With(h, n, devices) ==
  [g \in DOMAIN inventory \cup {h} |->
     IF g = h THEN [count |-> n, devices |-> devices] ELSE inventory[g]]
InsertHost(c) ==
  LET h == asked[c].host  n == draft[c].found IN
  /\ Asks(c, "register", "insert")
  /\ \/ Host(h) \in rows /\ Done(c, "refused") /\ UNCHANGED <<rows, inventory>>
     \/ /\ Host(h) \notin rows
        /\ rows' = rows \cup {Host(h)} /\ inventory' = With(h, n, Devices(n, c))
        /\ Goto(c, "committed")
  /\ UNCHANGED <<parentOf, justified, runs, over, asked, transaction>>

(* refresh_host: the devices are read before the agent is asked.  Those that *)
(* were read are deleted in a flush of its own, which holds the host's row   *)
(* to the end, and the answer's are inserted at the commit; a host that is   *)
(* gone, and a device that is there again, take everything back.             *)
SelectToRefresh(c) ==
  LET h == asked[c].host IN
  /\ Asks(c, "refresh", "select")
  /\ IF Host(h) \in rows
     THEN draft' = [draft EXCEPT ![c].seen = inventory[h].devices] /\ Goto(c, "handshake")
     ELSE Done(c, "refused") /\ UNCHANGED draft
  /\ UNCHANGED <<tables, asked, point>>

HandshakeToRefresh(c) ==
  /\ Asks(c, "refresh", "handshake")
  /\ Answers(c, IF draft[c].seen = {} THEN "insert" ELSE "flush")
  /\ UNCHANGED <<tables, asked, point>>

Importing(c) == at[c] \in {"config", "config insert", "workload", "workload insert", "runs"}
Refreshing(c, h) ==
  asked[c].op = "refresh" /\ asked[c].host = h /\ at[c] = "insert" /\ draft[c].seen # {}

FlushDevices(c) ==
  LET h == asked[c].host IN
  /\ Asks(c, "refresh", "flush")
  /\ ~\E d \in Caller : Refreshing(d, h)
  /\ IF Host(h) \in rows THEN Goto(c, "insert") /\ UNCHANGED draft ELSE RollBack(c, "error")
  /\ UNCHANGED <<tables, asked, point>>

(* Mutant of InsertDevices: merged with the rows that were there. *)
MergeDevices(c) ==
  LET h == asked[c].host  n == draft[c].found
      left == {d \in inventory[h].devices : d[1] >= n} IN
  /\ Asks(c, "refresh", "insert")
  /\ Host(h) \in rows
  /\ inventory' = With(h, n, left \cup Devices(n, c)) /\ Commit(c)
  /\ UNCHANGED <<rows, parentOf, justified, runs, over, asked, point>>
InsertDevices(c) ==
  LET h == asked[c].host  n == draft[c].found
      left == inventory[h].devices \ draft[c].seen IN
  /\ Asks(c, "refresh", "insert")
  /\ ~\E d \in Caller \ {c} : Refreshing(d, h)
  /\ IF Host(h) \in rows /\ Numbers(left) \cap Numbers(Devices(n, c)) = {}
     THEN inventory' = With(h, n, left \cup Devices(n, c)) /\ Commit(c)
     ELSE RollBack(c, "error") /\ UNCHANGED inventory
  /\ UNCHANGED <<rows, parentOf, justified, runs, over, asked, point>>

(* delete_host: refused while it has runs, which the foreign key repeats for *)
(* the runs that came meanwhile; a sweep that was flushed, and a refresh,     *)
(* hold the row until they end.  The devices go with it.                     *)
SelectHost(c) ==
  LET q == asked[c] IN
  /\ Asks(c, "delete", "select")
  /\ IF Host(q.host) \notin rows \/ Referenced(q.host)
     THEN Done(c, "refused") ELSE Goto(c, "delete")
  /\ UNCHANGED <<tables, asked, transaction>>

HoldsHost(c, h) ==
  \/ Refreshing(c, h)
  \/ asked[c].op = "import" /\ Importing(c) /\ asked[c].host = h
  \/ Asks(c, "sweep", "runs") /\ asked[c].host = h
Without(h) == Restrict(inventory, DOMAIN inventory \ {h})
(* Mutant of DeleteHost: the foreign key does not hold the row. *)
DeleteUnguarded(c) ==
  /\ Asks(c, "delete", "delete")
  /\ rows' = rows \ {Host(asked[c].host)} /\ inventory' = Without(asked[c].host)
  /\ Goto(c, "committed")
  /\ UNCHANGED <<parentOf, justified, runs, over, asked, transaction>>
DeleteHost(c) ==
  LET h == asked[c].host IN
  /\ Asks(c, "delete", "delete")
  /\ ~\E d \in Caller : HoldsHost(d, h)
  /\ \/ Referenced(h) /\ Done(c, "error") /\ UNCHANGED <<rows, inventory>>
     \/ /\ ~Referenced(h) /\ Goto(c, "committed")
        /\ rows' = rows \ {Host(h)} /\ inventory' = Without(h)
  /\ UNCHANGED <<parentOf, justified, runs, over, asked, transaction>>

(* create_run: the three rows are read, and referred to at the commit.       *)
SelectForRun(c) ==
  LET q == asked[c] IN
  /\ Asks(c, "run", "select")
  /\ IF {Config(q.text), Workload(q.traffic), Host(q.host)} \subseteq rows
     THEN Goto(c, "insert") ELSE Done(c, "refused")
  /\ UNCHANGED <<tables, asked, transaction>>

InsertRun(c) ==
  LET q == asked[c] IN
  /\ Asks(c, "run", "insert")
  /\ IF Host(q.host) \in rows
     THEN /\ runs' = runs \cup {[by |-> c, text |-> q.text, host |-> q.host,
                                 workload |-> Workload(q.traffic), seq |-> 0]}
          /\ Goto(c, "committed")
     ELSE UNCHANGED runs /\ Done(c, "error")
  /\ UNCHANGED <<rows, parentOf, justified, inventory, over, asked, transaction>>
-----------------------------------------------------------------------------
(* Requests that create a sweep: one transaction over all points, whose      *)
(* configurations (and workloads, when imported) are looked up, and flushed  *)
(* when missing.  import_vllm_sweep flushes the sweep first, as one that has *)
(* ended, create_sweep after its configurations; it is refused while a sweep *)
(* of the host has not ended.                                                *)
IsSweep(d) == asked[d].op \in {"import", "sweep"} /\ \E r \in runs : r.by = d
BeginImport(c) ==
  /\ Asks(c, "import", "select")
  /\ IF Host(asked[c].host) \in rows THEN Goto(c, "sweep") ELSE Done(c, "refused")
  /\ UNCHANGED <<tables, asked, transaction>>

BeginSweep(c) ==
  LET q == asked[c]
      axes == UNION {{Config(p.base), Workload(p.traffic)} : p \in Range(q.points)}
      known == axes \cup {Host(q.host)} \subseteq rows
      isBusy == \E r \in runs : r.host = q.host /\ IsSweep(r.by) /\ r.by \notin over IN
  /\ Asks(c, "sweep", "select")
  /\ IF known /\ ~isBusy THEN Goto(c, "config") ELSE Done(c, "refused")
  /\ UNCHANGED <<tables, asked, transaction>>

This(c) == asked[c].points[point[c]]
IsLast(c) == point[c] = Len(asked[c].points)
AtConfig(c) == asked[c].op \in {"import", "sweep"} /\ at[c] \in {"config", "config insert"}
Wanted(c) == IF AtConfig(c) THEN Config(This(c).text) ELSE ImportedWorkload(This(c).traffic)
HasRow(c) ==
  CASE asked[c].op = "import" /\ AtConfig(c)  -> Goto(c, "workload") /\ UNCHANGED point
    [] asked[c].op = "import" /\ ~AtConfig(c) -> Goto(c, "runs") /\ UNCHANGED point
    [] asked[c].op = "sweep" /\ IsLast(c)     -> Goto(c, "sweep") /\ UNCHANGED point
    [] asked[c].op = "sweep" /\ ~IsLast(c)    ->
         Goto(c, "config") /\ point' = [point EXCEPT ![c] = @ + 1]

SelectRow(c) ==
  /\ asked[c].op \in {"import", "sweep"} /\ at[c] \in {"config", "workload"}
  /\ IF Wanted(c) \in rows \cup draft[c].rows THEN HasRow(c)
     ELSE Goto(c, IF AtConfig(c) THEN "config insert" ELSE "workload insert") /\ UNCHANGED point
  /\ UNCHANGED <<tables, asked, draft>>

FlushRow(c) ==
  /\ asked[c].op \in {"import", "sweep"} /\ at[c] \in {"config insert", "workload insert"}
  /\ FreeToInsert(c, Wanted(c))
  /\ IF Wanted(c) \in rows THEN RollBack(c, "error") /\ UNCHANGED point
     ELSE draft' = [draft EXCEPT ![c].rows = @ \cup {Wanted(c)}] /\ HasRow(c)
  /\ UNCHANGED <<tables, asked>>

FlushSweep(c) ==
  /\ asked[c].op \in {"import", "sweep"} /\ at[c] = "sweep"
  /\ IF Host(asked[c].host) \in rows
     THEN Goto(c, IF asked[c].op = "import" THEN "config" ELSE "runs") /\ UNCHANGED draft
     ELSE RollBack(c, "error")
  /\ UNCHANGED <<tables, asked, point>>

(* The database ends a cycle of sessions that wait for each other's keys.    *)
BreakDeadlock(c) ==
  /\ asked[c].op \in {"import", "sweep"} /\ at[c] \in {"config insert", "workload insert"}
  /\ \E d \in Caller \ {c} :
       /\ Wanted(c) \in draft[d].rows
       /\ at[d] \in {"config insert", "workload insert"}
       /\ Wanted(d) \in draft[c].rows
  /\ RollBack(c, "error")
  /\ UNCHANGED <<tables, asked, point>>

(* A run per result of an import, and the commit after the last; a result    *)
(* that cannot be flattened takes everything back.                           *)
Imported(c) == [by |-> c, text |-> This(c).text, host |-> asked[c].host,
                workload |-> ImportedWorkload(This(c).traffic), seq |-> point[c]]
CommitSweep(c, d) ==
  LET texts == {t \in {p.text : p \in Range(asked[c].points)} : Config(t) \in d.rows} IN
  /\ rows' = rows \cup d.rows
  /\ runs' = runs \cup d.runs
  /\ parentOf' = [t \in DOMAIN parentOf \cup texts |->
                    IF t \in texts THEN NoParent ELSE parentOf[t]]
  /\ over' = over \cup {e \in {c} : asked[e].op = "import"}

RefuseResult(c) ==
  /\ Asks(c, "import", "runs")
  /\ ~This(c).good
  /\ RollBack(c, "refused")
  /\ UNCHANGED <<tables, asked, point>>

(* Mutant of ImportRun: every point is committed. *)
ImportRunAlone(c) ==
  LET flushed == [draft[c] EXCEPT !.runs = @ \cup {Imported(c)}] IN
  /\ Asks(c, "import", "runs") /\ This(c).good
  /\ CommitSweep(c, flushed)
  /\ draft' = [draft EXCEPT ![c] = Empty]
  /\ IF IsLast(c) THEN Goto(c, "committed") /\ UNCHANGED point
     ELSE Goto(c, "config") /\ point' = [point EXCEPT ![c] = @ + 1]
  /\ UNCHANGED <<justified, inventory, asked>>
ImportRun(c) ==
  LET flushed == [draft[c] EXCEPT !.runs = @ \cup {Imported(c)}] IN
  /\ Asks(c, "import", "runs") /\ This(c).good
  /\ \/ /\ ~IsLast(c)
        /\ draft' = [draft EXCEPT ![c] = flushed]
        /\ point' = [point EXCEPT ![c] = @ + 1]
        /\ Goto(c, "config")
        /\ UNCHANGED <<rows, runs, parentOf, over>>
     \/ /\ IsLast(c)
        /\ CommitSweep(c, flushed)
        /\ Commit(c)
        /\ UNCHANGED point
  /\ UNCHANGED <<justified, inventory, asked>>

CreateRuns(c) ==
  LET q == asked[c]
      created == {[by |-> c, text |-> q.points[i].text, host |-> q.host,
                   workload |-> Workload(q.points[i].traffic), seq |-> i] : i \in DOMAIN q.points} IN
  /\ Asks(c, "sweep", "runs")
  /\ CommitSweep(c, [draft[c] EXCEPT !.runs = created])
  /\ Commit(c)
  /\ UNCHANGED <<justified, inventory, asked, point>>

-----------------------------------------------------------------------------
(* cancel_sweep: a sweep that has ended is left as it is; else it ends, and  *)
(* its queued runs with it.                                                  *)
SelectSweep(c) ==
  LET d == asked[c].sweep IN
  /\ Asks(c, "cancel", "select")
  /\ CASE ~IsSweep(d)                 -> Done(c, "refused")
       [] IsSweep(d) /\ d \in over    -> Done(c, "existing")
       [] IsSweep(d) /\ d \notin over -> Goto(c, "update")
  /\ UNCHANGED <<tables, asked, transaction>>

CancelSweep(c) ==
  /\ Asks(c, "cancel", "update")
  /\ over' = over \cup {asked[c].sweep}
  /\ Goto(c, "committed")
  /\ UNCHANGED <<rows, parentOf, justified, inventory, runs, asked, transaction>>

(* The orchestrator settles a sweep.                                         *)
SettleSweep(d) ==
  /\ IsSweep(d) /\ d \notin over
  /\ over' = over \cup {d}
  /\ UNCHANGED <<rows, parentOf, justified, inventory, runs, asked, at, transaction, reply>>

-----------------------------------------------------------------------------
(* The answer of a request that has committed, once it has read what it      *)
(* answers with.                                                             *)
Answer(c) == IF asked[c].op \in {"annotate", "refresh", "delete", "cancel"} THEN "done" ELSE "created"
AnswerCommitted(c) ==
  /\ at[c] = "committed"
  /\ Done(c, Answer(c))
  /\ UNCHANGED <<tables, asked, transaction>>

(* An await of a session may raise, before the commit or after it: what was  *)
(* not committed is rolled back.  The caller sees an error like any other.   *)
Break(c) ==
  /\ at[c] # "answered"
  /\ Cardinality({d \in Caller : reply[d] = "broken"}) < MaxBroken
  /\ RollBack(c, "broken")
  /\ UNCHANGED <<tables, asked, point>>

Work(c) ==
  \/ SelectConfig(c) \/ SelectParent(c) \/ InsertConfig(c)
  \/ SelectWorkload(c) \/ InsertWorkload(c)
  \/ SelectJustification(c) \/ Justify(c)
  \/ HandshakeToRegister(c) \/ InsertHost(c) \/ SelectToRefresh(c) \/ HandshakeToRefresh(c)
  \/ FlushDevices(c) \/ InsertDevices(c) \/ SelectHost(c) \/ DeleteHost(c)
  \/ SelectForRun(c) \/ InsertRun(c)
  \/ BeginImport(c) \/ BeginSweep(c) \/ SelectRow(c) \/ FlushRow(c) \/ FlushSweep(c)
  \/ BreakDeadlock(c) \/ RefuseResult(c) \/ ImportRun(c) \/ CreateRuns(c)
  \/ SelectSweep(c) \/ CancelSweep(c)
HandleCall(c) == Work(c) \/ AnswerCommitted(c) \/ Break(c)
-----------------------------------------------------------------------------
(* config_lineage: the walk to the ancestors, which gives up at a text it has *)
(* seen (or a hundred), and the children.                                    *)
Ancestry(t) ==
  LET walk[n \in 0..Cardinality(DOMAIN parentOf)] ==
        IF n = 0 THEN <<t>>
        ELSE LET seen == walk[n - 1]
                 parent == parentOf[Last(seen)]
             IN IF parent \in DOMAIN parentOf \ ToSet(seen) THEN Append(seen, parent) ELSE seen
  IN walk[Cardinality(DOMAIN parentOf)]
Ancestors(t) == Tail(Ancestry(t))
LineageTruncated(t) == parentOf[Last(Ancestry(t))] \in ToSet(Ancestry(t))
Children(t) == {s \in DOMAIN parentOf : parentOf[s] = t}

(* A configuration never descends from itself, though a parent is checked    *)
(* before the row is written and texts are created by several requests: its  *)
(* lineage ends at a text without a parent, and is what each of its children *)
(* shows above it (create_config, config_lineage).                           *)
LineageHasNoCycle ==
  \A t \in DOMAIN parentOf :
    /\ ~LineageTruncated(t) /\ parentOf[Last(Ancestry(t))] = NoParent
    /\ \A s \in Children(t) : Ancestors(s) = Ancestry(t)

(* What a committed row says of others is so.  The rows of a run, the parent *)
(* of a configuration and the run of a justification, which used that very   *)
(* configuration, are there; the device rows of a host are those of one      *)
(* answer of its agent and as many as the host says, however refreshes       *)
(* overlap, unless the last answer was that there are none (create_run,      *)
(* annotate_config, delete_host, create_sweep, imports, refresh_host).       *)
RowsAgree ==
  /\ \A r \in runs : {Config(r.text), r.workload, Host(r.host)} \subseteq rows
  /\ \A t \in DOMAIN parentOf : parentOf[t] \in {NoParent} \cup DOMAIN parentOf
  /\ \A t \in DOMAIN justified : \E r \in runs : r.by = justified[t] /\ r.text = t
  /\ \A h \in DOMAIN inventory :
       LET devices == inventory[h].devices IN
       /\ \E c \in Caller : devices = Devices(Cardinality(devices), c)
       /\ inventory[h].count \in {0, Cardinality(devices)}

(* A sweep is created or imported with every point of it or not at all,      *)
(* whatever other requests commit under it: who is told of it finds it       *)
(* whole, who was refused or ran into a constraint left nothing, and a       *)
(* session that broke, or a death, leaves either, for both may come after    *)
(* the commit (create_sweep, import_vllm_sweep).                             *)
SweepAllOrNothing ==
  \A c \in Caller : asked[c].op \in {"import", "sweep"} =>
    LET created == {r.seq : r \in {s \in runs : s.by = c}} IN
    /\ created \in {{}, DOMAIN asked[c].points}
    /\ reply[c] = "created" => created # {}
    /\ reply[c] \in {"refused", "error"} => created = {}
=============================================================================
