---------------------------- MODULE CatalogueInv ----------------------------
(***************************************************************************)
(* What a request knows of the rows at each of its awaits, and what the    *)
(* rows, the replies and the audit have in common at any moment: the       *)
(* inductive invariant of Catalogue and McpSurface.                        *)
(***************************************************************************)
EXTENDS McpSurface

(* The variables of the requests are there for each of them; no request was  *)
(* answered before its last await; hosts are not flushed, they are inserted. *)
Shape ==
  /\ asked \in Scenario
  /\ DOMAIN at = Caller /\ DOMAIN point = Caller /\ DOMAIN reply = Caller /\ DOMAIN draft = Caller
  /\ \A c \in Caller :
       /\ DOMAIN draft[c] = DOMAIN Empty
       /\ at[c] # "answered" => reply[c] = "none"
       /\ \A k \in draft[c].rows : k[1] # "host"

(* A host has an inventory exactly when it has a row.                        *)
HostsAgree ==
  /\ \A h \in DOMAIN inventory : Host(h) \in rows
  /\ \A k \in rows : k[1] = "host" => \E h \in DOMAIN inventory : k = Host(h)
(* No run names a host as its workload.                                      *)
WorkloadsNamed == \A r \in runs : r.workload[1] # "host"
(* A batch has its rows from its commit on, and none before it.              *)
BatchStored ==
  \A c \in Caller : asked[c].op \in {"import", "sweep"} =>
    /\ reply[c] \in {"none", "refused", "error", "broken", "created"}
    /\ at[c] = "committed" => \E r \in runs : r.by = c
    /\ at[c] \notin {"committed", "answered"} => \A r \in runs : r.by # c

(* What was selected and has not changed since.                              *)
RequestKnows(c) ==
  LET q == asked[c] IN
  /\ Asks(c, "config", "insert") => q.parent \in {NoParent} \cup DOMAIN parentOf
  /\ q.op = "annotate" /\ at[c] \in {"update", "insert"} /\ ~q.clear =>
       \E r \in runs : r.by = q.run /\ r.text = q.text
  /\ Asks(c, "run", "insert") => {Config(q.text), Workload(q.traffic)} \subseteq rows

(* Devices come from a request that has been answered since, so that two     *)
(* inventories of a host are equal or have no row in common.                 *)
Handshaken == {e \in Caller : asked[e].op \in {"register", "refresh"} /\ at[e] \in {"committed", "answered"}}
RefreshKnows(c) ==
  LET q == asked[c]  seen == draft[c].seen IN
  /\ q.op \in {"register", "refresh"} /\ at[c] \in {"insert", "flush"} =>
       draft[c].found \in q.gpus
  /\ q.op = "refresh" /\ at[c] \in {"handshake", "flush", "insert"} =>
       /\ \E e \in Handshaken : \E n \in asked[e].gpus : seen = Devices(n, e)
       /\ q.host \in DOMAIN inventory =>
            seen = inventory[q.host].devices \/ seen \cap inventory[q.host].devices = {}
InventoryIsAnAnswer ==
  \A h \in DOMAIN inventory : \E e \in Handshaken : \E n \in asked[e].gpus :
    inventory[h].devices = Devices(n, e) /\ inventory[h].count \in {0, n}

(* The points a batch has got past have their rows, committed or flushed,    *)
(* and an import has a run of each; the host is held.                        *)
ImportedPoint(c, i) ==
  LET p == asked[c].points[i] IN
  [by |-> c, text |-> p.text, host |-> asked[c].host,
   workload |-> ImportedWorkload(p.traffic), seq |-> i]
ImportKnows(c) ==
  LET q == asked[c]  there == rows \cup draft[c].rows IN
  q.op = "import" =>
    /\ at[c] \notin {"committed", "answered"} =>
         /\ point[c] \in DOMAIN q.points
         /\ draft[c].runs = {ImportedPoint(c, i) : i \in 1..point[c] - 1}
         /\ \A i \in 1..point[c] :
              /\ i < point[c] \/ at[c] \in {"workload", "workload insert", "runs"} =>
                   Config(q.points[i].text) \in there
              /\ i < point[c] \/ at[c] = "runs" =>
                   ImportedWorkload(q.points[i].traffic) \in there
         /\ Importing(c) => Host(q.host) \in rows
SweepKnows(c) ==
  LET q == asked[c] IN
  q.op = "sweep" =>
    /\ at[c] \notin {"committed", "answered"} =>
         /\ at[c] \in {"select", "config", "config insert", "sweep", "runs"}
         /\ point[c] \in DOMAIN q.points
         /\ at[c] # "select" => \A i \in DOMAIN q.points : Workload(q.points[i].traffic) \in rows
         /\ \A i \in DOMAIN q.points :
              i < point[c] \/ at[c] \in {"sweep", "runs"} =>
                Config(q.points[i].text) \in rows \cup draft[c].rows
         /\ at[c] = "runs" => Host(q.host) \in rows

Knowledge ==
  \A c \in Caller : RequestKnows(c) /\ RefreshKnows(c) /\ ImportKnows(c) /\ SweepKnows(c)

(* A text with a parent is stored, and the parents lead nowhere back: every  *)
(* set of texts has one whose parent is not in it.                           *)
Rooted == \A S \in SUBSET DOMAIN parentOf : S # {} => \E t \in S : parentOf[t] \notin S
Lineage ==
  /\ IsFiniteSet(DOMAIN parentOf) /\ NoParent \notin DOMAIN parentOf
  /\ \A t \in DOMAIN parentOf : Config(t) \in rows
  /\ Rooted

CatalogueInvariant ==
  /\ Shape /\ HostsAgree /\ InventoryIsAnAnswer /\ Knowledge
  /\ WorkloadsNamed /\ BatchStored /\ RowsAgree /\ SweepAllOrNothing /\ Lineage
-----------------------------------------------------------------------------
(* A call is with its handler or has been told, nothing was recorded before; *)
(* a surface that is switched off hands nothing to a handler.                *)
Stages ==
  /\ DOMAIN stage = Caller /\ DOMAIN audit = Caller
  /\ \A c \in Caller \ ToolCaller : stage[c] # "call"
  /\ \A c \in ToolCaller :
       /\ stage[c] = "call" => at[c] = "select" /\ reply[c] = "none"
       /\ ~writeEnabled => stage[c] # "handler" /\ reply[c] = "none"
       /\ audit[c] # "none" =>
            /\ stage[c] = "told"
            /\ \/ reply[c] # "none" /\ audit[c] = Outcome(reply[c])
               \/ ~writeEnabled /\ audit[c] = "refused"

(* A tool whose call has committed, or was told of a success, stored its row; *)
(* one that was refused, met a constraint or has not committed, and alone    *)
(* could have, did not.                                                      *)
Failing == {"none", "refused", "error", "broken"}
Undone(c) ==
  \/ reply[c] \in {"refused", "error"}
  \/ at[c] \notin {"committed", "answered"}
  \/ ~writeEnabled
ReplyTellsTheTruth ==
  \A c \in ToolCaller :
    /\ /\ reply[c] \notin Failing \/ at[c] = "committed"
       /\ asked[c].op = "annotate" => SoleAuthor(c)
       => Stored(c)
    /\ SoleAuthor(c) /\ Undone(c) => ~Stored(c)

SurfaceInvariant == CatalogueInvariant /\ Stages /\ ReplyTellsTheTruth
=============================================================================
