-------------------------- MODULE CatalogueProofs --------------------------
(***************************************************************************)
(* What Catalogue and McpSurface guarantee for any number of requests,     *)
(* tool calls, texts, hosts and points.                                    *)
(***************************************************************************)
EXTENDS CatalogueInv, Integers, NumberTheorems, TLAPS

USE CatalogueAssumption, ToolAssumption

(* Keys of different tables, and of different rows, differ.                  *)
LEMMA Keys ==
  \A t, h :
    /\ Config(t) # Host(h) /\ Workload(t) # Host(h) /\ ImportedWorkload(t) # Host(h)
    /\ Config(t) # Workload(h) /\ Config(t) # ImportedWorkload(h)
    /\ Workload(t) # ImportedWorkload(h)
    /\ Config(t) = Config(h) => t = h
    /\ Workload(t) = Workload(h) => t = h
    /\ Host(t) = Host(h) => t = h
    /\ Host(h)[1] = "host" /\ Host(h)[2] = h
    /\ Config(h)[1] = "config" /\ Workload(h)[1] = "workload"
    /\ ImportedWorkload(h)[1] = "workload"
  BY DEF Config, Host, Workload, ImportedWorkload

LEMMA Request == ASSUME Shape, NEW c \in Caller PROVE IsRequest(asked[c])
  BY DEF Shape

(* A step of a request leaves the others where they are, ...                 *)
Frame(c) ==
  /\ asked' = asked /\ at[c] \notin {"committed", "answered"} /\ reply[c] = "none"
  /\ DOMAIN at' = Caller /\ DOMAIN point' = Caller
  /\ DOMAIN reply' = Caller /\ DOMAIN draft' = Caller
  /\ \A d \in Caller \ {c} :
       at'[d] = at[d] /\ point'[d] = point[d] /\ draft'[d] = draft[d] /\ reply'[d] = reply[d]
  /\ DOMAIN draft'[c] = DOMAIN Empty
  /\ at'[c] # "answered" => reply'[c] = "none"
  /\ \A k \in draft'[c].rows : k[1] # "host"

(* ... takes back no row but that of a host nobody holds or refers to, ...   *)
Grows(c) ==
  /\ over \subseteq over'
  /\ runs \subseteq runs' /\ \A r \in runs' \ runs : r.by = c
  /\ DOMAIN parentOf \subseteq DOMAIN parentOf'
  /\ \A k \in rows \ rows' : \E h :
       k = Host(h) /\ ~Referenced(h) /\ ~\E d \in Caller : HoldsHost(d, h)

LEMMA WantedKey == ASSUME NEW c \in Caller PROVE Wanted(c)[1] # "host"
  BY Keys DEF Wanted

LEMMA Moved ==
  ASSUME Shape, NEW c \in Caller, asked[c].op \in {"import", "sweep"}, HasRow(c)
  PROVE  /\ UNCHANGED reply /\ DOMAIN at' = Caller /\ DOMAIN point' = Caller
         /\ \A d \in Caller \ {c} : at'[d] = at[d] /\ point'[d] = point[d]
         /\ \/ asked[c].op = "import" /\ AtConfig(c) /\ at'[c] = "workload" /\ point'[c] = point[c]
            \/ asked[c].op = "import" /\ ~AtConfig(c) /\ at'[c] = "runs" /\ point'[c] = point[c]
            \/ asked[c].op = "sweep" /\ IsLast(c) /\ at'[c] = "sweep" /\ point'[c] = point[c]
            \/ asked[c].op = "sweep" /\ ~IsLast(c) /\ at'[c] = "config" /\ point'[c] = point[c] + 1
<1> AtConfig(c) \in BOOLEAN /\ IsLast(c) \in BOOLEAN
  BY DEF AtConfig, IsLast
<1> QED
  BY DEF HasRow, Goto, Shape

LEMMA FrameOf ==
  ASSUME Shape, NEW c \in Caller, Work(c) PROVE Frame(c)
<1> USE DEF Shape, Empty
<1>1. CASE SelectConfig(c)
  BY <1>1 DEF SelectConfig, Asks, Done, Goto, Frame, transaction
<1>2. CASE SelectParent(c)
  BY <1>2 DEF SelectParent, Asks, Done, Goto, Frame, transaction
<1>3. CASE InsertConfig(c)
  BY <1>3 DEF InsertConfig, Asks, Done, Goto, Frame, transaction
<1>4. CASE SelectWorkload(c)
  BY <1>4 DEF SelectWorkload, Asks, Done, Goto, Frame, transaction
<1>5. CASE InsertWorkload(c)
  BY <1>5 DEF InsertWorkload, Asks, Done, Goto, Frame, transaction
<1>6. CASE SelectJustification(c)
  BY <1>6 DEF SelectJustification, Asks, Done, Goto, Frame, transaction
<1>7. CASE Justify(c)
  BY <1>7 DEF Justify, Asks, Done, Goto, Frame, transaction
<1>8. CASE HandshakeToRegister(c)
  BY <1>8 DEF HandshakeToRegister, Answers, Asks, Done, Goto, Frame, transaction
<1>9. CASE InsertHost(c)
  BY <1>9 DEF InsertHost, Asks, Done, Goto, Frame, transaction
<1>10. CASE SelectToRefresh(c)
  BY <1>10 DEF SelectToRefresh, Asks, Done, Goto, Frame, transaction
<1>11. CASE HandshakeToRefresh(c)
  BY <1>11 DEF HandshakeToRefresh, Answers, Asks, Done, Goto, Frame, transaction
<1>12. CASE FlushDevices(c)
  BY <1>12 DEF FlushDevices, RollBack, Commit, Asks, Done, Goto, Frame, transaction
<1>13. CASE InsertDevices(c)
  BY <1>13 DEF InsertDevices, RollBack, Commit, Asks, Done, Goto, Frame, transaction
<1>14. CASE SelectHost(c)
  BY <1>14 DEF SelectHost, Asks, Done, Goto, Frame, transaction
<1>15. CASE DeleteHost(c)
  BY <1>15 DEF DeleteHost, Asks, Done, Goto, Frame, transaction
<1>16. CASE SelectForRun(c)
  BY <1>16 DEF SelectForRun, Asks, Done, Goto, Frame, transaction
<1>17. CASE InsertRun(c)
  BY <1>17 DEF InsertRun, Asks, Done, Goto, Frame, transaction
<1>18. CASE BeginImport(c)
  BY <1>18 DEF BeginImport, Asks, Done, Goto, Frame, transaction
<1>19. CASE BeginSweep(c)
  BY <1>19 DEF BeginSweep, Asks, Done, Goto, Frame, transaction
<1>20. CASE SelectRow(c)
  BY <1>20 DEF SelectRow, HasRow, Asks, Done, Goto, Frame, transaction
<1>21. CASE FlushRow(c)
  <2>1. CASE Wanted(c) \in rows
    <3>1. RollBack(c, "error") /\ UNCHANGED <<point, asked>>
      BY <1>21, <2>1, Zenon DEF FlushRow
    <3>2. at[c] \notin {"committed", "answered"}
      BY <1>21 DEF FlushRow
    <3> QED
      BY <3>1, <3>2 DEF RollBack, Done, Frame
  <2>2. CASE Wanted(c) \notin rows
    <3>1. draft' = [draft EXCEPT ![c].rows = @ \cup {Wanted(c)}] /\ HasRow(c) /\ UNCHANGED asked
      BY <1>21, <2>2, Zenon DEF FlushRow
    <3>2. DOMAIN draft' = Caller /\ DOMAIN draft'[c] = DOMAIN Empty
          /\ \A d \in Caller \ {c} : draft'[d] = draft[d]
      BY <3>1
    <3>3. \A k \in draft'[c].rows : k[1] # "host"
      <4>1. draft'[c].rows = draft[c].rows \cup {Wanted(c)}
        BY <3>1
      <4> QED
        BY <4>1, WantedKey
    <3>4. at[c] \in {"config insert", "workload insert"} /\ asked[c].op \in {"import", "sweep"}
      BY <1>21 DEF FlushRow
    <3>5. at'[c] # "answered" /\ UNCHANGED reply /\ DOMAIN at' = Caller /\ DOMAIN point' = Caller
          /\ \A d \in Caller \ {c} : at'[d] = at[d] /\ point'[d] = point[d]
      BY <3>1, <3>4, Moved
    <3> QED
      BY <3>1, <3>2, <3>3, <3>4, <3>5 DEF Frame
  <2> QED
    BY <2>1, <2>2
<1>22. CASE FlushSweep(c)
  BY <1>22 DEF FlushSweep, RollBack, Commit, Asks, Done, Goto, Frame, transaction
<1>23. CASE BreakDeadlock(c)
  BY <1>23 DEF BreakDeadlock, RollBack, Commit, Asks, Done, Goto, Frame, transaction
<1>24. CASE RefuseResult(c)
  BY <1>24 DEF RefuseResult, RollBack, Commit, Asks, Done, Goto, Frame, transaction
<1>25. CASE ImportRun(c)
  BY <1>25 DEF ImportRun, RollBack, Commit, Asks, Done, Goto, Frame, transaction
<1>26. CASE CreateRuns(c)
  BY <1>26 DEF CreateRuns, RollBack, Commit, Asks, Done, Goto, Frame, transaction
<1>27. CASE SelectSweep(c)
  BY <1>27 DEF SelectSweep, Asks, Done, Goto, Frame, transaction
<1>28. CASE CancelSweep(c)
  BY <1>28 DEF CancelSweep, Asks, Done, Goto, Frame, transaction
<1> QED
  BY <1>1, <1>2, <1>3, <1>4, <1>5, <1>6, <1>7, <1>8, <1>9, <1>10, <1>11, <1>12, <1>13,
     <1>14, <1>15, <1>16, <1>17, <1>18, <1>19, <1>20, <1>21, <1>22, <1>23, <1>24, <1>25, <1>26, <1>27, <1>28
  DEF Work
(* The steps that write a table.                                             *)
LEMMA Writers ==
  ASSUME NEW c \in Caller, Work(c)
  PROVE  \/ UNCHANGED tables
         \/ InsertConfig(c) \/ InsertWorkload(c) \/ Justify(c) \/ InsertHost(c)
         \/ InsertDevices(c) \/ DeleteHost(c) \/ InsertRun(c) \/ ImportRun(c) \/ CreateRuns(c)
         \/ CancelSweep(c)
BY Zenon DEF Work, SelectConfig, SelectParent, SelectWorkload, SelectJustification,
   HandshakeToRegister, SelectToRefresh, HandshakeToRefresh, FlushDevices, SelectHost,
   SelectForRun, BeginImport, BeginSweep, SelectRow, FlushRow, FlushSweep, BreakDeadlock,
   RefuseResult, SelectSweep

(* A batch commits a run of each point, all of whose rows are there.         *)
PointRun(c, i) ==
  [by |-> c, text |-> asked[c].points[i].text, host |-> asked[c].host,
   workload |-> IF asked[c].op = "import" THEN ImportedWorkload(asked[c].points[i].traffic)
                ELSE Workload(asked[c].points[i].traffic),
   seq |-> i]
Commits(c) ==
  /\ asked[c].op \in {"import", "sweep"} /\ at'[c] = "committed" /\ over \subseteq over'
  /\ rows' = rows \cup draft[c].rows
  /\ runs' = runs \cup {PointRun(c, i) : i \in DOMAIN asked[c].points}
  /\ \A i \in DOMAIN asked[c].points :
       {Config(PointRun(c, i).text), PointRun(c, i).workload, Host(asked[c].host)} \subseteq rows'
  /\ DOMAIN parentOf \subseteq DOMAIN parentOf'
  /\ \A t \in DOMAIN parentOf' :
       parentOf'[t] = NoParent \/ (t \in DOMAIN parentOf /\ parentOf'[t] = parentOf[t])
  /\ UNCHANGED <<justified, inventory>>

LEMMA Committed ==
  ASSUME NEW c, NEW d, CommitSweep(c, d)
  PROVE  /\ rows' = rows \cup d.rows /\ runs' = runs \cup d.runs /\ over \subseteq over'
         /\ DOMAIN parentOf \subseteq DOMAIN parentOf'
         /\ \A t \in DOMAIN parentOf' :
              parentOf'[t] = NoParent \/ (t \in DOMAIN parentOf /\ parentOf'[t] = parentOf[t])
<1> DEFINE texts == {t \in {p.text : p \in Range(asked[c].points)} : Config(t) \in d.rows}
<1>1. /\ rows' = rows \cup d.rows /\ runs' = runs \cup d.runs /\ over \subseteq over'
      /\ parentOf' = [t \in DOMAIN parentOf \cup texts |-> IF t \in texts THEN NoParent ELSE parentOf[t]]
  BY DEF CommitSweep
<1> HIDE DEF texts
<1> QED
  BY <1>1

LEMMA SweepCommits ==
  ASSUME Shape, Knowledge, NEW c \in Caller, CreateRuns(c)
  PROVE  Commits(c)
<1> DEFINE q == asked[c]
           created == {[by |-> c, text |-> q.points[i].text, host |-> q.host,
                        workload |-> Workload(q.points[i].traffic), seq |-> i] : i \in DOMAIN q.points}
           d == [draft[c] EXCEPT !.runs = created]
<1>1. q.op = "sweep" /\ at[c] = "runs"
  BY DEF CreateRuns, Asks
<1>2. d.rows = draft[c].rows /\ d.runs = created
  BY DEF Shape, Empty
<1>3. CommitSweep(c, d) /\ Commit(c) /\ UNCHANGED <<justified, inventory>>
  BY Zenon DEF CreateRuns
<1>4. at'[c] = "committed"
  BY <1>3 DEF Commit, Goto, Shape
<1>5. created = {PointRun(c, i) : i \in DOMAIN q.points}
  BY <1>1 DEF PointRun
<1>6. /\ rows' = rows \cup draft[c].rows /\ runs' = runs \cup created /\ over \subseteq over'
      /\ DOMAIN parentOf \subseteq DOMAIN parentOf'
      /\ \A t \in DOMAIN parentOf' :
           parentOf'[t] = NoParent \/ (t \in DOMAIN parentOf /\ parentOf'[t] = parentOf[t])
  <2> HIDE DEF d, created
  <2> QED
    BY <1>2, <1>3, Committed
<1>7. ASSUME NEW i \in DOMAIN q.points
      PROVE  {Config(PointRun(c, i).text), PointRun(c, i).workload, Host(q.host)} \subseteq rows'
  <2>1. /\ Workload(q.points[i].traffic) \in rows /\ Host(q.host) \in rows
        /\ Config(q.points[i].text) \in rows \cup draft[c].rows
    BY <1>1 DEF Knowledge, SweepKnows
  <2> QED
    BY <2>1, <1>1, <1>6 DEF PointRun
<1> QED
  BY <1>1, <1>3, <1>4, <1>5, <1>6, <1>7 DEF Commits

LEMMA ImportCommits ==
  ASSUME Shape, Knowledge, NEW c \in Caller, ImportRun(c)
  PROVE  \/ IsLast(c) /\ Commits(c)
         \/ /\ ~IsLast(c) /\ at'[c] = "config" /\ UNCHANGED <<reply, tables>>
            /\ point'[c] = point[c] + 1 /\ draft'[c].rows = draft[c].rows
            /\ draft'[c].runs = draft[c].runs \cup {ImportedPoint(c, point[c])}
<1> DEFINE q == asked[c]
           d == [draft[c] EXCEPT !.runs = @ \cup {Imported(c)}]
<1>1. q.op = "import" /\ at[c] = "runs"
  BY DEF ImportRun, Asks
<1>2. d.rows = draft[c].rows /\ d.runs = draft[c].runs \cup {Imported(c)}
  BY DEF Shape, Empty
<1>3. Imported(c) = ImportedPoint(c, point[c])
  BY DEF Imported, ImportedPoint, This
<1>4. CASE ~IsLast(c)
  <2>1. /\ draft' = [draft EXCEPT ![c] = d] /\ point' = [point EXCEPT ![c] = @ + 1]
        /\ Goto(c, "config") /\ UNCHANGED <<rows, runs, over, parentOf, justified, inventory>>
    BY <1>4, Zenon DEF ImportRun
  <2>2. draft'[c] = d
    <3> HIDE DEF d
    <3> QED
      BY <2>1 DEF Shape
  <2>3. point'[c] = point[c] + 1 /\ at'[c] = "config" /\ UNCHANGED reply
    BY <2>1 DEF Goto, Shape
  <2> HIDE DEF d
  <2> QED
    BY <1>2, <1>3, <1>4, <2>1, <2>2, <2>3 DEF tables
<1>5. CASE IsLast(c)
  <2>1. CommitSweep(c, d) /\ Commit(c) /\ UNCHANGED <<justified, inventory>>
    BY <1>5, Zenon DEF ImportRun
  <2>2. at'[c] = "committed"
    BY <2>1 DEF Commit, Goto, Shape
  <2>3. /\ rows' = rows \cup draft[c].rows /\ over \subseteq over'
        /\ runs' = runs \cup (draft[c].runs \cup {ImportedPoint(c, point[c])})
        /\ DOMAIN parentOf \subseteq DOMAIN parentOf'
        /\ \A t \in DOMAIN parentOf' :
             parentOf'[t] = NoParent \/ (t \in DOMAIN parentOf /\ parentOf'[t] = parentOf[t])
    <3> HIDE DEF d
    <3> QED
      BY <1>2, <1>3, <2>1, Committed
  <2>4. /\ point[c] = Len(q.points) /\ DOMAIN q.points = 1..Len(q.points)
        /\ Len(q.points) \in Nat \ {0}
    BY <1>1, <1>5, Request DEF IsLast, IsRequest
  <2>5. /\ draft[c].runs = {ImportedPoint(c, i) : i \in 1..point[c] - 1}
        /\ Host(q.host) \in rows
        /\ \A i \in 1..point[c] : /\ Config(q.points[i].text) \in rows \cup draft[c].rows
                                  /\ ImportedWorkload(q.points[i].traffic) \in rows \cup draft[c].rows
    <3>1. ImportKnows(c)
      BY DEF Knowledge
    <3>2. \A i \in 1..point[c] : i < point[c] \/ at[c] = "runs"
      BY <1>1
    <3> QED
      BY <1>1, <3>1, <3>2 DEF ImportKnows, Importing
  <2>6. \A i : ImportedPoint(c, i) = PointRun(c, i)
    BY <1>1 DEF ImportedPoint, PointRun
  <2>7. draft[c].runs \cup {ImportedPoint(c, point[c])} = {PointRun(c, i) : i \in DOMAIN q.points}
    <3>1. 1..point[c] = (1..point[c] - 1) \cup {point[c]}
      BY <2>4
    <3> QED
      BY <2>4, <2>5, <2>6, <3>1
  <2>8. ASSUME NEW i \in DOMAIN q.points
        PROVE  {Config(PointRun(c, i).text), PointRun(c, i).workload, Host(q.host)} \subseteq rows'
    BY <1>1, <2>3, <2>4, <2>5 DEF PointRun
  <2> QED
    BY <1>1, <1>5, <2>1, <2>2, <2>3, <2>7, <2>8 DEF Commits
<1> QED
  BY <1>4, <1>5
LEMMA GrowsOf ==
  ASSUME Shape, Knowledge, NEW c \in Caller, Work(c) PROVE Grows(c)
<1>1. CASE UNCHANGED tables
  BY <1>1 DEF tables, Grows
<1>2. CASE InsertConfig(c)
  BY <1>2 DEF InsertConfig, Grows
<1>3. CASE InsertWorkload(c)
  BY <1>3 DEF InsertWorkload, Grows
<1>4. CASE Justify(c)
  BY <1>4, Zenon DEF Justify, Grows
<1>5. CASE InsertHost(c)
  BY <1>5 DEF InsertHost, Grows
<1>6. CASE InsertDevices(c)
  BY <1>6, Zenon DEF InsertDevices, Grows
<1>7. CASE DeleteHost(c)
  <2>1. UNCHANGED <<runs, over, parentOf>>
    BY <1>7 DEF DeleteHost
  <2>2. \A k \in rows \ rows' : /\ k = Host(asked[c].host) /\ ~Referenced(asked[c].host)
                               /\ ~\E d \in Caller : HoldsHost(d, asked[c].host)
    BY <1>7 DEF DeleteHost
  <2> QED
    BY <2>1, <2>2 DEF Grows
<1>8. CASE InsertRun(c)
  BY <1>8 DEF InsertRun, Grows
<1>9. CASE Commits(c)
  <2>1. \A i : PointRun(c, i).by = c
    BY DEF PointRun
  <2> QED
    BY <1>9, <2>1 DEF Commits, Grows
<1>10. CASE CancelSweep(c)
  BY <1>10 DEF CancelSweep, Grows
<1> QED
  BY <1>1, <1>2, <1>3, <1>4, <1>5, <1>6, <1>7, <1>8, <1>9, <1>10, Writers, SweepCommits, ImportCommits
(* The devices of an answer: as many as it numbers, and none of another one. *)
LEMMA DevicesOf ==
  ASSUME NEW n \in Nat, NEW c
  PROVE  /\ Cardinality(Devices(n, c)) = n
         /\ n = 0 => Devices(n, c) = {}
         /\ n # 0 => 0 \in Numbers(Devices(n, c))
         /\ \A m, d : d # c => Devices(n, c) \cap Devices(m, d) = {}
<1>1. n = 0 => Devices(n, c) = {}
  BY DEF Devices
<1>2. n # 0 => 0 \in Numbers(Devices(n, c))
  <2>1. n # 0 => <<0, c>> \in Devices(n, c)
    BY DEF Devices
  <2> QED
    BY <2>1 DEF Numbers
<1>3. \A m, d : d # c => Devices(n, c) \cap Devices(m, d) = {}
  BY DEF Devices
<1>4. Cardinality(Devices(n, c)) = n
  <2> DEFINE f == [i \in 0..n - 1 |-> <<i, c>>]
  <2>1. f \in Bijection(0..n - 1, Devices(n, c))
    <3>1. f \in [0..n - 1 -> Devices(n, c)]
      BY DEF Devices
    <3>2. \A i, j \in 0..n - 1 : f[i] = f[j] => i = j
      OBVIOUS
    <3>3. \A e \in Devices(n, c) : \E i \in 0..n - 1 : f[i] = e
      BY DEF Devices
    <3> HIDE DEF f
    <3> QED
      BY <3>1, <3>2, <3>3 DEF Bijection, Injection, Surjection, IsInjective
  <2>2. IsFiniteSet(0..n - 1) /\ Cardinality(0..n - 1) = n
    <3>1. 0 \in Int /\ n - 1 \in Int
      OBVIOUS
    <3>2. IsFiniteSet(0..n - 1) /\ Cardinality(0..n - 1) = IF 0 > n - 1 THEN 0 ELSE (n - 1) - 0 + 1
      BY <3>1, FS_Interval
    <3> QED
      BY <3>2
  <2> QED
    BY <2>1, <2>2, FS_Bijection DEF ExistsBijection
<1> QED
  BY <1>1, <1>2, <1>3, <1>4

(* A step replaces the inventory of a host by the answer to its request, or   *)
(* leaves the devices alone when the answer was that there are none.         *)
InventoryStep(c) ==
  \A h \in DOMAIN inventory' :
    \/ h \in DOMAIN inventory /\ inventory'[h] = inventory[h]
    \/ /\ asked[c].op \in {"register", "refresh"} /\ at'[c] = "committed"
       /\ \E n \in asked[c].gpus :
            /\ inventory'[h].count = n
            /\ \/ inventory'[h].devices = Devices(n, c)
               \/ /\ n = 0 /\ h \in DOMAIN inventory
                  /\ inventory'[h].devices = inventory[h].devices

LEMMA WithOne ==
  ASSUME NEW h, NEW n, NEW D, inventory' = With(h, n, D)
  PROVE  /\ DOMAIN inventory' = DOMAIN inventory \cup {h}
         /\ inventory'[h].count = n /\ inventory'[h].devices = D
         /\ \A g \in DOMAIN inventory \ {h} : inventory'[g] = inventory[g]
BY DEF With

LEMMA InventoryStepOf ==
  ASSUME Shape, Knowledge, HostsAgree, InventoryIsAnAnswer, NEW c \in Caller, Work(c)
  PROVE  InventoryStep(c) /\ HostsAgree'
<1>1. CASE UNCHANGED <<rows, inventory>>
  BY <1>1 DEF InventoryStep, HostsAgree
<1>2. ASSUME UNCHANGED inventory, rows \subseteq rows', \A k \in rows' \ rows : k[1] # "host"
      PROVE  InventoryStep(c) /\ HostsAgree'
  BY <1>2 DEF InventoryStep, HostsAgree
<1>3. CASE InsertConfig(c)
  BY <1>2, <1>3, Keys DEF InsertConfig
<1>4. CASE InsertWorkload(c)
  BY <1>2, <1>4, Keys DEF InsertWorkload
<1>5. CASE Commits(c)
  BY <1>2, <1>5 DEF Commits, Shape
<1>6. CASE InsertHost(c)
  <2> DEFINE h == asked[c].host  n == draft[c].found
  <2>1. n \in asked[c].gpus /\ asked[c].op = "register"
    <3>1. RefreshKnows(c)
      BY DEF Knowledge
    <3> QED
      BY <1>6, <3>1 DEF InsertHost, Asks, RefreshKnows
  <2>2. CASE Host(h) \notin rows
    <3>1. /\ rows' = rows \cup {Host(h)} /\ inventory' = With(h, n, Devices(n, c)) /\ Goto(c, "committed")
      BY <1>6, <2>2 DEF InsertHost
    <3>2. at'[c] = "committed"
      BY <3>1 DEF Goto, Shape
    <3>3. /\ DOMAIN inventory' = DOMAIN inventory \cup {h}
          /\ inventory'[h].count = n /\ inventory'[h].devices = Devices(n, c)
          /\ \A g \in DOMAIN inventory \ {h} : inventory'[g] = inventory[g]
      BY <3>1, WithOne
    <3>4. InventoryStep(c)
      BY <2>1, <3>2, <3>3 DEF InventoryStep
    <3>5. HostsAgree'
      BY <3>1, <3>3, Keys DEF HostsAgree
    <3> QED
      BY <3>4, <3>5
  <2> QED
    BY <1>1, <1>6, <2>2 DEF InsertHost
<1>7. CASE InsertDevices(c)
  <2> DEFINE h == asked[c].host  n == draft[c].found
             left == inventory[h].devices \ draft[c].seen
  <2>1. CASE ~(Host(h) \in rows /\ Numbers(left) \cap Numbers(Devices(n, c)) = {})
    <3>1. UNCHANGED <<rows, inventory>>
      BY <1>7, <2>1, Zenon DEF InsertDevices
    <3> QED
      BY <1>1, <3>1
  <2>2. CASE Host(h) \in rows /\ Numbers(left) \cap Numbers(Devices(n, c)) = {}
    <3>1. inventory' = With(h, n, left \cup Devices(n, c)) /\ Commit(c) /\ UNCHANGED rows
      BY <1>7, <2>2, Zenon DEF InsertDevices
    <3>2. at'[c] = "committed"
      BY <3>1 DEF Commit, Goto, Shape
    <3>3. h \in DOMAIN inventory
      BY <2>2, Keys DEF HostsAgree
    <3>4. /\ asked[c].op = "refresh" /\ n \in asked[c].gpus
          /\ draft[c].seen = inventory[h].devices \/ draft[c].seen \cap inventory[h].devices = {}
      <4>1. RefreshKnows(c)
        BY DEF Knowledge
      <4>2. asked[c].op = "refresh" /\ at[c] = "insert"
        BY <1>7 DEF InsertDevices, Asks
      <4> QED
        BY <3>3, <4>1, <4>2 DEF RefreshKnows
    <3>5. left \cup Devices(n, c) = Devices(n, c) \/ (n = 0 /\ left \cup Devices(n, c) = inventory[h].devices)
      <4>1. CASE draft[c].seen = inventory[h].devices
        BY <4>1
      <4>2. CASE draft[c].seen \cap inventory[h].devices = {}
        <5>1. left = inventory[h].devices
          BY <4>2
        <5>a. PICK e \in Handshaken : \E m \in asked[e].gpus : inventory[h].devices = Devices(m, e)
          BY <3>3 DEF InventoryIsAnAnswer
        <5>2. PICK m \in asked[e].gpus : inventory[h].devices = Devices(m, e)
          BY <5>a
        <5>3. m \in Nat /\ n \in Nat
          BY <3>4, Request DEF IsRequest, Handshaken
        <5>4. m = 0 \/ n = 0
          BY <2>2, <5>1, <5>2, <5>3, DevicesOf
        <5> HIDE DEF left
        <5> QED
          BY <5>1, <5>2, <5>3, <5>4, DevicesOf
      <4> QED
        BY <3>4, <4>1, <4>2
    <3>6. /\ DOMAIN inventory' = DOMAIN inventory \cup {h}
          /\ inventory'[h].count = n /\ inventory'[h].devices = left \cup Devices(n, c)
          /\ \A g \in DOMAIN inventory \ {h} : inventory'[g] = inventory[g]
      <4> HIDE DEF h, n, left
      <4> QED
        BY <3>1, WithOne
    <3>7. InventoryStep(c)
      <4> HIDE DEF h, n, left
      <4> QED
        BY <3>2, <3>3, <3>4, <3>5, <3>6 DEF InventoryStep
    <3>8. HostsAgree'
      <4> HIDE DEF h, n, left
      <4> QED
        BY <3>1, <3>3, <3>6 DEF HostsAgree
    <3> QED
      BY <3>7, <3>8
  <2> QED
    BY <2>1, <2>2
<1>8. CASE DeleteHost(c)
  <2> DEFINE h == asked[c].host
  <2>1. CASE rows' = rows \ {Host(h)} /\ inventory' = Without(h)
    <3>1. /\ DOMAIN inventory' = DOMAIN inventory \ {h}
          /\ \A g \in DOMAIN inventory \ {h} : inventory'[g] = inventory[g]
      BY <2>1 DEF Without, Restrict
    <3>2. InventoryStep(c)
      BY <3>1 DEF InventoryStep
    <3>3. HostsAgree'
      <4> HIDE DEF h
      <4> QED
        BY <2>1, <3>1, Keys DEF HostsAgree
    <3> QED
      BY <3>2, <3>3
  <2> QED
    BY <1>1, <1>8, <2>1 DEF DeleteHost
<1> QED
  BY <1>1, <1>3, <1>4, <1>5, <1>6, <1>7, <1>8, Writers, SweepCommits, ImportCommits
     DEF tables, Justify, InsertRun, CancelSweep
(* What stays: a row that is no host's, and the host somebody holds.         *)
LEMMA Stays ==
  ASSUME NEW c \in Caller, Grows(c)
  PROVE  /\ \A k \in rows : k[1] # "host" => k \in rows'
         /\ \A t : Config(t) \in rows => Config(t) \in rows'
         /\ \A w : Workload(w) \in rows => Workload(w) \in rows'
         /\ \A w : ImportedWorkload(w) \in rows => ImportedWorkload(w) \in rows'
         /\ \A h : \A d \in Caller : HoldsHost(d, h) /\ Host(h) \in rows => Host(h) \in rows'
<1>1. \A k \in rows : k[1] # "host" => k \in rows'
  BY Keys DEF Grows
<1>2. \A h : \A d \in Caller : HoldsHost(d, h) /\ Host(h) \in rows => Host(h) \in rows'
  BY Keys DEF Grows
<1> QED
  BY <1>1, <1>2, Keys

LEMMA HandshakenGrow ==
  ASSUME Shape, NEW c \in Caller, Frame(c)
  PROVE  /\ Handshaken \subseteq Handshaken' /\ c \notin Handshaken
         /\ at'[c] = "committed" /\ asked[c].op \in {"register", "refresh"} => c \in Handshaken'
BY DEF Frame, Handshaken

LEMMA OthersKnow ==
  ASSUME Shape, Knowledge, NEW c \in Caller, Frame(c), Grows(c), InventoryStep(c),
         NEW d \in Caller \ {c}
  PROVE  RequestKnows(d)' /\ RefreshKnows(d)' /\ ImportKnows(d)' /\ SweepKnows(d)'
<1>1. /\ RequestKnows(d) /\ RefreshKnows(d) /\ ImportKnows(d) /\ SweepKnows(d)
      /\ asked' = asked /\ at'[d] = at[d] /\ point'[d] = point[d] /\ draft'[d] = draft[d]
      /\ reply'[d] = reply[d]
  BY DEF Knowledge, Frame
<1>2. RequestKnows(d)'
  <2>1. runs \subseteq runs' /\ DOMAIN parentOf \subseteq DOMAIN parentOf'
    BY DEF Grows
  <2> QED
    BY <1>1, <2>1, Stays DEF RequestKnows, Asks
<1>3. RefreshKnows(d)'
  <2> DEFINE q == asked[d]  seen == draft[d].seen
  <2>1. q.op \in {"register", "refresh"} /\ at[d] \in {"insert", "flush"} => draft[d].found \in q.gpus
    BY <1>1 DEF RefreshKnows
  <2>2. ASSUME q.op = "refresh", at[d] \in {"handshake", "flush", "insert"}
        PROVE  /\ \E e \in Handshaken' : \E n \in asked[e].gpus : seen = Devices(n, e)
               /\ q.host \in DOMAIN inventory' =>
                    seen = inventory'[q.host].devices \/ seen \cap inventory'[q.host].devices = {}
    <3>1. PICK e \in Handshaken : \E n \in asked[e].gpus : seen = Devices(n, e)
      BY <1>1, <2>2 DEF RefreshKnows
    <3>2. PICK n \in asked[e].gpus : seen = Devices(n, e)
      BY <3>1
    <3>3. e \in Handshaken' /\ e # c
      BY HandshakenGrow
    <3>4. n \in Nat
      BY <3>2, Request DEF Handshaken, IsRequest
    <3>5. q.host \in DOMAIN inventory =>
            seen = inventory[q.host].devices \/ seen \cap inventory[q.host].devices = {}
      BY <1>1, <2>2 DEF RefreshKnows
    <3>6. ASSUME q.host \in DOMAIN inventory'
          PROVE  seen = inventory'[q.host].devices \/ seen \cap inventory'[q.host].devices = {}
      <4>1. CASE q.host \in DOMAIN inventory /\ inventory'[q.host].devices = inventory[q.host].devices
        BY <3>5, <4>1
      <4>2. CASE \E m \in asked[c].gpus : inventory'[q.host].devices = Devices(m, c)
        BY <3>2, <3>3, <3>4, <4>2, DevicesOf
      <4> QED
        BY <3>6, <4>1, <4>2 DEF InventoryStep
    <3> QED
      BY <3>2, <3>3, <3>6
  <2> QED
    BY <1>1, <2>1, <2>2 DEF RefreshKnows
<1>4. ImportKnows(d)'
  <2>1. asked[d].op = "import" /\ Importing(d) /\ Host(asked[d].host) \in rows => Host(asked[d].host) \in rows'
    BY Stays DEF HoldsHost
  <2>2. \A i : ImportedPoint(d, i)' = ImportedPoint(d, i)
    BY <1>1 DEF ImportedPoint
  <2>3. Importing(d)' <=> Importing(d)
    BY <1>1 DEF Importing
  <2> SUFFICES ASSUME asked[d].op = "import" PROVE ImportKnows(d)'
    BY <1>1 DEF ImportKnows
  <2>5. CASE at[d] \in {"committed", "answered"}
    BY <1>1, <2>5 DEF ImportKnows
  <2>6. CASE at[d] \notin {"committed", "answered"}
    <3>1. /\ point[d] \in DOMAIN asked[d].points
          /\ draft[d].runs = {ImportedPoint(d, i) : i \in 1..point[d] - 1}
          /\ Importing(d) => Host(asked[d].host) \in rows
      BY <1>1, <2>6 DEF ImportKnows
    <3>2. draft[d].runs = {ImportedPoint(d, i)' : i \in 1..point[d] - 1}
      BY <2>2, <3>1
    <3>3. ASSUME NEW i \in 1..point[d]
          PROVE  /\ i < point[d] \/ at[d] \in {"workload", "workload insert", "runs"} =>
                      Config(asked[d].points[i].text) \in rows' \cup draft[d].rows
                 /\ i < point[d] \/ at[d] = "runs" =>
                      ImportedWorkload(asked[d].points[i].traffic) \in rows' \cup draft[d].rows
      BY <1>1, <2>6, Stays DEF ImportKnows
    <3> QED
      BY <1>1, <2>1, <2>3, <2>6, <3>1, <3>2, <3>3 DEF ImportKnows
  <2> QED
    BY <2>5, <2>6
<1>5. SweepKnows(d)'
  <2>1. asked[d].op = "sweep" /\ at[d] = "runs" /\ Host(asked[d].host) \in rows => Host(asked[d].host) \in rows'
    BY Stays DEF HoldsHost, Asks
  <2> QED
    BY <1>1, <2>1, Stays DEF SweepKnows
<1> QED
  BY <1>2, <1>3, <1>4, <1>5
(* The steps of each operation.                                              *)
BatchStep(c) ==
  \/ SelectRow(c) \/ FlushRow(c) \/ FlushSweep(c) \/ BreakDeadlock(c)
LEMMA StepsOf ==
  ASSUME NEW c \in Caller, Work(c)
  PROVE  /\ asked[c].op = "config" => SelectConfig(c) \/ SelectParent(c) \/ InsertConfig(c)
         /\ asked[c].op = "workload" => SelectWorkload(c) \/ InsertWorkload(c)
         /\ asked[c].op = "annotate" => SelectJustification(c) \/ Justify(c)
         /\ asked[c].op = "register" => HandshakeToRegister(c) \/ InsertHost(c)
         /\ asked[c].op = "refresh" => SelectToRefresh(c) \/ HandshakeToRefresh(c) \/ FlushDevices(c) \/ InsertDevices(c)
         /\ asked[c].op = "delete" => SelectHost(c) \/ DeleteHost(c)
         /\ asked[c].op = "run" => SelectForRun(c) \/ InsertRun(c)
         /\ asked[c].op = "import" => BeginImport(c) \/ BatchStep(c) \/ RefuseResult(c) \/ ImportRun(c)
         /\ asked[c].op = "sweep" => BeginSweep(c) \/ BatchStep(c) \/ CreateRuns(c)
         /\ asked[c].op = "cancel" => SelectSweep(c) \/ CancelSweep(c)
<1>1. SelectConfig(c) \/ SelectParent(c) \/ InsertConfig(c) => asked[c].op = "config"
  BY DEF Asks, SelectConfig, SelectParent, InsertConfig
<1>2. SelectWorkload(c) \/ InsertWorkload(c) => asked[c].op = "workload"
  BY DEF Asks, SelectWorkload, InsertWorkload
<1>3. SelectJustification(c) \/ Justify(c) => asked[c].op = "annotate"
  BY DEF Asks, SelectJustification, Justify
<1>4. HandshakeToRegister(c) \/ InsertHost(c) => asked[c].op = "register"
  BY DEF Asks, HandshakeToRegister, InsertHost
<1>5. SelectToRefresh(c) \/ HandshakeToRefresh(c) \/ FlushDevices(c) \/ InsertDevices(c) => asked[c].op = "refresh"
  BY DEF Asks, SelectToRefresh, HandshakeToRefresh, FlushDevices, InsertDevices
<1>6. SelectHost(c) \/ DeleteHost(c) => asked[c].op = "delete"
  BY DEF Asks, SelectHost, DeleteHost
<1>7. SelectForRun(c) \/ InsertRun(c) => asked[c].op = "run"
  BY DEF Asks, SelectForRun, InsertRun
<1>8. BatchStep(c) => asked[c].op \in {"import", "sweep"}
  BY Zenon DEF BatchStep, SelectRow, FlushRow, FlushSweep, BreakDeadlock
<1>9. BeginImport(c) \/ RefuseResult(c) \/ ImportRun(c) => asked[c].op = "import"
  BY DEF Asks, BeginImport, RefuseResult, ImportRun
<1>10. BeginSweep(c) \/ CreateRuns(c) => asked[c].op = "sweep"
  BY DEF Asks, BeginSweep, CreateRuns
<1>11. SelectSweep(c) \/ CancelSweep(c) => asked[c].op = "cancel"
  BY DEF Asks, SelectSweep, CancelSweep
<1> QED
  BY <1>1, <1>2, <1>3, <1>4, <1>5, <1>6, <1>7, <1>8, <1>9, <1>10, <1>11 DEF Work, BatchStep

LEMMA OwnRequest ==
  ASSUME Shape, Knowledge, NEW c \in Caller, Work(c), Frame(c)
  PROVE  RequestKnows(c)'
<1> USE DEF Shape
<1>1. asked' = asked
  BY DEF Frame
<1>2. CASE asked[c].op \notin {"config", "annotate", "run"}
  BY <1>1, <1>2 DEF RequestKnows, Asks
<1>3. CASE at'[c] \in {"committed", "answered"}
  BY <1>1, <1>3 DEF RequestKnows, Asks
<1>4. CASE asked[c].op = "config"
  <2>1. CASE SelectConfig(c)
    <3>1. /\ at'[c] = "insert" => asked[c].parent = NoParent
          /\ UNCHANGED parentOf
      BY <2>1 DEF SelectConfig, Asks, Goto, Done, tables
    <3> QED
      BY <1>1, <1>4, <3>1 DEF RequestKnows, Asks
  <2>2. CASE SelectParent(c)
    <3>1. /\ at'[c] = "insert" => asked[c].parent \in DOMAIN parentOf
          /\ UNCHANGED parentOf
      BY <2>2 DEF SelectParent, Asks, Goto, Done, tables
    <3> QED
      BY <1>1, <1>4, <3>1 DEF RequestKnows, Asks
  <2>3. CASE InsertConfig(c)
    BY <1>3, <2>3 DEF InsertConfig, Done, Goto
  <2> QED
    BY <1>4, <2>1, <2>2, <2>3, StepsOf
<1>5. CASE asked[c].op = "annotate"
  <2>1. CASE SelectJustification(c)
    <3>1. /\ at'[c] # "answered" /\ ~asked[c].clear =>
               \E r \in runs : r.by = asked[c].run /\ r.text = asked[c].text
          /\ UNCHANGED runs
      BY <2>1 DEF SelectJustification, Asks, Goto, Done, tables
    <3> QED
      BY <1>1, <1>5, <3>1 DEF RequestKnows, Asks
  <2>2. CASE Justify(c)
    <3>1. Goto(c, "committed") \/ Done(c, "error")
      BY <2>2, Zenon DEF Justify
    <3> QED
      BY <1>3, <3>1 DEF Done, Goto
  <2> QED
    BY <1>5, <2>1, <2>2, StepsOf
<1>6. CASE asked[c].op = "run"
  <2>1. CASE SelectForRun(c)
    <3>1. /\ at'[c] = "insert" =>
               {Config(asked[c].text), Workload(asked[c].traffic)} \subseteq rows
          /\ UNCHANGED rows
      BY <2>1 DEF SelectForRun, Asks, Goto, Done, tables
    <3> QED
      BY <1>1, <1>6, <3>1 DEF RequestKnows, Asks
  <2>2. CASE InsertRun(c)
    BY <1>3, <2>2 DEF InsertRun, Done, Goto
  <2> QED
    BY <1>6, <2>1, <2>2, StepsOf
<1> QED
  BY <1>2, <1>4, <1>5, <1>6

LEMMA OwnRefresh ==
  ASSUME Shape, HostsAgree, InventoryIsAnAnswer, Knowledge, NEW c \in Caller, Work(c), Frame(c)
  PROVE  RefreshKnows(c)'
<1> USE DEF Shape, Empty
<1>1. asked' = asked /\ Handshaken \subseteq Handshaken'
  BY HandshakenGrow DEF Frame
<1>2. CASE asked[c].op \notin {"register", "refresh"}
  BY <1>1, <1>2 DEF RefreshKnows
<1>3. CASE at'[c] \in {"committed", "answered"}
  BY <1>1, <1>3 DEF RefreshKnows
<1>4. CASE asked[c].op = "register"
  <2>1. CASE HandshakeToRegister(c)
    <3>1. at'[c] # "answered" => draft'[c].found \in asked[c].gpus
      BY <2>1 DEF HandshakeToRegister, Answers, Goto, Done
    <3> QED
      BY <1>1, <1>4, <3>1 DEF RefreshKnows
  <2>2. CASE InsertHost(c)
    BY <1>3, <2>2 DEF InsertHost, Done, Goto
  <2> QED
    BY <1>4, <2>1, <2>2, StepsOf
<1>5. CASE asked[c].op = "refresh"
  <2>1. CASE SelectToRefresh(c)
    <3>1. /\ at'[c] # "answered" => /\ Host(asked[c].host) \in rows /\ at'[c] = "handshake"
                                   /\ draft'[c].seen = inventory[asked[c].host].devices
          /\ UNCHANGED inventory
      BY <2>1 DEF SelectToRefresh, Goto, Done, tables
    <3>2. Host(asked[c].host) \in rows => asked[c].host \in DOMAIN inventory
      BY Keys DEF HostsAgree
    <3> QED
      BY <1>1, <1>5, <3>1, <3>2 DEF RefreshKnows, InventoryIsAnAnswer
  <2>2. CASE HandshakeToRefresh(c)
    <3>1. /\ at[c] = "handshake" /\ UNCHANGED inventory
          /\ at'[c] # "answered" => /\ at'[c] \in {"insert", "flush"}
                                   /\ draft'[c].found \in asked[c].gpus
                                   /\ draft'[c].seen = draft[c].seen
      BY <2>2 DEF HandshakeToRefresh, Answers, Asks, Goto, Done, tables
    <3>2. RefreshKnows(c)
      BY DEF Knowledge
    <3> QED
      BY <1>1, <1>5, <3>1, <3>2 DEF RefreshKnows
  <2>3. CASE FlushDevices(c)
    <3>1. /\ at[c] = "flush" /\ UNCHANGED inventory
          /\ at'[c] # "answered" => at'[c] = "insert" /\ UNCHANGED draft
      BY <2>3 DEF FlushDevices, RollBack, Asks, Goto, Done, tables
    <3>2. RefreshKnows(c)
      BY DEF Knowledge
    <3> QED
      BY <1>1, <1>5, <3>1, <3>2 DEF RefreshKnows
  <2>4. CASE InsertDevices(c)
    <3>1. Commit(c) \/ RollBack(c, "error")
      BY <2>4, Zenon DEF InsertDevices
    <3> QED
      BY <1>3, <3>1 DEF RollBack, Done, Commit, Goto
  <2> QED
    BY <1>5, <2>1, <2>2, <2>3, <2>4, StepsOf
<1> QED
  BY <1>2, <1>4, <1>5
(* A point whose row is there is left for the next row or the next point.    *)
Moves(c) ==
  \/ asked[c].op = "import" /\ AtConfig(c) /\ at'[c] = "workload" /\ point'[c] = point[c]
  \/ asked[c].op = "import" /\ ~AtConfig(c) /\ at'[c] = "runs" /\ point'[c] = point[c]
  \/ asked[c].op = "sweep" /\ IsLast(c) /\ at'[c] = "sweep" /\ point'[c] = point[c]
  \/ asked[c].op = "sweep" /\ ~IsLast(c) /\ at'[c] = "config" /\ point'[c] = point[c] + 1

LEMMA RowSelected ==
  ASSUME Shape, NEW c \in Caller, SelectRow(c)
  PROVE  /\ asked[c].op \in {"import", "sweep"} /\ at[c] \in {"config", "workload"}
         /\ UNCHANGED <<rows, reply, draft>>
         /\ \/ Wanted(c) \in rows \cup draft[c].rows /\ Moves(c)
            \/ /\ at'[c] = IF AtConfig(c) THEN "config insert" ELSE "workload insert"
               /\ point'[c] = point[c]
<1>1. /\ asked[c].op \in {"import", "sweep"} /\ at[c] \in {"config", "workload"}
      /\ UNCHANGED <<rows, draft>>
  BY DEF SelectRow, tables
<1>2. CASE Wanted(c) \in rows \cup draft[c].rows
  <2>1. HasRow(c)
    BY <1>2, Zenon DEF SelectRow
  <2> QED
    BY <1>1, <1>2, <2>1, Moved DEF Moves
<1>3. CASE Wanted(c) \notin rows \cup draft[c].rows
  <2>1. Goto(c, IF AtConfig(c) THEN "config insert" ELSE "workload insert") /\ UNCHANGED point
    BY <1>3, Zenon DEF SelectRow
  <2> QED
    BY <1>1, <2>1 DEF Goto, Shape
<1> QED
  BY <1>2, <1>3

LEMMA RowFlushed ==
  ASSUME Shape, NEW c \in Caller, FlushRow(c)
  PROVE  /\ asked[c].op \in {"import", "sweep"} /\ at[c] \in {"config insert", "workload insert"}
         /\ UNCHANGED rows
         /\ \/ at'[c] = "answered" /\ reply'[c] = "error"
            \/ /\ UNCHANGED reply /\ Moves(c)
               /\ draft'[c].rows = draft[c].rows \cup {Wanted(c)} /\ draft'[c].runs = draft[c].runs
<1>1. /\ asked[c].op \in {"import", "sweep"} /\ at[c] \in {"config insert", "workload insert"}
      /\ UNCHANGED rows
  BY DEF FlushRow, tables
<1>2. CASE Wanted(c) \in rows
  <2>1. RollBack(c, "error")
    BY <1>2, Zenon DEF FlushRow
  <2> QED
    BY <1>1, <2>1 DEF RollBack, Done, Shape
<1>3. CASE Wanted(c) \notin rows
  <2>1. draft' = [draft EXCEPT ![c].rows = @ \cup {Wanted(c)}] /\ HasRow(c)
    BY <1>3, Zenon DEF FlushRow
  <2>2. draft'[c].rows = draft[c].rows \cup {Wanted(c)} /\ draft'[c].runs = draft[c].runs
    BY <2>1 DEF Shape, Empty
  <2> QED
    BY <1>1, <2>1, <2>2, Moved DEF Moves
<1> QED
  BY <1>2, <1>3

LEMMA SweepFlushed ==
  ASSUME Shape, NEW c \in Caller, FlushSweep(c)
  PROVE  /\ asked[c].op \in {"import", "sweep"} /\ at[c] = "sweep" /\ UNCHANGED <<rows, point>>
         /\ \/ at'[c] = "answered" /\ reply'[c] = "error"
            \/ /\ at'[c] = IF asked[c].op = "import" THEN "config" ELSE "runs"
               /\ Host(asked[c].host) \in rows /\ UNCHANGED <<draft, reply>>
BY DEF FlushSweep, RollBack, Goto, Done, Shape, tables

LEMMA OwnImport ==
  ASSUME Shape, Knowledge, NEW c \in Caller, asked[c].op = "import", Work(c), Frame(c)
  PROVE  ImportKnows(c)'
<1> DEFINE q == asked[c]
<1>1. asked' = asked
  BY DEF Frame
<1>2. /\ at[c] \notin {"committed", "answered"} /\ reply[c] = "none"
      /\ point[c] \in DOMAIN q.points
      /\ draft[c].runs = {ImportedPoint(c, i) : i \in 1..point[c] - 1}
      /\ \A i \in 1..point[c] :
           /\ i < point[c] \/ at[c] \in {"workload", "workload insert", "runs"} =>
                Config(q.points[i].text) \in rows \cup draft[c].rows
           /\ i < point[c] \/ at[c] = "runs" =>
                ImportedWorkload(q.points[i].traffic) \in rows \cup draft[c].rows
      /\ Importing(c) => Host(q.host) \in rows
  <2>1. ImportKnows(c) /\ at[c] \notin {"committed", "answered"} /\ reply[c] = "none"
    BY DEF Knowledge, Frame
  <2> QED
    BY <2>1 DEF ImportKnows
<1>3. /\ DOMAIN q.points = 1..Len(q.points) /\ Len(q.points) \in Nat \ {0}
      /\ point[c] \in 1..Len(q.points)
  BY <1>2, Request DEF IsRequest
<1>4. ASSUME at'[c] \in {"committed", "answered"} PROVE ImportKnows(c)'
  BY <1>1, <1>4 DEF ImportKnows
<1>5. \A i : ImportedPoint(c, i)' = ImportedPoint(c, i)
  BY <1>1 DEF ImportedPoint
<1>6. ASSUME rows' = rows, reply' = reply, draft[c].rows \subseteq draft'[c].rows,
             draft'[c].runs = draft[c].runs, point'[c] = point[c],
             Importing(c)' => Importing(c) \/ Host(q.host) \in rows,
             at'[c] \in {"workload", "workload insert", "runs"} /\ at[c] \notin {"workload", "workload insert", "runs"} =>
               Config(q.points[point[c]].text) \in rows \cup draft'[c].rows,
             at'[c] = "runs" /\ at[c] # "runs" =>
               ImportedWorkload(q.points[point[c]].traffic) \in rows \cup draft'[c].rows
      PROVE  ImportKnows(c)'
  <2>1. draft'[c].runs = {ImportedPoint(c, i)' : i \in 1..point'[c] - 1}
    <3>1. /\ draft'[c].runs = draft[c].runs /\ point'[c] = point[c]
          /\ draft[c].runs = {ImportedPoint(c, i) : i \in 1..point[c] - 1}
      BY <1>2, <1>6, Zenon
    <3>2. \A S : {ImportedPoint(c, i)' : i \in S} = {ImportedPoint(c, i) : i \in S}
      BY <1>5
    <3> QED
      BY <3>1, <3>2, Zenon
  <2>2. ASSUME NEW i \in 1..point'[c]
        PROVE  /\ i < point'[c] \/ at'[c] \in {"workload", "workload insert", "runs"} =>
                    Config(q.points[i].text) \in rows' \cup draft'[c].rows
               /\ i < point'[c] \/ at'[c] = "runs" =>
                    ImportedWorkload(q.points[i].traffic) \in rows' \cup draft'[c].rows
    <3>1. i \in 1..point[c] /\ (i < point[c] \/ i = point[c])
      <4>1. point'[c] = point[c]
        BY <1>6, Zenon
      <4>2. point[c] \in Nat
        BY <1>3
      <4> QED
        BY <4>1, <4>2
    <3> QED
      BY <1>2, <1>6, <3>1
  <2>3. Importing(c)' => Host(q.host) \in rows'
    BY <1>2, <1>6
  <2> QED
    BY <1>1, <1>2, <1>6, <2>1, <2>2, <2>3 DEF ImportKnows
<1>7. AtConfig(c) <=> at[c] \in {"config", "config insert"}
  BY DEF AtConfig
<1>8. Wanted(c) = IF AtConfig(c) THEN Config(q.points[point[c]].text)
                  ELSE ImportedWorkload(q.points[point[c]].traffic)
  BY DEF Wanted, This
<1>9. CASE BeginImport(c)
  <2>1. \/ at'[c] = "answered" /\ reply'[c] = "refused"
        \/ at'[c] = "sweep" /\ UNCHANGED <<reply, rows, draft, point>>
    BY <1>9 DEF BeginImport, Goto, Done, Shape, tables, transaction
  <2> QED
    BY <1>4, <1>6, <2>1 DEF Importing
<1>10. CASE SelectRow(c)
  <2>1. CASE Wanted(c) \in rows \cup draft[c].rows /\ Moves(c)
    BY <1>6, <1>7, <1>8, <1>10, <2>1, RowSelected DEF Importing, Moves
  <2>2. CASE /\ at'[c] = IF AtConfig(c) THEN "config insert" ELSE "workload insert"
             /\ point'[c] = point[c]
    BY <1>6, <1>7, <1>10, <2>2, RowSelected DEF Importing
  <2> QED
    BY <1>10, <2>1, <2>2, RowSelected
<1>11. CASE FlushRow(c)
  <2>1. CASE at'[c] = "answered" /\ reply'[c] = "error"
    BY <1>4, <2>1
  <2>2. CASE /\ UNCHANGED reply /\ Moves(c)
             /\ draft'[c].rows = draft[c].rows \cup {Wanted(c)} /\ draft'[c].runs = draft[c].runs
    BY <1>6, <1>7, <1>8, <1>11, <2>2, RowFlushed DEF Importing, Moves
  <2> QED
    BY <1>11, <2>1, <2>2, RowFlushed
<1>12. CASE FlushSweep(c)
  BY <1>4, <1>6, <1>12, SweepFlushed DEF Importing
<1>13. CASE BreakDeadlock(c) \/ RefuseResult(c)
  <2>1. RollBack(c, "error") \/ RollBack(c, "refused")
    BY <1>13, Zenon DEF BreakDeadlock, RefuseResult
  <2> QED
    BY <1>4, <2>1 DEF RollBack, Done, Shape
<1>14. CASE ImportRun(c)
  <2>1. CASE Commits(c)
    BY <1>4, <2>1 DEF Commits
  <2>2. CASE /\ ~IsLast(c) /\ at'[c] = "config" /\ UNCHANGED <<reply, tables>>
             /\ point'[c] = point[c] + 1 /\ draft'[c].rows = draft[c].rows
             /\ draft'[c].runs = draft[c].runs \cup {ImportedPoint(c, point[c])}
    <3>1. at[c] = "runs"
      BY <1>14 DEF ImportRun, Asks
    <3>2. point'[c] \in 1..Len(q.points) /\ 1..point'[c] - 1 = (1..point[c] - 1) \cup {point[c]}
      <4>1. point[c] # Len(q.points) /\ point'[c] = point[c] + 1
        BY <2>2 DEF IsLast
      <4>2. \A n, m \in Nat : n \in 1..m /\ n # m => n + 1 \in 1..m /\ 1..(n + 1) - 1 = (1..n - 1) \cup {n}
        OBVIOUS
      <4> QED
        BY <1>3, <4>1, <4>2
    <3>3. draft'[c].runs = {ImportedPoint(c, i)' : i \in 1..point'[c] - 1}
      <4>1. draft'[c].runs = {ImportedPoint(c, i) : i \in 1..point[c] - 1} \cup {ImportedPoint(c, point[c])}
        BY <1>2, <2>2
      <4>2. draft'[c].runs = {ImportedPoint(c, i) : i \in (1..point[c] - 1) \cup {point[c]}}
        BY <4>1
      <4> QED
        BY <1>5, <3>2, <4>2
    <3>4. rows' = rows /\ reply' = reply
      BY <2>2 DEF tables
    <3>5. ASSUME NEW i \in 1..point'[c], i < point'[c]
          PROVE  /\ Config(q.points[i].text) \in rows' \cup draft'[c].rows
                 /\ ImportedWorkload(q.points[i].traffic) \in rows' \cup draft'[c].rows
      <4>1. i \in 1..point[c]
        BY <1>3, <2>2, <3>5
      <4> QED
        BY <1>2, <2>2, <3>1, <3>4, <4>1
    <3>6. Host(q.host) \in rows'
      BY <1>2, <3>1, <3>4 DEF Importing
    <3> QED
      BY <1>1, <1>2, <1>3, <2>2, <3>2, <3>3, <3>4, <3>5, <3>6 DEF ImportKnows
  <2> QED
    BY <1>14, <2>1, <2>2, ImportCommits
<1> QED
  BY <1>9, <1>10, <1>11, <1>12, <1>13, <1>14, StepsOf DEF BatchStep
LEMMA OwnSweep ==
  ASSUME Shape, Knowledge, NEW c \in Caller, asked[c].op = "sweep", Work(c), Frame(c)
  PROVE  SweepKnows(c)'
<1> DEFINE q == asked[c]
<1>1. asked' = asked
  BY DEF Frame
<1>2. /\ at[c] \in {"select", "config", "config insert", "sweep", "runs"} /\ reply[c] = "none"
      /\ point[c] \in DOMAIN q.points
      /\ at[c] # "select" => \A i \in DOMAIN q.points : Workload(q.points[i].traffic) \in rows
      /\ \A i \in DOMAIN q.points :
           i < point[c] \/ at[c] \in {"sweep", "runs"} =>
             Config(q.points[i].text) \in rows \cup draft[c].rows
      /\ at[c] = "runs" => Host(q.host) \in rows
  <2>1. SweepKnows(c) /\ at[c] \notin {"committed", "answered"} /\ reply[c] = "none"
    BY DEF Knowledge, Frame
  <2> QED
    BY <2>1 DEF SweepKnows
<1>3. /\ DOMAIN q.points = 1..Len(q.points) /\ Len(q.points) \in Nat \ {0}
      /\ point[c] \in 1..Len(q.points) /\ point[c] \in Nat
  <2>1. DOMAIN q.points = 1..Len(q.points) /\ Len(q.points) \in Nat \ {0}
    BY Request DEF IsRequest
  <2>2. point[c] \in 1..Len(q.points)
    BY <1>2, <2>1
  <2> QED
    BY <2>1, <2>2
<1>4. ASSUME at'[c] \in {"committed", "answered"} PROVE SweepKnows(c)'
  BY <1>1, <1>4 DEF SweepKnows
<1>5. ASSUME rows' = rows, reply' = reply, draft[c].rows \subseteq draft'[c].rows,
             at'[c] \in {"config", "config insert", "sweep", "runs"},
             point'[c] \in DOMAIN q.points,
             \A i \in DOMAIN q.points : Workload(q.points[i].traffic) \in rows,
             \A i \in DOMAIN q.points :
               i < point'[c] \/ at'[c] \in {"sweep", "runs"} =>
                 i < point[c] \/ at[c] \in {"sweep", "runs"}
                 \/ Config(q.points[i].text) \in rows \cup draft'[c].rows,
             at'[c] = "runs" => Host(q.host) \in rows
      PROVE  SweepKnows(c)'
  <2>1. ASSUME NEW i \in DOMAIN q.points, i < point'[c] \/ at'[c] \in {"sweep", "runs"}
        PROVE  Config(q.points[i].text) \in rows' \cup draft'[c].rows
    BY <1>2, <1>5, <2>1
  <2> QED
    BY <1>1, <1>2, <1>5, <2>1 DEF SweepKnows
<1>6. AtConfig(c) <=> at[c] \in {"config", "config insert"}
  BY DEF AtConfig
<1>7. AtConfig(c) => Wanted(c) = Config(q.points[point[c]].text)
  BY DEF Wanted, This
<1>8. ASSUME at[c] \in {"config", "config insert"}, Moves(c), rows' = rows, reply' = reply,
             draft[c].rows \subseteq draft'[c].rows, Wanted(c) \in rows \cup draft'[c].rows
      PROVE  SweepKnows(c)'
  <2>1. Config(q.points[point[c]].text) \in rows \cup draft'[c].rows
    BY <1>6, <1>7, <1>8
  <2>2. \/ point[c] = Len(q.points) /\ at'[c] = "sweep" /\ point'[c] = point[c]
        \/ point[c] # Len(q.points) /\ at'[c] = "config" /\ point'[c] = point[c] + 1
    BY <1>8 DEF Moves, IsLast
  <2>3. point'[c] \in DOMAIN q.points
    BY <1>3, <2>2
  <2>4. ASSUME NEW i \in DOMAIN q.points, i < point'[c] \/ at'[c] \in {"sweep", "runs"}
        PROVE  i < point[c] \/ i = point[c]
    BY <1>3, <2>2, <2>4
  <2> QED
    BY <1>2, <1>5, <1>8, <2>1, <2>2, <2>3, <2>4
<1>9. CASE BeginSweep(c)
  <2>1. CASE Done(c, "refused")
    BY <1>4, <2>1 DEF Done, Shape
  <2>2. CASE ~Done(c, "refused")
    <3> DEFINE axes == UNION {{Config(p.base), Workload(p.traffic)} : p \in Range(q.points)}
    <3>1. /\ axes \cup {Host(q.host)} \subseteq rows
          /\ Goto(c, "config") /\ UNCHANGED <<tables, transaction>> /\ Asks(c, "sweep", "select")
      BY <1>9, <2>2 DEF BeginSweep
    <3>2. \A i \in DOMAIN q.points : Workload(q.points[i].traffic) \in rows
      <4>1. \A i \in DOMAIN q.points : q.points[i] \in Range(q.points)
        BY DEF Range
      <4>2. \A p \in Range(q.points) : Workload(p.traffic) \in axes
        OBVIOUS
      <4> HIDE DEF axes
      <4> QED
        BY <3>1, <4>1, <4>2
    <3>3. at'[c] = "config" /\ at[c] = "select" /\ UNCHANGED <<rows, reply, draft, point>>
      BY <3>1 DEF Goto, Asks, Shape, tables, transaction
    <3> QED
      BY <1>2, <1>5, <3>2, <3>3
  <2> QED
    BY <2>1, <2>2
<1>10. CASE SelectRow(c)
  <2>1. at[c] = "config" /\ UNCHANGED <<rows, reply, draft>>
    BY <1>2, <1>10, RowSelected
  <2>2. CASE Wanted(c) \in rows \cup draft[c].rows /\ Moves(c)
    BY <1>8, <2>1, <2>2
  <2>3. CASE at'[c] = "config insert" /\ point'[c] = point[c]
    BY <1>2, <1>5, <2>1, <2>3
  <2> QED
    BY <1>6, <1>10, <2>1, <2>2, <2>3, RowSelected
<1>11. CASE FlushRow(c)
  <2>1. at[c] = "config insert" /\ UNCHANGED rows
    BY <1>2, <1>11, RowFlushed
  <2>2. CASE at'[c] = "answered" /\ reply'[c] = "error"
    BY <1>4, <2>2
  <2>3. CASE /\ UNCHANGED reply /\ Moves(c)
             /\ draft'[c].rows = draft[c].rows \cup {Wanted(c)} /\ draft'[c].runs = draft[c].runs
    BY <1>8, <2>1, <2>3
  <2> QED
    BY <1>11, <2>2, <2>3, RowFlushed
<1>12. CASE FlushSweep(c)
  <2>1. at[c] = "sweep" /\ UNCHANGED <<rows, point>>
    BY <1>12, SweepFlushed
  <2>2. CASE at'[c] = "answered" /\ reply'[c] = "error"
    BY <1>4, <2>2
  <2>3. CASE at'[c] = "runs" /\ Host(q.host) \in rows /\ UNCHANGED <<draft, reply>>
    BY <1>2, <1>5, <2>1, <2>3
  <2> QED
    BY <1>12, <2>2, <2>3, SweepFlushed
<1>13. CASE BreakDeadlock(c)
  BY <1>4, <1>13 DEF BreakDeadlock, RollBack, Done, Shape
<1>14. CASE CreateRuns(c)
  BY <1>4, <1>14, SweepCommits DEF Commits
<1> QED
  BY <1>9, <1>10, <1>11, <1>12, <1>13, <1>14, StepsOf DEF BatchStep

(* What the requests know is kept by every step of a handler.                *)
LEMMA KnowledgeKept ==
  ASSUME Shape, HostsAgree, InventoryIsAnAnswer, Knowledge, NEW c \in Caller, Work(c)
  PROVE  /\ Shape' /\ HostsAgree' /\ InventoryIsAnAnswer' /\ Knowledge'
<1>1. Frame(c) /\ Grows(c) /\ InventoryStep(c) /\ HostsAgree'
  BY FrameOf, GrowsOf, InventoryStepOf
<1>2. Shape'
  BY <1>1 DEF Frame, Shape
<1>3. InventoryIsAnAnswer'
  <2> SUFFICES ASSUME NEW h \in DOMAIN inventory'
               PROVE  \E e \in Handshaken' : \E n \in asked'[e].gpus :
                        inventory'[h].devices = Devices(n, e) /\ inventory'[h].count \in {0, n}
    BY DEF InventoryIsAnAnswer
  <2>1. asked' = asked
    BY <1>1 DEF Frame
  <2>2. CASE h \in DOMAIN inventory /\ inventory'[h] = inventory[h]
    BY <1>1, <2>1, <2>2, HandshakenGrow DEF InventoryIsAnAnswer
  <2>3. ASSUME asked[c].op \in {"register", "refresh"}, at'[c] = "committed", NEW n \in asked[c].gpus,
               inventory'[h].count = n, inventory'[h].devices = Devices(n, c)
        PROVE  \E e \in Handshaken' : \E m \in asked'[e].gpus :
                 inventory'[h].devices = Devices(m, e) /\ inventory'[h].count \in {0, m}
    BY <1>1, <2>1, <2>3, HandshakenGrow
  <2>4. CASE /\ inventory'[h].count = 0 /\ h \in DOMAIN inventory
             /\ inventory'[h].devices = inventory[h].devices
    BY <1>1, <2>1, <2>4, HandshakenGrow DEF InventoryIsAnAnswer
  <2> QED
    BY <1>1, <2>2, <2>3, <2>4 DEF InventoryStep
<1>4. RequestKnows(c)' /\ RefreshKnows(c)'
  BY <1>1, OwnRequest, OwnRefresh
<1>5. ImportKnows(c)'
  BY <1>1, OwnImport DEF ImportKnows, Frame
<1>6. SweepKnows(c)'
  BY <1>1, OwnSweep DEF SweepKnows, Frame
<1>7. \A d \in Caller \ {c} : RequestKnows(d)' /\ RefreshKnows(d)' /\ ImportKnows(d)' /\ SweepKnows(d)'
  BY <1>1, OthersKnow
<1>8. Knowledge'
  BY <1>4, <1>5, <1>6, <1>7 DEF Knowledge
<1> QED
  BY <1>1, <1>2, <1>3, <1>8
(* Only a commit stores the runs of a batch, and it answers nobody.          *)
LEMMA BatchReplies ==
  ASSUME Shape, Knowledge, NEW c \in Caller, asked[c].op \in {"import", "sweep"}, Work(c)
  PROVE  \/ Commits(c) /\ reply'[c] = "none"
         \/ /\ UNCHANGED runs /\ at'[c] # "committed"
            /\ reply'[c] \in {"none", "refused", "error"}
<1> USE DEF Shape
<1>1. reply[c] = "none" /\ (at'[c] # "answered" => reply'[c] = "none")
  BY FrameOf DEF Frame
<1>2. CASE BeginImport(c)
  BY <1>2, <1>1 DEF BeginImport, Goto, Done, tables
<1>3. CASE BeginSweep(c)
  BY <1>3, <1>1 DEF BeginSweep, Goto, Done, tables
<1>4. CASE SelectRow(c)
  BY <1>1, <1>4, RowSelected DEF SelectRow, tables, Moves
<1>5. CASE FlushRow(c)
  <2>1. UNCHANGED runs
    BY <1>5, Zenon DEF FlushRow, tables
  <2> QED
    BY <1>1, <1>5, <2>1, RowFlushed DEF Moves
<1>6. CASE FlushSweep(c)
  BY <1>1, <1>6, SweepFlushed DEF FlushSweep, tables
<1>7. CASE BreakDeadlock(c) \/ RefuseResult(c)
  BY <1>7 DEF BreakDeadlock, RefuseResult, RollBack, Done, tables
<1>8. CASE ImportRun(c)
  BY <1>1, <1>8, ImportCommits DEF tables, Commits
<1>9. CASE CreateRuns(c)
  BY <1>1, <1>9, SweepCommits DEF Commits
<1> QED
  BY <1>2, <1>3, <1>4, <1>5, <1>6, <1>7, <1>8, <1>9, StepsOf DEF BatchStep

LEMMA AllOrNothingKept ==
  ASSUME Shape, Knowledge, BatchStored, SweepAllOrNothing, NEW c \in Caller, Work(c)
  PROVE  BatchStored' /\ SweepAllOrNothing'
<1> DEFINE Created(R, d) == {r.seq : r \in {s \in R : s.by = d}}
           Points(d) == DOMAIN asked[d].points
<1>1. Frame(c) /\ Grows(c) /\ asked' = asked
  BY FrameOf, GrowsOf DEF Frame
<1>2. \A d \in Caller : \A R : Created(R, d) = {} <=> \A r \in R : r.by # d
  OBVIOUS
<1>3. ASSUME NEW d \in Caller, asked[d].op \in {"import", "sweep"} PROVE Points(d) # {}
  <2>1. IsRequest(asked[d])
    BY Request
  <2>2. 1 \in Points(d)
    BY <1>3, <2>1 DEF IsRequest
  <2> QED
    BY <2>2
<1>4. ASSUME NEW d \in Caller, asked[d].op \in {"import", "sweep"}
      PROVE  /\ Created(runs', d) \in {{}, Points(d)}
             /\ reply'[d] = "created" => Created(runs', d) # {}
             /\ reply'[d] \in {"refused", "error"} => Created(runs', d) = {}
             /\ reply'[d] \in {"none", "refused", "error", "broken", "created"}
             /\ at'[d] = "committed" => Created(runs', d) # {}
             /\ at'[d] \notin {"committed", "answered"} => Created(runs', d) = {}
  <2>1. /\ Created(runs, d) \in {{}, Points(d)}
        /\ reply[d] = "created" => Created(runs, d) # {}
        /\ reply[d] \in {"refused", "error"} => Created(runs, d) = {}
        /\ reply[d] \in {"none", "refused", "error", "broken", "created"}
    BY <1>4 DEF SweepAllOrNothing, BatchStored
  <2>2. /\ at[d] = "committed" => Created(runs, d) # {}
        /\ at[d] \notin {"committed", "answered"} => Created(runs, d) = {}
    BY <1>2, <1>4 DEF BatchStored
  <2>3. CASE d # c
    <3>1. {s \in runs' : s.by = d} = {s \in runs : s.by = d}
      BY <1>1, <2>3 DEF Grows
    <3>2. Created(runs', d) = Created(runs, d) /\ reply'[d] = reply[d] /\ at'[d] = at[d]
      BY <1>1, <2>3, <3>1 DEF Frame
    <3> HIDE DEF Created
    <3> QED
      BY <2>1, <2>2, <3>2
  <2>4. CASE d = c
    <3>1. Created(runs, c) = {}
      BY <1>1, <2>2, <2>4 DEF Frame
    <3>2. CASE /\ UNCHANGED runs /\ at'[c] # "committed"
               /\ reply'[c] \in {"none", "refused", "error"}
      BY <2>4, <3>1, <3>2
    <3>3. CASE Commits(c) /\ reply'[c] = "none"
      <4>1. at'[c] = "committed" /\ runs' = runs \cup {PointRun(c, i) : i \in Points(c)}
        BY <3>3 DEF Commits
      <4>2. \A i : PointRun(c, i).by = c /\ PointRun(c, i).seq = i
        BY DEF PointRun
      <4>3. {s \in runs' : s.by = c} = {PointRun(c, i) : i \in Points(c)}
        BY <3>1, <4>1, <4>2
      <4>4. Created(runs', c) = Points(c)
        BY <4>2, <4>3
      <4> HIDE DEF Created
      <4> QED
        BY <1>3, <1>4, <2>4, <3>3, <4>1, <4>4
    <3> QED
      BY <1>4, <2>4, <3>2, <3>3, BatchReplies
  <2> QED
    BY <2>3, <2>4
<1>5. SweepAllOrNothing'
  BY <1>1, <1>4 DEF SweepAllOrNothing
<1>6. BatchStored'
  <2> HIDE DEF Created
  <2>1. \A d \in Caller : Created(runs', d) = {} <=> \A r \in runs' : r.by # d
    BY <1>2
  <2> QED
    BY <1>1, <1>4, <2>1 DEF BatchStored
<1> QED
  BY <1>5, <1>6

(* The four parts of RowsAgree.                                              *)
RunsAgree == \A r \in runs : {Config(r.text), r.workload, Host(r.host)} \subseteq rows
ParentsAgree == \A t \in DOMAIN parentOf : parentOf[t] \in {NoParent} \cup DOMAIN parentOf
JustificationsAgree == \A t \in DOMAIN justified : \E r \in runs : r.by = justified[t] /\ r.text = t
DevicesAgree ==
  \A h \in DOMAIN inventory :
    LET devices == inventory[h].devices IN
    /\ \E c \in Caller : devices = Devices(Cardinality(devices), c)
    /\ inventory[h].count \in {0, Cardinality(devices)}

LEMMA DevicesCounted ==
  ASSUME Shape, InventoryIsAnAnswer PROVE DevicesAgree
<1> SUFFICES ASSUME NEW h \in DOMAIN inventory
             PROVE  /\ \E c \in Caller : inventory[h].devices = Devices(Cardinality(inventory[h].devices), c)
                    /\ inventory[h].count \in {0, Cardinality(inventory[h].devices)}
  BY DEF DevicesAgree
<1>1. PICK e \in Handshaken : \E n \in asked[e].gpus :
        inventory[h].devices = Devices(n, e) /\ inventory[h].count \in {0, n}
  BY DEF InventoryIsAnAnswer
<1>2. PICK n \in asked[e].gpus : inventory[h].devices = Devices(n, e) /\ inventory[h].count \in {0, n}
  BY <1>1
<1>3. e \in Caller /\ n \in Nat
  BY <1>2, Request DEF Handshaken, IsRequest
<1>4. Cardinality(inventory[h].devices) = n
  BY <1>2, <1>3, DevicesOf
<1> QED
  BY <1>2, <1>3, <1>4

LEMMA RunsKept ==
  ASSUME Shape, Knowledge, WorkloadsNamed, RunsAgree, NEW c \in Caller, Work(c)
  PROVE  RunsAgree' /\ WorkloadsNamed'
<1>1. Grows(c)
  BY GrowsOf
<1>2. ASSUME NEW r \in runs
      PROVE  {Config(r.text), r.workload, Host(r.host)} \subseteq rows' /\ r.workload[1] # "host"
  <2>1. r.workload[1] # "host" /\ {Config(r.text), r.workload, Host(r.host)} \subseteq rows
    BY DEF WorkloadsNamed, RunsAgree
  <2>2. Host(r.host) \in rows'
    BY <1>1, <2>1, Keys DEF Grows, Referenced
  <2> QED
    BY <1>1, <2>1, <2>2, Stays
<1>3. CASE UNCHANGED runs
  BY <1>2, <1>3 DEF RunsAgree, WorkloadsNamed
<1>4. CASE InsertRun(c)
  <2> DEFINE q == asked[c]
             new == [by |-> c, text |-> q.text, host |-> q.host, workload |-> Workload(q.traffic), seq |-> 0]
  <2>1. CASE Host(q.host) \in rows
    <3>1. runs' = runs \cup {new} /\ UNCHANGED rows
      BY <1>4, <2>1 DEF InsertRun
    <3>2. {Config(q.text), Workload(q.traffic)} \subseteq rows
      BY <1>4 DEF InsertRun, Knowledge, RequestKnows
    <3>3. new.text = q.text /\ new.host = q.host /\ new.workload = Workload(q.traffic)
      OBVIOUS
    <3> HIDE DEF new
    <3> QED
      BY <1>2, <2>1, <3>1, <3>2, <3>3, Keys DEF RunsAgree, WorkloadsNamed
  <2>2. CASE Host(q.host) \notin rows
    BY <1>3, <1>4, <2>2 DEF InsertRun
  <2> QED
    BY <2>1, <2>2
<1>5. CASE Commits(c)
  <2>1. ASSUME NEW i \in DOMAIN asked[c].points
        PROVE  /\ {Config(PointRun(c, i).text), PointRun(c, i).workload, Host(PointRun(c, i).host)} \subseteq rows'
               /\ PointRun(c, i).workload[1] # "host"
    <3>1. PointRun(c, i).host = asked[c].host /\ PointRun(c, i).workload[1] # "host"
      BY Keys DEF PointRun
    <3> QED
      BY <1>5, <3>1 DEF Commits
  <2>2. runs' = runs \cup {PointRun(c, i) : i \in DOMAIN asked[c].points}
    BY <1>5 DEF Commits
  <2> QED
    BY <1>2, <2>1, <2>2 DEF RunsAgree, WorkloadsNamed
<1> QED
  BY <1>3, <1>4, <1>5, Writers, SweepCommits, ImportCommits
     DEF tables, InsertConfig, InsertWorkload, Justify, InsertHost, InsertDevices, DeleteHost,
         CancelSweep

LEMMA ParentsKept ==
  ASSUME Shape, Knowledge, ParentsAgree, NEW c \in Caller, Work(c)
  PROVE  ParentsAgree'
<1>1. CASE UNCHANGED parentOf
  BY <1>1 DEF ParentsAgree
<1>2. CASE InsertConfig(c)
  <2>1. asked[c].parent \in {NoParent} \cup DOMAIN parentOf
    BY <1>2 DEF InsertConfig, Knowledge, RequestKnows
  <2> QED
    BY <1>1, <1>2, <2>1 DEF InsertConfig, ParentsAgree
<1>3. CASE Commits(c)
  BY <1>3 DEF Commits, ParentsAgree
<1> QED
  BY <1>1, <1>2, <1>3, Writers, SweepCommits, ImportCommits
     DEF tables, InsertWorkload, Justify, InsertHost, InsertDevices, DeleteHost, InsertRun,
         CancelSweep

LEMMA JustificationsKept ==
  ASSUME Shape, Knowledge, JustificationsAgree, NEW c \in Caller, Work(c)
  PROVE  JustificationsAgree'
<1>1. runs \subseteq runs'
  BY GrowsOf DEF Grows
<1>2. CASE UNCHANGED justified
  BY <1>1, <1>2 DEF JustificationsAgree
<1>3. CASE Justify(c)
  <2> DEFINE q == asked[c]
             others == DOMAIN justified \ {q.text}
  <2>1. at[c] \in {"update", "insert"} /\ q.op = "annotate"
    BY <1>3, Zenon DEF Justify
  <2>2. CASE justified' = Restrict(justified, others)
    BY <1>1, <2>2 DEF Restrict, JustificationsAgree
  <2>3. CASE /\ ~q.clear
             /\ justified' = [t \in others \cup {q.text} |-> IF t = q.text THEN q.run ELSE justified[t]]
    <3>1. \E r \in runs : r.by = q.run /\ r.text = q.text
      BY <2>1, <2>3 DEF Knowledge, RequestKnows
    <3> QED
      BY <1>1, <2>3, <3>1 DEF JustificationsAgree
  <2> QED
    BY <1>2, <1>3, <2>2, <2>3, Zenon DEF Justify
<1> QED
  BY <1>2, <1>3, Writers, SweepCommits, ImportCommits
     DEF tables, Commits, InsertConfig, InsertWorkload, InsertHost, InsertDevices, DeleteHost,
         InsertRun, CancelSweep
(* No step gives a text an ancestor that descends from it.                   *)
LEMMA LineageCommitted ==
  ASSUME Shape, Lineage, NEW c \in Caller, asked[c].op \in {"import", "sweep"},
         NEW d, CommitSweep(c, d)
  PROVE  Lineage'
<1> DEFINE q == asked[c]
           n == Len(q.points)
           texts == {t \in {p.text : p \in Range(q.points)} : Config(t) \in d.rows}
<1>1. /\ rows' = rows \cup d.rows
      /\ parentOf' = [t \in DOMAIN parentOf \cup texts |-> IF t \in texts THEN NoParent ELSE parentOf[t]]
  BY DEF CommitSweep
<1>2. n \in Nat /\ DOMAIN q.points = 1..n /\ \A i \in 1..n : q.points[i].text # NoParent
  BY Request DEF IsRequest
<1>3. IsFiniteSet(texts)
  <2> DEFINE all == {q.points[i].text : i \in 1..n}
             f == [i \in 1..n |-> q.points[i].text]
  <2>1. f \in Surjection(1..n, all)
    BY DEF Surjection
  <2>2. IsFiniteSet(1..n)
    <3>1. 1 \in Int /\ n \in Int
      BY <1>2
    <3> HIDE DEF n
    <3> QED
      BY <3>1, FS_Interval
  <2> HIDE DEF f
  <2>3. IsFiniteSet(all)
    BY <2>1, <2>2, FS_Surjection
  <2>4. texts \in SUBSET all
    BY <1>2 DEF Range
  <2> QED
    BY <2>3, <2>4, FS_Subset
<1>4. \A t \in texts : t # NoParent /\ Config(t) \in d.rows
  BY <1>2 DEF Range
<1> HIDE DEF texts
<1>5. DOMAIN parentOf' = DOMAIN parentOf \cup texts
  BY <1>1
<1>6. IsFiniteSet(DOMAIN parentOf')
  <2>1. IsFiniteSet(DOMAIN parentOf)
    BY DEF Lineage
  <2>2. IsFiniteSet(DOMAIN parentOf \cup texts)
    BY <1>3, <2>1, FS_Union, Zenon
  <2> QED
    BY <1>5, <2>2
<1>7. NoParent \notin DOMAIN parentOf' /\ \A t \in DOMAIN parentOf' : Config(t) \in rows'
  BY <1>1, <1>4, <1>5 DEF Lineage
<1>8. ASSUME NEW S \in SUBSET DOMAIN parentOf', S # {} PROVE \E t \in S : parentOf'[t] \notin S
  <2>1. CASE \E t \in S : t \in texts
    BY <1>1, <1>7, <1>8, <2>1
  <2>2. CASE ~\E t \in S : t \in texts
    <3>1. S \in SUBSET DOMAIN parentOf
      BY <1>5, <1>8, <2>2
    <3>2. PICK t \in S : parentOf[t] \notin S
      BY <1>8, <3>1 DEF Lineage, Rooted
    <3>3. parentOf'[t] = parentOf[t]
      BY <1>1, <2>2, <3>1, <3>2
    <3> QED
      BY <3>2, <3>3
  <2> QED
    BY <2>1, <2>2
<1> QED
  BY <1>6, <1>7, <1>8 DEF Lineage, Rooted

LEMMA LineageKept ==
  ASSUME Shape, Knowledge, Lineage, ParentsAgree, NEW c \in Caller, Work(c)
  PROVE  Lineage'
<1>1. Grows(c)
  BY GrowsOf
<1>2. \A t : Config(t) \in rows => Config(t) \in rows'
  BY <1>1, Stays
<1>3. CASE UNCHANGED parentOf
  BY <1>2, <1>3 DEF Lineage, Rooted
<1>4. CASE InsertConfig(c)
  <2> DEFINE q == asked[c]
  <2>1. q.op = "config" /\ q.text # NoParent /\ q.parent \in {NoParent} \cup DOMAIN parentOf
    BY <1>4, Request DEF InsertConfig, Asks, Knowledge, RequestKnows, IsRequest
  <2>2. CASE Config(q.text) \notin rows
    <3>1. /\ rows' = rows \cup {Config(q.text)}
          /\ parentOf' = [t \in DOMAIN parentOf \cup {q.text} |-> IF t = q.text THEN q.parent ELSE parentOf[t]]
      BY <1>4, <2>2 DEF InsertConfig
    <3>2. q.text \notin DOMAIN parentOf
      BY <2>2 DEF Lineage
    <3>3. DOMAIN parentOf' = DOMAIN parentOf \cup {q.text}
      BY <3>1
    <3>4. IsFiniteSet(DOMAIN parentOf')
      BY <3>3, FS_AddElement DEF Lineage
    <3>5. NoParent \notin DOMAIN parentOf' /\ \A t \in DOMAIN parentOf' : Config(t) \in rows'
      BY <2>1, <3>1, <3>3 DEF Lineage
    <3>6. parentOf'[q.text] = q.parent /\ \A t \in DOMAIN parentOf : parentOf'[t] = parentOf[t]
      BY <3>1, <3>2
    <3>7. ASSUME NEW S \in SUBSET DOMAIN parentOf', S # {} PROVE \E t \in S : parentOf'[t] \notin S
      <4> DEFINE old == S \ {q.text}
      <4>1. old \in SUBSET DOMAIN parentOf
        BY <3>3
      <4>2. CASE old = {}
        <5>1. S = {q.text}
          BY <3>7, <4>2
        <5> QED
          BY <2>1, <3>2, <3>6, <5>1
      <4>3. CASE old # {}
        <5>1. PICK t \in old : parentOf[t] \notin old
          BY <4>1, <4>3 DEF Lineage, Rooted
        <5>2. parentOf[t] # q.text
          BY <2>1, <3>2, <4>1, <5>1 DEF ParentsAgree
        <5> QED
          BY <3>6, <4>1, <5>1, <5>2
      <4> QED
        BY <4>2, <4>3
    <3> QED
      BY <3>4, <3>5, <3>7 DEF Lineage, Rooted
  <2>3. CASE Config(q.text) \in rows
    BY <1>3, <1>4, <2>3 DEF InsertConfig
  <2> QED
    BY <2>2, <2>3
<1>5. CASE ImportRun(c)
  <2>1. asked[c].op = "import"
    BY <1>5 DEF ImportRun, Asks
  <2>2. UNCHANGED parentOf \/ \E d : CommitSweep(c, d)
    BY <1>5, Zenon DEF ImportRun
  <2> QED
    BY <1>3, <2>1, <2>2, LineageCommitted
<1>6. CASE CreateRuns(c)
  <2>1. asked[c].op = "sweep"
    BY <1>6 DEF CreateRuns, Asks
  <2>2. \E d : CommitSweep(c, d)
    BY <1>6, Zenon DEF CreateRuns
  <2> QED
    BY <2>1, <2>2, LineageCommitted
<1> QED
  BY <1>3, <1>4, <1>5, <1>6, Writers
     DEF tables, InsertWorkload, Justify, InsertHost, InsertDevices, DeleteHost, InsertRun,
         CancelSweep

LEMMA RowsAgreeParts ==
  RowsAgree <=> RunsAgree /\ ParentsAgree /\ JustificationsAgree /\ DevicesAgree
BY DEF RowsAgree, RunsAgree, ParentsAgree, JustificationsAgree, DevicesAgree

LEMMA HandlersKeep ==
  ASSUME CatalogueInvariant, NEW c \in Caller, Work(c)
  PROVE  CatalogueInvariant'
<1> USE DEF CatalogueInvariant
<1>1. Shape' /\ HostsAgree' /\ InventoryIsAnAnswer' /\ Knowledge'
  BY KnowledgeKept
<1>2. BatchStored' /\ SweepAllOrNothing'
  BY AllOrNothingKept
<1>3. WorkloadsNamed' /\ RunsAgree' /\ ParentsAgree' /\ JustificationsAgree'
  BY RunsKept, ParentsKept, JustificationsKept, RowsAgreeParts
<1>4. DevicesAgree'
  BY <1>1, DevicesCounted, PTL
<1>6. Lineage'
  BY LineageKept, RowsAgreeParts
<1>5. RowsAgree'
  BY <1>3, <1>4, RowsAgreeParts, PTL
<1> QED
  BY <1>1, <1>2, <1>3, <1>5, <1>6

(* A call that is cut short, refused before it reached its handler, or        *)
(* answered, takes back what it has flushed and leaves the rows alone.        *)
Answered(c) ==
  \/ reply'[c] = "broken"
  \/ reply'[c] = "refused" /\ at[c] = "select"
  \/ reply'[c] = Answer(c) /\ at[c] = "committed"
CutShort ==
  /\ UNCHANGED <<rows, parentOf, justified, inventory, runs, asked, point>>
  /\ over \subseteq over'
  /\ DOMAIN at' = Caller /\ DOMAIN reply' = Caller /\ DOMAIN draft' = Caller
  /\ \A d \in Caller :
       /\ at'[d] = at[d] \/ at'[d] = "answered"
       /\ draft'[d] = draft[d] \/ (draft'[d] = Empty /\ at'[d] = "answered")
       /\ reply'[d] = reply[d] \/ (reply[d] = "none" /\ at'[d] = "answered" /\ Answered(d))

LEMMA CutShortKeeps ==
  ASSUME CatalogueInvariant, CutShort PROVE CatalogueInvariant'
<1> USE DEF CatalogueInvariant
<1>1. /\ asked' = asked /\ UNCHANGED <<rows, parentOf, justified, inventory, runs, point>>
      /\ \A d \in Caller : at'[d] = at[d] \/ at'[d] = "answered"
      /\ \A d \in Caller : at'[d] # "answered" => at'[d] = at[d] /\ draft'[d] = draft[d] /\ reply'[d] = reply[d]
  BY DEF CutShort
<1>2. Shape'
  BY DEF CutShort, Shape, Empty
<1>3. HostsAgree' /\ WorkloadsNamed' /\ RowsAgree' /\ Lineage'
  BY <1>1 DEF HostsAgree, WorkloadsNamed, RowsAgree, Lineage, Rooted
<1>4. Handshaken \subseteq Handshaken'
  BY <1>1 DEF Handshaken
<1>5. InventoryIsAnAnswer'
  BY <1>1, <1>4 DEF InventoryIsAnAnswer
<1>6. BatchStored' /\ SweepAllOrNothing'
  <2> DEFINE Created(d) == {r.seq : r \in {s \in runs : s.by = d}}
  <2>1. \A d \in Caller : Created(d) = {} <=> \A r \in runs : r.by # d
    OBVIOUS
  <2>2. ASSUME NEW d \in Caller, asked[d].op \in {"import", "sweep"}
        PROVE  /\ reply'[d] = "created" => Created(d) # {}
               /\ reply'[d] \in {"refused", "error"} => Created(d) = {}
               /\ reply'[d] \in {"none", "refused", "error", "broken", "created"}
               /\ at'[d] = "committed" => Created(d) # {}
               /\ at'[d] \notin {"committed", "answered"} => Created(d) = {}
    <3>1. /\ reply[d] = "created" => Created(d) # {}
          /\ reply[d] \in {"refused", "error"} => Created(d) = {}
      BY <2>2 DEF SweepAllOrNothing
    <3>2. /\ reply[d] \in {"none", "refused", "error", "broken", "created"}
          /\ at[d] = "committed" => Created(d) # {}
          /\ at[d] \notin {"committed", "answered"} => Created(d) = {}
      BY <2>1, <2>2 DEF BatchStored
    <3> HIDE DEF Created
    <3>3. \/ reply'[d] = reply[d] \/ reply'[d] = "broken"
          \/ reply'[d] = "refused" /\ Created(d) = {}
          \/ reply'[d] = "created" /\ Created(d) # {}
      <4>1. reply'[d] = reply[d] \/ Answered(d)
        BY DEF CutShort
      <4>2. Answer(d) = "created"
        BY <2>2 DEF Answer
      <4> QED
        BY <3>2, <4>1, <4>2 DEF Answered
    <3> QED
      BY <1>1, <3>1, <3>2, <3>3
  <2>3. SweepAllOrNothing'
    BY <1>1, <2>2 DEF SweepAllOrNothing
  <2>4. BatchStored'
    BY <1>1, <2>1, <2>2 DEF BatchStored
  <2> QED
    BY <2>3, <2>4
<1>7. ASSUME NEW d \in Caller
      PROVE  RequestKnows(d)' /\ RefreshKnows(d)' /\ ImportKnows(d)' /\ SweepKnows(d)'
  <2>1. RequestKnows(d) /\ RefreshKnows(d) /\ ImportKnows(d) /\ SweepKnows(d)
    BY DEF Knowledge
  <2>2. CASE at'[d] = "answered"
    BY <1>1, <2>2 DEF RequestKnows, RefreshKnows, ImportKnows, SweepKnows, Asks
  <2>3. CASE at'[d] # "answered"
    <3>1. at'[d] = at[d] /\ draft'[d] = draft[d] /\ reply'[d] = reply[d]
      BY <1>1, <2>3
    <3>2. RequestKnows(d)'
      BY <1>1, <2>1, <3>1 DEF RequestKnows, Asks
    <3>3. RefreshKnows(d)'
      BY <1>1, <1>4, <2>1, <3>1 DEF RefreshKnows
    <3>4. ImportKnows(d)'
      <4>1. asked' = asked /\ rows' = rows /\ point' = point
        BY <1>1
      <4>2. ImportKnows(d)
        BY <2>1
      <4>3. Importing(d)' = Importing(d)
        BY <3>1, <4>1 DEF Importing
      <4>4. point'[d] = point[d] /\ asked'[d] = asked[d] /\ (rows \cup draft[d].rows)' = rows \cup draft[d].rows
        BY <3>1, <4>1
      <4>5. \A i : ImportedPoint(d, i)' = ImportedPoint(d, i)
        BY <4>4 DEF ImportedPoint
      <4>6. {ImportedPoint(d, i) : i \in 1..point[d] - 1}' = {ImportedPoint(d, i) : i \in 1..point[d] - 1}
        BY <4>4, <4>5
      <4> QED
        BY <3>1, <4>1, <4>2, <4>3, <4>4, <4>6 DEF ImportKnows
    <3>5. SweepKnows(d)'
      BY <1>1, <2>1, <3>1 DEF SweepKnows
    <3> QED
      BY <3>2, <3>3, <3>4, <3>5
  <2> QED
    BY <2>2, <2>3
<1> QED
  BY <1>2, <1>3, <1>5, <1>6, <1>7 DEF Knowledge

LEMMA CallsCutShort ==
  ASSUME Shape, Stages, NEW c \in Caller, c \in ToolCaller, CallTool(c) PROVE CutShort
<1>1. reply[c] = "none" /\ at[c] = "select" /\ UNCHANGED <<tables, asked, transaction>>
  BY DEF CallTool, Stages
<1>2. Done(c, "refused") \/ UNCHANGED <<at, reply>>
  BY Zenon DEF CallTool
<1> QED
  BY <1>1, <1>2 DEF Done, CutShort, Answered, Shape, tables, transaction

LEMMA EndsCutShort ==
  ASSUME Shape, NEW c \in Caller, AnswerCommitted(c) \/ Break(c) PROVE CutShort
<1>1. reply[c] = "none"
  BY DEF AnswerCommitted, Break, Shape
<1>2. CASE AnswerCommitted(c)
  BY <1>1, <1>2 DEF AnswerCommitted, Done, CutShort, Answered, Shape, tables, transaction
<1>3. CASE Break(c)
  BY <1>1, <1>3 DEF Break, RollBack, Done, CutShort, Answered, Shape, tables
<1> QED
  BY <1>2, <1>3

LEMMA DiesCutShort == ASSUME Shape, ApiDies PROVE CutShort
  BY DEF ApiDies, CutShort, Shape, Empty, tables

LEMMA StagesKept ==
  ASSUME Shape, Stages, McpNext PROVE Stages'
<1> USE DEF Stages, Move, Record
<1>1. ASSUME NEW c \in Caller, SwitchedOff(c) PROVE Stages'
  <2>1. UNCHANGED <<at, reply>>
    BY <1>1 DEF SwitchedOff, catalogueVars
  <2>2. \/ audit' = [audit EXCEPT ![c] = "refused"]
        \/ audit' = audit
    BY <1>1, Zenon DEF SwitchedOff
  <2> QED
    BY <1>1, <2>1, <2>2 DEF SwitchedOff
<1>2. ASSUME NEW c \in Caller, CallTool(c) PROVE Stages'
  <2>1. Done(c, "refused") \/ UNCHANGED <<at, reply>>
    BY <1>2, Zenon DEF CallTool
  <2>2. \A d \in Caller \ {c} : at'[d] = at[d] /\ reply'[d] = reply[d]
    BY <2>1 DEF Done, Shape
  <2>3. stage[c] = "call" /\ writeEnabled /\ stage' = [stage EXCEPT ![c] = "handler"]
        /\ UNCHANGED <<writeEnabled, audit>>
    BY <1>2 DEF CallTool
  <2> QED
    BY <2>2, <2>3
<1>3. ASSUME NEW c \in Caller, Handle(c) PROVE Stages'
  <2>1. HandleCall(c) /\ stage[c] = "handler" /\ UNCHANGED <<writeEnabled, stage, audit>>
    BY <1>3, Zenon DEF Handle
  <2>2. \A d \in Caller \ {c} : at'[d] = at[d] /\ reply'[d] = reply[d]
    <3>1. CASE Work(c)
      BY <3>1, FrameOf DEF Frame
    <3>2. CASE AnswerCommitted(c) \/ Break(c)
      BY <3>2 DEF AnswerCommitted, Break, RollBack, Done, Shape
    <3> QED
      BY <2>1, <3>1, <3>2 DEF HandleCall
  <2> QED
    BY <2>1, <2>2
<1>4. ASSUME NEW c \in Caller, RecordCall(c) PROVE Stages'
  <2>1. UNCHANGED <<at, reply>>
    BY <1>4 DEF RecordCall, catalogueVars
  <2>2. audit' = [audit EXCEPT ![c] = Outcome(reply[c])] \/ audit' = audit
    BY <1>4, Zenon DEF RecordCall
  <2>3. stage[c] = "handler" /\ c \in ToolCaller /\ reply[c] # "none"
        /\ stage' = [stage EXCEPT ![c] = "told"] /\ UNCHANGED writeEnabled
    BY <1>4 DEF RecordCall
  <2>4. Outcome(reply[c])' = Outcome(reply[c])
    BY <2>1 DEF Outcome
  <2>5. \A d \in Caller : Outcome(reply[d])' = Outcome(reply[d])
    BY <2>1 DEF Outcome
  <2>6. \A d \in ToolCaller : audit'[d] = audit[d] \/ (d = c /\ audit'[d] = Outcome(reply[d]))
    BY <2>2
  <2> QED
    BY <2>1, <2>2, <2>3, <2>5, <2>6
<1>5. ASSUME ApiDies PROVE Stages'
  <2> DEFINE cut == {c \in Caller : /\ stage[c] \in {"call", "handler"}
                                    /\ c \in ToolCaller \/ reply[c] = "none"}
  <2>1. /\ stage' = [c \in Caller |-> IF c \in cut THEN "dead" ELSE stage[c]]
        /\ at' = [c \in Caller |-> IF c \in cut THEN "answered" ELSE at[c]]
        /\ UNCHANGED <<reply, writeEnabled, audit>>
    BY <1>5 DEF ApiDies
  <2>2. \A c \in Caller : c \in cut \/ (stage'[c] = stage[c] /\ at'[c] = at[c])
    BY <2>1
  <2>3. \A c \in cut : stage'[c] = "dead" /\ stage[c] # "told"
    BY <2>1
  <2>4. \A c \in Caller : c \in cut => stage'[c] = "dead" /\ stage[c] # "told"
    BY <2>3
  <2> HIDE DEF cut
  <2>5. \A d \in Caller : Outcome(reply[d])' = Outcome(reply[d])
    BY <2>1 DEF Outcome
  <2>6. DOMAIN stage' = Caller
    BY <2>1
  <2> QED
    BY <2>1, <2>2, <2>4, <2>5, <2>6
<1>6. ASSUME NEW c \in Caller, SettleSweep(c), UNCHANGED <<writeEnabled, stage, audit>> PROVE Stages'
  BY <1>6 DEF SettleSweep, Outcome
<1> QED
  BY <1>1, <1>2, <1>3, <1>4, <1>5, <1>6 DEF McpNext

(* What a step adds to the tables, by the request that takes it.             *)
LEMMA Added ==
  ASSUME Shape, Knowledge, NEW c \in Caller, Work(c)
  PROVE  /\ \A k \in rows' \ rows :
              \/ asked[c].op = "config" /\ k[1] = "config"
              \/ asked[c].op = "workload" /\ k[1] = "workload"
              \/ k[1] = "host" \/ asked[c].op \in {"import", "sweep"}
         /\ asked[c].op # "annotate" => UNCHANGED justified
<1>1. CASE UNCHANGED tables
  BY <1>1 DEF tables
<1>2. CASE InsertConfig(c)
  BY <1>2, Keys DEF InsertConfig, Asks
<1>3. CASE InsertWorkload(c)
  BY <1>3, Keys DEF InsertWorkload, Asks
<1>4. CASE Justify(c)
  BY <1>4, Zenon DEF Justify
<1>5. CASE InsertHost(c)
  BY <1>5, Keys DEF InsertHost
<1>6. CASE InsertDevices(c)
  BY <1>6, Zenon DEF InsertDevices
<1>7. CASE DeleteHost(c)
  BY <1>7 DEF DeleteHost
<1>8. CASE InsertRun(c)
  BY <1>8 DEF InsertRun
<1>9. CASE Commits(c)
  BY <1>9 DEF Commits
<1>10. CASE CancelSweep(c)
  BY <1>10 DEF CancelSweep
<1> QED
  BY <1>1, <1>2, <1>3, <1>4, <1>5, <1>6, <1>7, <1>8, <1>9, <1>10, Writers, SweepCommits, ImportCommits

(* What ReplyTellsTheTruth says of each call.                                *)
Told(c) ==
  /\ /\ reply[c] \notin Failing \/ at[c] = "committed"
     /\ asked[c].op = "annotate" => SoleAuthor(c)
     => Stored(c)
  /\ SoleAuthor(c) /\ Undone(c) => ~Stored(c)

LEMMA OthersTold ==
  ASSUME Shape, Knowledge, NEW c \in Caller, Work(c), UNCHANGED writeEnabled,
         NEW d \in ToolCaller, d # c, Told(d)
  PROVE  Told(d)'
<1>1. Frame(c) /\ Grows(c) /\ d \in Caller
  BY FrameOf, GrowsOf
<1>2. /\ asked' = asked /\ reply'[d] = reply[d] /\ at'[d] = at[d]
      /\ (SoleAuthor(d)' <=> SoleAuthor(d)) /\ (Undone(d)' <=> Undone(d))
  BY <1>1 DEF Frame, SoleAuthor, Undone
<1>3. /\ Stored(d) /\ (asked[d].op = "annotate" => SoleAuthor(d)) => Stored(d)'
      /\ ~Stored(d) /\ SoleAuthor(d) => ~Stored(d)'
  <2>1. CASE asked[d].op = "config"
    <3>1. SoleAuthor(d) => asked[c].op \notin {"config", "import", "sweep"}
      BY <2>1 DEF SoleAuthor
    <3>2. SoleAuthor(d) /\ Config(asked[d].text) \in rows' => Config(asked[d].text) \in rows
      BY <3>1, Added, Keys
    <3>3. Config(asked[d].text) \in rows => Config(asked[d].text) \in rows'
      BY <1>1, Stays
    <3> QED
      BY <1>2, <2>1, <3>2, <3>3 DEF Stored
  <2>2. CASE asked[d].op = "workload"
    <3>1. SoleAuthor(d) => asked[c].op \notin {"workload", "import", "sweep"}
      BY <2>2 DEF SoleAuthor
    <3>2. SoleAuthor(d) /\ Workload(asked[d].traffic) \in rows' => Workload(asked[d].traffic) \in rows
      BY <3>1, Added, Keys
    <3>3. Workload(asked[d].traffic) \in rows => Workload(asked[d].traffic) \in rows'
      BY <1>1, Stays
    <3> QED
      BY <1>2, <2>2, <3>2, <3>3 DEF Stored
  <2>3. CASE asked[d].op = "annotate"
    <3>1. SoleAuthor(d) => asked[c].op # "annotate"
      BY <2>3 DEF SoleAuthor
    <3>2. SoleAuthor(d) => UNCHANGED justified
      BY <3>1, Added
    <3> QED
      BY <1>2, <2>3, <3>2 DEF Stored
  <2>4. CASE asked[d].op = "sweep"
    <3>1. (\E r \in runs : r.by = d) <=> (\E r \in runs' : r.by = d)
      BY <1>1 DEF Grows
    <3> QED
      BY <1>2, <2>4, <3>1 DEF Stored
  <2>5. CASE asked[d].op = "cancel"
    <3>1. ~SoleAuthor(d)
      BY <2>5 DEF SoleAuthor
    <3> QED
      BY <1>1, <1>2, <2>5, <3>1 DEF Stored, Grows
  <2> QED
    BY <2>1, <2>2, <2>3, <2>4, <2>5 DEF Shape
<1> QED
  BY <1>2, <1>3 DEF Told

LEMMA OwnTold ==
  ASSUME CatalogueInvariant, NEW c \in ToolCaller, Told(c), Work(c),
         writeEnabled, UNCHANGED writeEnabled
  PROVE  Told(c)'
<1> DEFINE q == asked[c]
           \* what a step may leave behind it
           Fails == reply'[c] \in {"none", "refused", "error"} /\ at'[c] # "committed"
<1> USE DEF CatalogueInvariant
<1>1. Frame(c) /\ c \in Caller
  BY FrameOf
<1>2. /\ asked' = asked /\ reply[c] = "none" /\ (SoleAuthor(c)' <=> SoleAuthor(c))
      /\ at[c] \notin {"committed", "answered"} /\ DOMAIN at = Caller /\ DOMAIN reply = Caller
      /\ (at'[c] # "answered" => reply'[c] = "none")
  BY <1>1 DEF Frame, SoleAuthor, Shape
<1>3. SoleAuthor(c) => ~Stored(c)
  BY <1>2 DEF Told, Undone
<1>a. ASSUME Fails, Stored(c)' => Stored(c) PROVE Told(c)'
  BY <1>2, <1>3, <1>a DEF Told, Failing
<1>b. ASSUME Stored(c)', at'[c] \in {"committed", "answered"}, reply'[c] \notin {"refused", "error"}
      PROVE  Told(c)'
  BY <1>b DEF Told, Undone
<1>4. CASE q.op = "config"
  <2>1. Stored(c) = (Config(q.text) \in rows) /\ Stored(c)' = (Config(q.text) \in rows')
    BY <1>2, <1>4 DEF Stored
  <2>2. CASE SelectConfig(c)
    <3>1. UNCHANGED rows /\ (Fails \/ (reply'[c] = "existing" /\ at'[c] = "answered" /\ Config(q.text) \in rows))
      BY <1>2, <2>2 DEF SelectConfig, Goto, Done, tables
    <3> QED
      BY <1>a, <1>b, <2>1, <3>1
  <2>3. CASE SelectParent(c)
    <3>1. UNCHANGED rows /\ Fails
      BY <1>2, <2>3 DEF SelectParent, Goto, Done, tables
    <3> QED
      BY <1>a, <2>1, <3>1
  <2>4. CASE InsertConfig(c)
    <3>1. \/ UNCHANGED rows /\ Fails
          \/ Config(q.text) \in rows' /\ at'[c] = "committed" /\ reply'[c] = "none"
      BY <1>2, <2>4 DEF InsertConfig, Done, Goto
    <3> QED
      BY <1>a, <1>b, <2>1, <3>1
  <2> QED
    BY <1>1, <1>4, <2>2, <2>3, <2>4, StepsOf
<1>5. CASE q.op = "workload"
  <2>1. Stored(c) = (Workload(q.traffic) \in rows) /\ Stored(c)' = (Workload(q.traffic) \in rows')
    BY <1>2, <1>5 DEF Stored
  <2>2. CASE SelectWorkload(c)
    <3>1. UNCHANGED rows /\ (Fails \/ (reply'[c] = "existing" /\ at'[c] = "answered" /\ Workload(q.traffic) \in rows))
      BY <1>2, <2>2 DEF SelectWorkload, Goto, Done, tables
    <3> QED
      BY <1>a, <1>b, <2>1, <3>1
  <2>3. CASE InsertWorkload(c)
    <3>1. \/ rows' = rows /\ Fails
          \/ Workload(q.traffic) \in rows' /\ at'[c] = "committed" /\ reply'[c] = "none"
      BY <1>2, <2>3 DEF InsertWorkload, Done, Goto
    <3> QED
      BY <1>a, <1>b, <2>1, <3>1
  <2> QED
    BY <1>1, <1>5, <2>2, <2>3, StepsOf
<1>6. CASE q.op = "annotate"
  <2>1. Stored(c) = (q.text \in DOMAIN justified) /\ Stored(c)' = (q.text \in DOMAIN justified')
    BY <1>2, <1>6 DEF Stored
  <2>2. CASE SelectJustification(c)
    <3>1. UNCHANGED justified /\ Fails
      BY <1>2, <2>2 DEF SelectJustification, Goto, Done, tables
    <3> QED
      BY <1>a, <2>1, <3>1
  <2>3. CASE Justify(c)
    <3> DEFINE others == DOMAIN justified \ {q.text}
    <3>1. ~q.clear
      BY <1>6, <1>1 DEF Shape
    <3>2. \/ UNCHANGED justified /\ Done(c, "error")
          \/ /\ justified' = [t \in others \cup {q.text} |-> IF t = q.text THEN q.run ELSE justified[t]]
             /\ Goto(c, "committed")
      BY <2>3, <3>1, Zenon DEF Justify
    <3>3. \/ UNCHANGED justified /\ Fails
          \/ q.text \in DOMAIN justified' /\ at'[c] = "committed" /\ reply'[c] = "none"
      BY <1>1, <1>2, <3>2 DEF Done, Goto
    <3> QED
      BY <1>a, <1>b, <2>1, <3>3
  <2> QED
    BY <1>1, <1>6, <2>2, <2>3, StepsOf
<1>7. CASE q.op = "sweep"
  <2>1. Stored(c) = (\E r \in runs : r.by = c) /\ Stored(c)' = (\E r \in runs' : r.by = c)
    BY <1>2, <1>7 DEF Stored
  <2>2. CASE Commits(c) /\ reply'[c] = "none"
    <3>1. at'[c] = "committed"
      BY <2>2 DEF Commits
    <3>2. BatchStored'
      BY <1>1, AllOrNothingKept
    <3>3. Stored(c)'
      BY <1>1, <1>2, <1>7, <2>1, <3>1, <3>2 DEF BatchStored
    <3> QED
      BY <1>b, <2>2, <3>1, <3>3
  <2>3. CASE /\ UNCHANGED runs /\ at'[c] # "committed"
             /\ reply'[c] \in {"none", "refused", "error"}
    BY <1>a, <2>1, <2>3
  <2> QED
    BY <1>1, <1>7, <2>2, <2>3, BatchReplies
<1>8. CASE q.op = "cancel"
  <2>1. /\ Stored(c) = (q.sweep \in over) /\ Stored(c)' = (q.sweep \in over')
        /\ ~SoleAuthor(c)'
    BY <1>2, <1>8 DEF Stored, SoleAuthor
  <2>2. CASE SelectSweep(c)
    <3>1. UNCHANGED over /\ (Fails \/ (reply'[c] = "existing" /\ at'[c] = "answered" /\ q.sweep \in over))
      <4>1. IsSweep(q.sweep) \in BOOLEAN
        BY DEF IsSweep
      <4> QED
        BY <1>1, <1>2, <2>2, <4>1 DEF SelectSweep, Goto, Done, tables
    <3> QED
      BY <1>a, <1>b, <2>1, <3>1
  <2>3. CASE CancelSweep(c)
    <3>1. q.sweep \in over' /\ at'[c] = "committed" /\ reply'[c] = "none"
      BY <1>1, <1>2, <2>3 DEF CancelSweep, Goto
    <3> QED
      BY <1>b, <2>1, <3>1
  <2> QED
    BY <1>1, <1>8, <2>2, <2>3, StepsOf
<1> QED
  BY <1>1, <1>4, <1>5, <1>6, <1>7, <1>8 DEF Shape

LEMMA SurfaceKept ==
  ASSUME SurfaceInvariant, [McpNext]_mcpVars PROVE SurfaceInvariant'
<1> USE DEF SurfaceInvariant
<1>1. ReplyTellsTheTruth <=> \A d \in ToolCaller : Told(d)
  BY DEF ReplyTellsTheTruth, Told
<1>2. ReplyTellsTheTruth' <=> \A d \in ToolCaller : Told(d)'
  BY DEF ReplyTellsTheTruth, Told
<1>3. UNCHANGED catalogueVars => CutShort
  BY DEF catalogueVars, tables, transaction, CutShort, CatalogueInvariant, Shape
<1>4. ASSUME CutShort, UNCHANGED writeEnabled PROVE CatalogueInvariant' /\ ReplyTellsTheTruth'
  <2>1. CatalogueInvariant'
    BY <1>4, CutShortKeeps
  <2>2. ASSUME NEW d \in ToolCaller PROVE Told(d)'
    <3>1. Told(d) /\ d \in Caller
      BY <1>1
    <3>2. UNCHANGED <<rows, runs, justified, asked>> /\ over \subseteq over'
      BY <1>4 DEF CutShort
    <3>3. /\ at'[d] = at[d] \/ at'[d] = "answered"
          /\ reply'[d] = reply[d] \/ (reply[d] = "none" /\ at'[d] = "answered" /\ Answered(d))
      BY <1>4, <3>1 DEF CutShort
    <3>4. /\ SoleAuthor(d)' <=> SoleAuthor(d)
          /\ Stored(d) => Stored(d)'
          /\ SoleAuthor(d) /\ Stored(d)' => Stored(d)
      BY <3>1, <3>2 DEF SoleAuthor, Stored, CatalogueInvariant, Shape
    <3>5. Undone(d)' => Undone(d)
      BY <1>4, <3>3 DEF Undone, Answered, Answer
    <3>6. reply'[d] \notin Failing \/ at'[d] = "committed" => reply[d] \notin Failing \/ at[d] = "committed"
      BY <3>3 DEF Failing, Answered
    <3> QED
      BY <3>1, <3>2, <3>4, <3>5, <3>6 DEF Told
  <2> QED
    BY <1>2, <2>1, <2>2
<1>5. ASSUME NEW c \in Caller, Work(c), c \in ToolCaller => writeEnabled, UNCHANGED writeEnabled
      PROVE  CatalogueInvariant' /\ ReplyTellsTheTruth'
  <2>1. CatalogueInvariant'
    BY <1>5, HandlersKeep
  <2>2. ASSUME NEW d \in ToolCaller PROVE Told(d)'
    <3>1. CASE d = c
      BY <1>1, <1>5, <3>1, OwnTold
    <3>2. CASE d # c
      BY <1>1, <1>5, <3>2, OthersTold DEF CatalogueInvariant
    <3> QED
      BY <3>1, <3>2
  <2> QED
    BY <1>2, <2>1, <2>2
<1>6. Stages'
  <2>1. UNCHANGED mcpVars => Stages'
    BY DEF mcpVars, catalogueVars, Stages, Outcome
  <2>2. McpNext => Stages'
    BY StagesKept DEF CatalogueInvariant
  <2> QED
    BY <2>1, <2>2
<1>7. UNCHANGED mcpVars => UNCHANGED catalogueVars
  BY DEF mcpVars
<1>8. ASSUME McpNext
      PROVE  /\ UNCHANGED writeEnabled
             /\ CutShort \/ \E c \in Caller : Work(c) /\ (c \in ToolCaller => writeEnabled)
  <2>1. ASSUME NEW c \in Caller, SwitchedOff(c) \/ RecordCall(c) PROVE UNCHANGED <<catalogueVars, writeEnabled>>
    BY <2>1, Zenon DEF SwitchedOff, RecordCall, Move
  <2>2. ASSUME NEW c \in Caller, CallTool(c) PROVE CutShort /\ UNCHANGED writeEnabled
    <3>1. c \in ToolCaller /\ UNCHANGED writeEnabled
      BY <2>2 DEF CallTool, Stages, Move
    <3> QED
      BY <2>2, <3>1, CallsCutShort DEF CatalogueInvariant
  <2>3. ASSUME NEW c \in Caller, Handle(c)
        PROVE  /\ UNCHANGED writeEnabled
               /\ CutShort \/ (Work(c) /\ (c \in ToolCaller => writeEnabled))
    <3>1. HandleCall(c) /\ stage[c] = "handler" /\ UNCHANGED writeEnabled
      BY <2>3, Zenon DEF Handle
    <3>2. c \in ToolCaller => writeEnabled
      BY <3>1 DEF Stages
    <3> QED
      BY <3>1, <3>2, EndsCutShort DEF HandleCall, CatalogueInvariant
  <2>4. ASSUME ApiDies PROVE CutShort /\ UNCHANGED writeEnabled
    BY <2>4, DiesCutShort DEF CatalogueInvariant, ApiDies
  <2>5. ASSUME NEW c \in Caller, SettleSweep(c) PROVE CutShort
    BY <2>5 DEF SettleSweep, CutShort, transaction, CatalogueInvariant, Shape
  <2> QED
    BY <1>3, <1>8, <2>1, <2>2, <2>3, <2>4, <2>5 DEF McpNext
<1> QED
  BY <1>3, <1>4, <1>5, <1>6, <1>7, <1>8 DEF mcpVars

LEMMA SurfaceStarts == McpInit => SurfaceInvariant
<1> SUFFICES ASSUME McpInit PROVE SurfaceInvariant  OBVIOUS
<1>1. /\ rows = {} /\ parentOf = <<>> /\ justified = <<>> /\ inventory = <<>> /\ runs = {}
      /\ over = {} /\ asked \in Scenario
      /\ at = [c \in Caller |-> "select"]
      /\ point = [c \in Caller |-> 1]
      /\ draft = [c \in Caller |-> Empty]
      /\ reply = [c \in Caller |-> "none"]
      /\ stage = [c \in Caller |-> IF c \in ToolCaller THEN "call" ELSE "handler"]
      /\ audit = [c \in Caller |-> "none"]
  BY DEF McpInit, CatalogueInit
<1>2. DOMAIN parentOf = {} /\ DOMAIN justified = {} /\ DOMAIN inventory = {}
  BY <1>1
<1>3. Shape
  BY <1>1 DEF Shape, Empty
<1>4. HostsAgree /\ InventoryIsAnAnswer /\ WorkloadsNamed /\ RowsAgree
  BY <1>1, <1>2 DEF HostsAgree, InventoryIsAnAnswer, WorkloadsNamed, RowsAgree
<1>5. ASSUME NEW c \in Caller PROVE RequestKnows(c) /\ RefreshKnows(c) /\ ImportKnows(c) /\ SweepKnows(c)
  <2>1. at[c] = "select" /\ point[c] = 1 /\ draft[c].runs = {} /\ reply[c] = "none"
    BY <1>1 DEF Empty
  <2>2. asked[c].op \in {"import", "sweep"} => point[c] \in DOMAIN asked[c].points
    BY <1>3, <2>1, Request DEF IsRequest
  <2>3. asked[c].op = "import" =>
          /\ draft[c].runs = {ImportedPoint(c, i) : i \in 1..point[c] - 1}
          /\ \A i \in 1..point[c] : ~(i < point[c])
    BY <2>1
  <2>4. RequestKnows(c) /\ RefreshKnows(c)
    BY <2>1 DEF RequestKnows, RefreshKnows, Asks
  <2>5. ImportKnows(c)
    BY <2>1, <2>2, <2>3 DEF ImportKnows, Importing
  <2>6. SweepKnows(c)
    <3>1. asked[c].op = "sweep" => \A i \in DOMAIN asked[c].points : ~(i < point[c])
      BY <1>3, <2>1, Request DEF IsRequest
    <3> QED
      BY <2>1, <2>2, <3>1 DEF SweepKnows
  <2> QED
    BY <2>4, <2>5, <2>6
<1>6. BatchStored /\ SweepAllOrNothing /\ Lineage
  BY <1>1, <1>2, FS_EmptySet DEF BatchStored, SweepAllOrNothing, Lineage, Rooted
<1>7. Stages
  BY <1>1 DEF Stages
<1>8. ReplyTellsTheTruth
  <2> SUFFICES ASSUME NEW c \in ToolCaller PROVE reply[c] \in Failing /\ at[c] # "committed" /\ ~Stored(c)
    BY DEF ReplyTellsTheTruth
  <2>1. c \in Caller /\ asked[c].op \in {"config", "workload", "annotate", "sweep", "cancel"}
    BY <1>1
  <2> QED
    BY <1>1, <1>2, <2>1 DEF Failing, Stored
<1> QED
  BY <1>3, <1>4, <1>5, <1>6, <1>7, <1>8 DEF SurfaceInvariant, CatalogueInvariant, Knowledge
-----------------------------------------------------------------------------
(* A function can be iterated.                                               *)
LEMMA Iterates ==
  ASSUME NEW N \in Nat, NEW S, NEW F \in [S -> S], NEW a \in S
  PROVE  \E g \in [0..N -> S] : g[0] = a /\ \A n \in 0..N : n # 0 => g[n] = F[g[n - 1]]
<1> DEFINE Good(k) == \E g \in [0..k -> S] : g[0] = a /\ \A n \in 0..k : n # 0 => g[n] = F[g[n - 1]]
           Bad == {k \in Nat : ~Good(k)}
<1> SUFFICES ASSUME Bad # {} PROVE FALSE  OBVIOUS
<1>1. PICK k \in Bad : \A m \in Bad : k <= m
  <2> Bad \in SUBSET Nat  OBVIOUS
  <2> HIDE DEF Bad
  <2> QED
    BY LeastNumber
<1>2. k # 0
  <2>1. [n \in 0..0 |-> a] \in [0..0 -> S] /\ [n \in 0..0 |-> a][0] = a
        /\ \A n \in 0..0 : n = 0
    OBVIOUS
  <2>2. Good(0)
    BY <2>1
  <2> QED
    BY <2>2
<1>3. k - 1 \in Nat /\ k \in Nat
  BY <1>2
<1>4. Good(k - 1)
  <2> HIDE DEF Good
  <2>1. ASSUME k - 1 \in Bad PROVE FALSE
    <3>1. k <= k - 1
      BY <1>1, <2>1
    <3> QED
      BY <1>3, <3>1
  <2> QED
    BY <1>3, <2>1
<1>5. PICK g \in [0..k - 1 -> S] : g[0] = a /\ \A n \in 0..k - 1 : n # 0 => g[n] = F[g[n - 1]]
  BY <1>4
<1> DEFINE h == [n \in 0..k |-> IF n = k THEN F[g[k - 1]] ELSE g[n]]
<1>6. h \in [0..k -> S] /\ h[0] = a
  BY <1>2, <1>3, <1>5
<1>7. \A n \in 0..k : n # 0 => h[n] = F[h[n - 1]]
  <2>1. \A n \in 0..k - 1 : h[n] = g[n]
    BY <1>3
  <2>2. h[k] = F[h[k - 1]]
    BY <1>2, <1>3
  <2> HIDE DEF h
  <2>3. \A n \in 0..k - 1 : n # 0 => n - 1 \in 0..k - 1
    BY <1>3
  <2> QED
    BY <1>3, <1>5, <2>1, <2>2, <2>3
<1>8. Good(k)
  <2> HIDE DEF h
  <2> QED BY <1>6, <1>7
<1> QED
  BY <1>1, <1>8
-----------------------------------------------------------------------------
(* One step of the walk to the ancestors.                                    *)
OneUp(seen) ==
  LET parent == parentOf[Last(seen)] IN
  IF parent \in DOMAIN parentOf \ ToSet(seen) THEN Append(seen, parent) ELSE seen
IsWalk(g, t) ==
  g = [n \in 0..Cardinality(DOMAIN parentOf) |-> IF n = 0 THEN <<t>> ELSE OneUp(g[n - 1])]

LEMMA WalkExists ==
  ASSUME NEW t \in DOMAIN parentOf, IsFiniteSet(DOMAIN parentOf)
  PROVE  \E g : /\ g \in [0..Cardinality(DOMAIN parentOf) -> Seq(DOMAIN parentOf)]
                /\ IsWalk(g, t) /\ Ancestry(t) = g[Cardinality(DOMAIN parentOf)]
<1> DEFINE D == DOMAIN parentOf
           N == Cardinality(D)
           F == [s \in Seq(D) |-> OneUp(s)]
           w == CHOOSE g : IsWalk(g, t)
<1>1. N \in Nat
  BY FS_CardinalityType
<1>2. F \in [Seq(D) -> Seq(D)]
  <2>1. ASSUME NEW s \in Seq(D) PROVE OneUp(s) \in Seq(D)
    <3> DEFINE parent == parentOf[Last(s)]
    <3>1. OneUp(s) = IF parent \in D \ ToSet(s) THEN Append(s, parent) ELSE s
      BY DEF OneUp
    <3> HIDE DEF parent, D
    <3> QED
      BY <3>1
  <2> QED
    BY <2>1
<1>3. <<t>> \in Seq(D)
  OBVIOUS
<1>4. PICK g \in [0..N -> Seq(D)] : g[0] = <<t>> /\ \A n \in 0..N : n # 0 => g[n] = F[g[n - 1]]
  <2> DEFINE S == Seq(D)
             a == <<t>>
  <2>1. N \in Nat /\ F \in [S -> S] /\ a \in S
    BY <1>1, <1>2, <1>3
  <2> HIDE DEF N, F, S, a
  <2>3. \A M \in Nat : \A T : \A G \in [T -> T] : \A b \in T :
          \E g \in [0..M -> T] : g[0] = b /\ \A n \in 0..M : n # 0 => g[n] = G[g[n - 1]]
    BY Iterates
  <2>2. \E g \in [0..N -> S] : g[0] = a /\ \A n \in 0..N : n # 0 => g[n] = F[g[n - 1]]
    <3>1. \A T : \A G \in [T -> T] : \A b \in T :
          \E g \in [0..N -> T] : g[0] = b /\ \A n \in 0..N : n # 0 => g[n] = G[g[n - 1]]
      BY <2>1, <2>3, Zenon
    <3>2. \A G \in [S -> S] : \A b \in S :
          \E g \in [0..N -> S] : g[0] = b /\ \A n \in 0..N : n # 0 => g[n] = G[g[n - 1]]
      BY <3>1
    <3>3. \A b \in S :
          \E g \in [0..N -> S] : g[0] = b /\ \A n \in 0..N : n # 0 => g[n] = F[g[n - 1]]
      BY <2>1, <3>2, Zenon
    <3> QED
      BY <2>1, <3>3, Zenon
  <2> QED
    BY <2>2 DEF S, a
<1>5. ASSUME NEW n \in 0..N, n # 0 PROVE n - 1 \in 0..N
  BY <1>1, <1>5
<1>6. IsWalk(g, t)
  BY <1>4, <1>5 DEF IsWalk
<1>7. IsWalk(w, t)
  BY <1>6
<1>8. Ancestry(t) = w[N]
  BY DEF Ancestry, IsWalk, OneUp
<1>9. w \in [0..N -> Seq(D)]
  <2> DEFINE Bad == {n \in 0..N : w[n] \notin Seq(D)}
  <2> HIDE DEF w
  <2>1. DOMAIN w = 0..N /\ w[0] = <<t>> /\ \A n \in 0..N : n # 0 => w[n] = OneUp(w[n - 1])
    <3>1. w = [n \in 0..N |-> IF n = 0 THEN <<t>> ELSE OneUp(w[n - 1])]
      BY <1>7 DEF IsWalk
    <3>2. 0 \in 0..N
      BY <1>1
    <3> HIDE DEF N
    <3> QED
      BY <3>1, <3>2
  <2>2. w = [n \in 0..N |-> w[n]]
    BY <1>7 DEF IsWalk
  <2>3. ASSUME Bad # {} PROVE FALSE
    <3>1. PICK k \in Bad : \A m \in Bad : k <= m
      <4> Bad \in SUBSET Nat  BY <1>1
      <4> HIDE DEF Bad
      <4> QED
        BY <2>3, LeastNumber
    <3>2. k # 0
      BY <1>3, <2>1
    <3>3. k \in 0..N /\ k - 1 \in 0..N
      BY <1>5, <3>1, <3>2
    <3>5. w[k - 1] \in Seq(D)
      <4>1. k - 1 \in Bad => k <= k - 1
        BY <3>1
      <4>2. ~(k <= k - 1)
        <5> HIDE DEF N
        <5> QED
          BY <1>1, <3>3
      <4> QED
        BY <3>3, <4>1, <4>2
    <3>4. w[k] = F[w[k - 1]]
      BY <2>1, <3>2, <3>3, <3>5
    <3> QED
      BY <1>2, <3>1, <3>4, <3>5
  <2> QED
    BY <2>2, <2>3
<1> QED
  BY <1>7, <1>8, <1>9

(* A text and ancestors of it, each the parent of the one before.            *)
Chained(t, q) ==
  /\ q \in Seq(DOMAIN parentOf) /\ Len(q) # 0 /\ q[1] = t
  /\ \A i \in 1..Len(q) : i # 1 => q[i] = parentOf[q[i - 1]]
  /\ \A i, j \in 1..Len(q) : q[i] = q[j] => i = j
Stuck(q) == parentOf[Last(q)] \notin DOMAIN parentOf \ ToSet(q)

LEMMA OneUpChained ==
  ASSUME NEW t, NEW q, Chained(t, q)
  PROVE  /\ Chained(t, OneUp(q))
         /\ (OneUp(q) = q /\ Stuck(q)) \/ (~Stuck(q) /\ Len(OneUp(q)) = Len(q) + 1)
<1> DEFINE p == parentOf[Last(q)]
           D == DOMAIN parentOf
           r == Append(q, p)
<1>1. CASE Stuck(q)
  BY <1>1 DEF Stuck, OneUp
<1>2. CASE ~Stuck(q)
  <2>1. OneUp(q) = r /\ p \in D /\ p \notin ToSet(q)
    BY <1>2 DEF Stuck, OneUp
  <2>2. p = parentOf[q[Len(q)]] /\ \A i \in 1..Len(q) : q[i] # p
    BY <2>1 DEF Last, ToSet, Chained
  <2> HIDE DEF p, D
  <2>3. /\ q \in Seq(D) /\ Len(q) \in Nat \ {0} /\ q[1] = t
        /\ \A i \in 1..Len(q) : i # 1 => q[i] = parentOf[q[i - 1]]
        /\ \A i, j \in 1..Len(q) : q[i] = q[j] => i = j
    BY DEF Chained, D
  <2>4. r \in Seq(D) /\ Len(r) = Len(q) + 1 /\ r[Len(q) + 1] = p /\ \A i \in 1..Len(q) : r[i] = q[i]
    BY <2>1, <2>3
  <2> HIDE DEF r
  <2>5. \A i \in 1..Len(r) : i \in 1..Len(q) \/ i = Len(q) + 1
    BY <2>3, <2>4
  <2>6. \A i \in 1..Len(r) : i # 1 => r[i] = parentOf[r[i - 1]]
    <3>1. \A i \in 1..Len(q) : i # 1 => i - 1 \in 1..Len(q)
      BY <2>3
    <3>2. Len(q) + 1 - 1 = Len(q) /\ Len(q) \in 1..Len(q)
      BY <2>3
    <3> QED
      BY <2>2, <2>3, <2>4, <2>5, <3>1, <3>2
  <2>7. \A i, j \in 1..Len(r) : r[i] = r[j] => i = j
    BY <2>2, <2>3, <2>4, <2>5
  <2>8. Len(r) # 0 /\ r[1] = t
    BY <2>3, <2>4
  <2> QED
    BY <1>2, <2>1, <2>4, <2>6, <2>7, <2>8 DEF Chained, D
<1> QED
  BY <1>1, <1>2

LEMMA WalkChained ==
  ASSUME NEW t \in DOMAIN parentOf, IsFiniteSet(DOMAIN parentOf)
  PROVE  Chained(t, Ancestry(t)) /\ Stuck(Ancestry(t))
<1> DEFINE D == DOMAIN parentOf
           N == Cardinality(D)
<1>1. N \in Nat
  BY FS_CardinalityType
<1>2. PICK g : g \in [0..N -> Seq(D)] /\ IsWalk(g, t) /\ Ancestry(t) = g[N]
  BY WalkExists
<1>3. g[0] = <<t>> /\ \A n \in 0..N : n # 0 => g[n] = OneUp(g[n - 1])
  BY <1>1, <1>2 DEF IsWalk
<1> DEFINE Good(n) == Chained(t, g[n]) /\ (Stuck(g[n]) \/ Len(g[n]) = n + 1)
           Bad == {n \in 0..N : ~Good(n)}
<1> HIDE DEF N
<1>4. Good(0)
  BY <1>3 DEF Chained
<1>5. ASSUME NEW n \in 0..N, n # 0, Good(n - 1) PROVE Good(n)
  <2>1. g[n] = OneUp(g[n - 1])
    BY <1>3, <1>5
  <2>2. /\ Chained(t, g[n])
        /\ (g[n] = g[n - 1] /\ Stuck(g[n - 1])) \/ (~Stuck(g[n - 1]) /\ Len(g[n]) = Len(g[n - 1]) + 1)
    <3>1. Chained(t, g[n - 1])
      BY <1>5
    <3> QED
      BY <2>1, <3>1, OneUpChained
  <2>3. n - 1 + 1 = n
    BY <1>1
  <2> QED
    BY <1>5, <2>2, <2>3
<1> HIDE DEF Good
<1>6. Bad = {}
  <2> SUFFICES ASSUME Bad # {} PROVE FALSE  OBVIOUS
  <2>1. PICK n \in Bad : \A m \in Bad : n <= m
    <3> Bad \in SUBSET Nat  BY <1>1
    <3> HIDE DEF Bad
    <3> QED
      BY LeastNumber
  <2>2. n # 0 /\ n \in 0..N /\ ~Good(n)
    BY <1>4, <2>1
  <2>3. n - 1 \in 0..N /\ ~(n <= n - 1)
    BY <1>1, <2>2
  <2>4. Good(n - 1)
    BY <2>1, <2>3
  <2> QED
    BY <1>5, <2>2, <2>4
<1>7. Good(N)
  BY <1>1, <1>6
<1> DEFINE q == Ancestry(t)
<1>8. Chained(t, q) /\ (Stuck(q) \/ Len(q) = N + 1)
  BY <1>2, <1>7 DEF Good
<1>9. Len(q) # N + 1
  <2> SUFFICES ASSUME Len(q) = N + 1 PROVE FALSE  OBVIOUS
  <2> HIDE DEF q
  <2>1. q \in [1..N + 1 -> D] /\ \A i, j \in 1..N + 1 : q[i] = q[j] => i = j
    BY <1>1, <1>8 DEF Chained
  <2>2. q \in Injection(1..N + 1, D)
    BY <2>1 DEF Injection, IsInjective
  <2>3. Cardinality(1..N + 1) <= Cardinality(D)
    BY <2>2, FS_Injection
  <2>4. Cardinality(1..N + 1) = N + 1
    BY <1>1, FS_Interval
  <2> QED
    BY <1>1, <2>3, <2>4 DEF N
<1> QED
  BY <1>8, <1>9


(* The whole lineage of a text.                                               *)
Ended(t, q) == Chained(t, q) /\ parentOf[Last(q)] \notin DOMAIN parentOf

LEMMA NeverBack ==
  ASSUME Rooted, NEW t, NEW q, Chained(t, q) PROVE parentOf[Last(q)] \notin ToSet(q)
<1> DEFINE n == Len(q)
<1>1. /\ n \in Nat /\ n # 0 /\ q \in Seq(DOMAIN parentOf)
      /\ \A i \in 1..n : i # 1 => q[i] = parentOf[q[i - 1]]
  BY DEF Chained
<1> SUFFICES ASSUME NEW j \in 1..n, parentOf[q[n]] = q[j] PROVE FALSE
  BY <1>1 DEF Last, ToSet
<1> DEFINE S == {q[i] : i \in j..n}
<1>2. S \in SUBSET DOMAIN parentOf /\ S # {}
  BY <1>1
<1>3. PICK i \in j..n : parentOf[q[i]] \notin S
  BY <1>2 DEF Rooted
<1>4. CASE i = n
  <2>1. q[j] \in S
    BY <1>1
  <2> QED
    BY <1>3, <1>4, <2>1
<1>5. CASE i # n
  <2>1. i + 1 \in j..n /\ i + 1 \in 1..n /\ i + 1 # 1 /\ i + 1 - 1 = i
    BY <1>1, <1>5
  <2>2. q[i + 1] = parentOf[q[i]]
    BY <1>1, <2>1
  <2>3. q[i + 1] \in S
    BY <2>1
  <2> QED
    BY <1>3, <2>2, <2>3
<1> QED
  BY <1>4, <1>5

LEMMA OneLonger ==
  ASSUME NEW t, NEW q, NEW r, Chained(t, q), Ended(t, r)
  PROVE  Len(q) <= Len(r) /\ \A i \in 1..Len(q) : q[i] = r[i]
<1> DEFINE Bad == {i \in 1..Len(q) : ~(i <= Len(r) /\ q[i] = r[i])}
<1>1. /\ Len(q) \in Nat /\ Len(q) # 0 /\ q[1] = t /\ q \in Seq(DOMAIN parentOf)
      /\ \A i \in 1..Len(q) : i # 1 => q[i] = parentOf[q[i - 1]]
  BY DEF Chained
<1>2. /\ Len(r) \in Nat /\ Len(r) # 0 /\ r[1] = t /\ parentOf[r[Len(r)]] \notin DOMAIN parentOf
      /\ \A i \in 1..Len(r) : i # 1 => r[i] = parentOf[r[i - 1]]
  BY DEF Chained, Ended, Last
<1>3. Bad = {}
  <2> SUFFICES ASSUME Bad # {} PROVE FALSE  OBVIOUS
  <2>1. PICK i \in Bad : \A m \in Bad : i <= m
    <3> Bad \in SUBSET Nat  BY <1>1
    <3> HIDE DEF Bad
    <3> QED
      BY LeastNumber
  <2>2. i \in 1..Len(q) /\ i # 1
    BY <1>1, <1>2, <2>1
  <2>3. i - 1 \in 1..Len(q) /\ ~(i <= i - 1)
    BY <1>1, <2>2
  <2>4. i - 1 <= Len(r) /\ q[i - 1] = r[i - 1]
    BY <2>1, <2>3
  <2>5. q[i] = parentOf[q[i - 1]] /\ q[i] \in DOMAIN parentOf
    BY <1>1, <2>2
  <2>6. CASE i <= Len(r)
    <3>1. i \in 1..Len(r)
      BY <1>2, <2>2, <2>6
    <3>2. r[i] = parentOf[r[i - 1]]
      BY <1>2, <2>2, <3>1
    <3> QED
      BY <2>1, <2>4, <2>5, <2>6, <3>2
  <2>7. CASE ~(i <= Len(r))
    <3>1. i - 1 = Len(r)
      BY <1>1, <1>2, <2>2, <2>4, <2>7
    <3> QED
      BY <1>2, <2>4, <2>5, <3>1
  <2> QED
    BY <2>6, <2>7
<1>4. \A i \in 1..Len(q) : i <= Len(r) /\ q[i] = r[i]
  BY <1>3
<1>5. Len(q) \in 1..Len(q)
  BY <1>1
<1> QED
  BY <1>4, <1>5

LEMMA OneChain ==
  ASSUME NEW t, NEW q, NEW r, Ended(t, q), Ended(t, r) PROVE q = r
<1>1. Chained(t, q) /\ Chained(t, r)
  BY DEF Ended
<1>2. /\ Len(q) <= Len(r) /\ \A i \in 1..Len(q) : q[i] = r[i]
      /\ Len(r) <= Len(q)
  BY <1>1, OneLonger
<1>3. q \in Seq(DOMAIN parentOf) /\ r \in Seq(DOMAIN parentOf)
  BY <1>1 DEF Chained
<1>4. Len(q) = Len(r)
  BY <1>2, <1>3
<1> QED
  BY <1>2, <1>3, <1>4

LEMMA LineageOf ==
  ASSUME Rooted, IsFiniteSet(DOMAIN parentOf),
         \A t \in DOMAIN parentOf : parentOf[t] \in {NoParent} \cup DOMAIN parentOf
  PROVE  LineageHasNoCycle
<1> DEFINE D == DOMAIN parentOf
<1>1. ASSUME NEW t \in D PROVE Ended(t, Ancestry(t)) /\ ~LineageTruncated(t)
  <2>1. Chained(t, Ancestry(t)) /\ Stuck(Ancestry(t))
    BY <1>1, WalkChained
  <2>2. parentOf[Last(Ancestry(t))] \notin ToSet(Ancestry(t))
    BY <2>1, NeverBack
  <2> QED
    BY <2>1, <2>2 DEF Stuck, Ended, LineageTruncated
<1>2. ASSUME NEW t \in D PROVE parentOf[Last(Ancestry(t))] = NoParent
  <2>1. Ended(t, Ancestry(t))
    BY <1>2, <1>1
  <2>2. Last(Ancestry(t)) \in D
    BY <2>1 DEF Ended, Chained, Last
  <2> QED
    BY <2>1, <2>2 DEF Ended
<1>3. ASSUME NEW t \in D, NEW s \in Children(t) PROVE Ancestors(s) = Ancestry(t)
  <2> DEFINE q == Ancestry(s)
             r == Tail(q)
  <2>1. s \in D /\ parentOf[s] = t
    BY <1>3 DEF Children
  <2>2. Ended(s, q) /\ Ended(t, Ancestry(t))
    BY <1>1, <2>1, <1>3
  <2>3. /\ q \in Seq(D) /\ Len(q) \in Nat \ {0} /\ q[1] = s /\ parentOf[q[Len(q)]] \notin D
        /\ \A i \in 1..Len(q) : i # 1 => q[i] = parentOf[q[i - 1]]
        /\ \A i, j \in 1..Len(q) : q[i] = q[j] => i = j
    BY <2>2 DEF Ended, Chained, Last
  <2> HIDE DEF q
  <2>4. Len(q) # 1
    BY <2>1, <2>3, <1>3
  <2>5. r \in Seq(D) /\ Len(r) = Len(q) - 1 /\ \A i \in 1..Len(r) : r[i] = q[i + 1]
    BY <2>3
  <2> HIDE DEF r
  <2>6. Len(r) # 0 /\ r[1] = t
    <3>1. 2 \in 1..Len(q) /\ 1 \in 1..Len(r)
      BY <2>3, <2>4, <2>5
    <3>2. q[2] = parentOf[q[2 - 1]] /\ r[1] = q[1 + 1]
      BY <2>3, <2>5, <3>1
    <3> QED
      BY <2>1, <2>3, <2>5, <3>1, <3>2
  <2>7. ASSUME NEW i \in 1..Len(r), i # 1 PROVE r[i] = parentOf[r[i - 1]]
    <3>1. /\ i + 1 \in 1..Len(q) /\ i + 1 # 1 /\ i + 1 - 1 = i
          /\ i - 1 \in 1..Len(r) /\ i - 1 + 1 = i
      BY <2>3, <2>5, <2>7
    <3>2. r[i] = q[i + 1] /\ r[i - 1] = q[i]
      BY <2>5, <3>1
    <3> QED
      BY <2>3, <3>1, <3>2
  <2>8. ASSUME NEW i \in 1..Len(r), NEW j \in 1..Len(r), r[i] = r[j] PROVE i = j
    <3>1. i + 1 \in 1..Len(q) /\ j + 1 \in 1..Len(q)
      BY <2>3, <2>5
    <3>2. q[i + 1] = q[j + 1]
      BY <2>5, <2>8
    <3>3. i + 1 = j + 1
      BY <2>3, <3>1, <3>2
    <3> QED
      BY <3>3
  <2>9. parentOf[Last(r)] \notin D
    <3>1. Len(r) \in 1..Len(r) /\ Len(r) + 1 = Len(q)
      BY <2>3, <2>4, <2>5
    <3>2. r[Len(r)] = q[Len(q)]
      BY <2>5, <3>1
    <3> QED
      BY <2>3, <3>2 DEF Last
  <2>10. Ended(t, r)
    BY <2>5, <2>6, <2>7, <2>8, <2>9 DEF Ended, Chained
  <2>11. r = Ancestry(t)
    BY <2>2, <2>10, OneChain
  <2> QED
    BY <2>11 DEF Ancestors, q, r
<1> QED
  BY <1>1, <1>2, <1>3 DEF LineageHasNoCycle
-----------------------------------------------------------------------------
(* The rows, the requests over them and the log of the tools agree in every   *)
(* reachable state: the inductive invariant.                                  *)
THEOREM SurfaceHolds == McpSpec => []SurfaceInvariant
<1>1. McpInit => SurfaceInvariant
  BY SurfaceStarts
<1>2. SurfaceInvariant /\ [McpNext]_mcpVars => SurfaceInvariant'
  BY SurfaceKept
<1> QED
  BY <1>1, <1>2, PTL DEF McpSpec

(* No committed row refers to one that is not there, and the devices of a     *)
(* host are those of one answer of its agent, for any number of requests in   *)
(* any order, processes that die included.                                    *)
THEOREM RowsAlwaysAgree == McpSpec => []RowsAgree
<1>1. SurfaceInvariant => RowsAgree
  BY DEF SurfaceInvariant, CatalogueInvariant
<1> QED
  BY <1>1, SurfaceHolds, PTL

(* A sweep is stored with all its points or with none: with all when its      *)
(* caller was told, with none when its caller was refused or a constraint     *)
(* ended it.                                                                  *)
THEOREM SweepsAreWhole == McpSpec => []SweepAllOrNothing
<1>1. SurfaceInvariant => SweepAllOrNothing
  BY DEF SurfaceInvariant, CatalogueInvariant
<1> QED
  BY <1>1, SurfaceHolds, PTL

(* What the log says of a call of a tool is what the call did, unless the     *)
(* call broke: of that it says failed, whether it had committed or not.       *)
THEOREM AuditIsTrue == McpSpec => []AuditTellsTheTruth
<1>1. SurfaceInvariant => AuditTellsTheTruth
  <2> SUFFICES ASSUME SurfaceInvariant, NEW c \in ToolCaller
               PROVE  /\ audit[c] = "succeeded" /\ (asked[c].op = "annotate" => SoleAuthor(c)) => Stored(c)
                      /\ SoleAuthor(c) /\ (audit[c] \in {"refused", "failed"} \/ ~writeEnabled) =>
                           ~Stored(c) \/ reply[c] = "broken"
    BY DEF AuditTellsTheTruth
  <2>1. audit[c] = "succeeded" => reply[c] \notin Failing
    BY DEF SurfaceInvariant, Stages, Outcome, Failing
  <2>2. audit[c] \in {"refused", "failed"} \/ ~writeEnabled => Undone(c) \/ reply[c] = "broken"
    BY DEF SurfaceInvariant, Stages, Outcome, Undone
  <2> QED
    BY <2>1, <2>2 DEF SurfaceInvariant, ReplyTellsTheTruth
<1> QED
  BY <1>1, SurfaceHolds, PTL

(* Every configuration descends from one without a parent, and its lineage is *)
(* that of its parent and itself, whatever is submitted side by side.         *)
THEOREM LineagesEnd == McpSpec => []LineageHasNoCycle
<1>1. SurfaceInvariant => LineageHasNoCycle
  BY LineageOf DEF SurfaceInvariant, CatalogueInvariant, Lineage, RowsAgree
<1> QED
  BY <1>1, SurfaceHolds, PTL
=============================================================================
