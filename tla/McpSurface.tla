----------------------------- MODULE McpSurface -----------------------------
(***************************************************************************)
(* The write tools of the MCP surface over the same handlers: the switch    *)
(* that refuses them all, the handler called as any request calls it, and   *)
(* the audit record written afterwards in a session of its own, which may   *)
(* fail without failing the call.  The process serving them may die at any  *)
(* point; its sessions roll back.                                           *)
(***************************************************************************)
EXTENDS Catalogue

CONSTANT
  ToolCaller   \* the requests that are tool calls; the others are plain HTTP
(* The tool annotate_config has no argument that withdraws a justification.  *)
ASSUME ToolAssumption ==
  /\ ToolCaller \subseteq Caller
  /\ \A s \in Scenario : \A c \in ToolCaller :
       /\ s[c].op \in {"config", "workload", "annotate", "sweep", "cancel"}
       /\ s[c].op = "annotate" => s[c].clear = FALSE

VARIABLES
  writeEnabled,  \* settings.mcp_write_enabled
  stage,         \* of each call: "call", "handler", "told", or "dead" with its process
  audit          \* mcp_write_audit: the outcome recorded of each call

mcpVars == <<catalogueVars, writeEnabled, stage, audit>>

McpInit ==
  /\ CatalogueInit
  /\ writeEnabled \in BOOLEAN
  /\ stage = [c \in Caller |-> IF c \in ToolCaller THEN "call" ELSE "handler"]
  /\ audit = [c \in Caller |-> "none"]

Move(c, s) == stage' = [stage EXCEPT ![c] = s] /\ UNCHANGED writeEnabled
Record(c, outcome) == audit' = [audit EXCEPT ![c] = outcome]

(* write_tool: the switch is enforced before the tool and recorded as a      *)
(* refusal.                                                                  *)
SwitchedOff(c) ==
  /\ stage[c] = "call" /\ ~writeEnabled
  /\ Record(c, "refused") \/ UNCHANGED audit
  /\ Move(c, "told")
  /\ UNCHANGED catalogueVars

(* The tools create_config and create_sweep find what they refer to by hash  *)
(* before the handler does; the other tools pass their arguments on.         *)
UnknownParent(q) == q.op = "config" /\ q.parent \notin {NoParent} \cup DOMAIN parentOf
UnknownAxis(q) ==
  /\ q.op = "sweep"
  /\ \E p \in Range(q.points) : ~{Config(p.base), Workload(p.traffic)} \subseteq rows
CallTool(c) ==
  LET q == asked[c] IN
  /\ stage[c] = "call" /\ writeEnabled
  /\ IF UnknownParent(q) \/ UnknownAxis(q) THEN Done(c, "refused") ELSE UNCHANGED <<at, reply>>
  /\ Move(c, "handler")
  /\ UNCHANGED <<tables, asked, transaction, audit>>

Handle(c) ==
  /\ stage[c] = "handler"
  /\ HandleCall(c)
  /\ UNCHANGED <<writeEnabled, stage, audit>>

(* _is_refusal: a ValueError or a 4xx is the surface declining the call,     *)
(* anything else a bug.                                                      *)
Outcome(r) == CASE r = "refused" -> "refused"
                [] r \in {"error", "broken"} -> "failed"
                [] OTHER         -> "succeeded"

(* Mutant of RecordCall: the record is written before the handler commits.   *)
RecordAtOnce(c) ==
  /\ stage[c] = "handler" /\ c \in ToolCaller
  /\ audit[c] = "none" /\ Record(c, Outcome(reply[c]))
  /\ IF reply[c] = "none" THEN UNCHANGED <<stage, writeEnabled>> ELSE Move(c, "told")
  /\ UNCHANGED catalogueVars
RecordCall(c) ==
  /\ stage[c] = "handler" /\ c \in ToolCaller
  /\ reply[c] # "none"
  /\ Record(c, Outcome(reply[c])) \/ UNCHANGED audit
  /\ Move(c, "told")
  /\ UNCHANGED catalogueVars

ApiDies ==
  LET cut == {c \in Caller : /\ stage[c] \in {"call", "handler"}
                             /\ c \in ToolCaller \/ reply[c] = "none"} IN
  /\ \A c \in Caller : stage[c] # "dead"
  /\ cut # {}
  /\ stage' = [c \in Caller |-> IF c \in cut THEN "dead" ELSE stage[c]]
  /\ at' = [c \in Caller |-> IF c \in cut THEN "answered" ELSE at[c]]
  /\ draft' = [c \in Caller |-> IF c \in cut THEN Empty ELSE draft[c]]
  /\ UNCHANGED <<tables, asked, point, reply, writeEnabled, audit>>

McpNext ==
  \/ \E c \in Caller : SwitchedOff(c) \/ CallTool(c) \/ Handle(c) \/ RecordCall(c)
  \/ \E c \in Caller : SettleSweep(c) /\ UNCHANGED <<writeEnabled, stage, audit>>
  \/ ApiDies
McpSpec == McpInit /\ [][McpNext]_mcpVars
-----------------------------------------------------------------------------
(* What the log says of a call is what it did: a success is committed; a     *)
(* refusal, and a failure unless the session itself broke, perhaps after its *)
(* commit, of a row that only this call asked for left none; and a surface   *)
(* that is switched off writes nothing (_record, write_tool).                *)
SoleAuthor(c) ==
  CASE asked[c].op = "sweep"  -> TRUE
    [] asked[c].op = "cancel" -> FALSE     \* a sweep ends of itself, too
    [] OTHER -> \A d \in Caller \ {c} : asked[d].op \notin {asked[c].op, "import", "sweep"}
Stored(c) ==
  CASE asked[c].op = "config"   -> Config(asked[c].text) \in rows
    [] asked[c].op = "workload" -> Workload(asked[c].traffic) \in rows
    [] asked[c].op = "sweep"    -> \E r \in runs : r.by = c
    [] asked[c].op = "cancel"   -> asked[c].sweep \in over
    [] asked[c].op = "annotate" -> asked[c].text \in DOMAIN justified
AuditTellsTheTruth ==
  \A c \in ToolCaller :
    /\ audit[c] = "succeeded" /\ (asked[c].op = "annotate" => SoleAuthor(c)) => Stored(c)
    /\ SoleAuthor(c) /\ (audit[c] \in {"refused", "failed"} \/ ~writeEnabled) =>
         ~Stored(c) \/ reply[c] = "broken"
=============================================================================
