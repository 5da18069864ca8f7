----------------------------- MODULE ConfigText -----------------------------
(***************************************************************************)
(* A server configuration as the control plane reads it: lines of text, of  *)
(* which only the tensor-parallel setting is ever changed.  A line has a    *)
(* key, an indentation, a value and perhaps a comment behind it; two         *)
(* spellings of the key are one vLLM argument.                              *)
(***************************************************************************)
EXTENDS Integers, Sequences, SequencesExt

TpKeys == {"tensor-parallel-size", "tensor_parallel_size"}
Text == Seq([key : STRING, indent : Nat, value : Int, comment : BOOLEAN])
NotANumber == -1
NotSaid == -2
Tp(key, n) == [key |-> key, indent |-> 0, value |-> n, comment |-> FALSE]
Blank(line) == line.key = "blank"

(* normalize_yaml: spaces and empty lines at both ends go, the indentation   *)
(* of the first line with them.                                              *)
Written(text) == {i \in DOMAIN text : ~Blank(text[i])}
Normalized(text) ==
  IF Written(text) = {} THEN <<>>
  ELSE [SubSeq(text, Min(Written(text)), Max(Written(text))) EXCEPT ![1].indent = 0]

(* _TP_LINE: anchored at column zero.                                        *)
TpLines(text) == {i \in DOMAIN text : text[i].key \in TpKeys /\ text[i].indent = 0}

(* tensor_parallel_variant: one value on one line changes; the line is       *)
(* appended when there is none, and two of them are refused.                 *)
Ambiguous(text) == \E i, j \in TpLines(text) : i # j
(* Mutant of Variant: the line is always appended. *)
VariantAppended(text, n) == Append(text, Tp("tensor-parallel-size", n))
Variant(text, n) ==
  IF TpLines(text) = {} THEN Append(text, Tp("tensor-parallel-size", n))
  ELSE [text EXCEPT ![CHOOSE i \in TpLines(text) : TRUE].value = n]

(* read_tensor_parallel_size, and _declared_parallelism of the agent.        *)
ReadTp(text) == IF TpLines(text) = {} THEN NotSaid ELSE text[Min(TpLines(text))].value
AgentReadsTp(text) ==
  LET lines == {i \in DOMAIN text : /\ text[i].key \in TpKeys
                                    /\ text[i].value # NotANumber /\ ~text[i].comment} IN
  IF lines = {} THEN NotSaid ELSE text[Max(lines)].value

(* config_family_text: the text without the line, unless there are two.      *)
FamilyText(text) ==
  IF TpLines(text) = {} \/ Ambiguous(text) THEN text
  ELSE RemoveAt(text, CHOOSE i \in TpLines(text) : TRUE)

(* _parse and _topology_findings: a key that is set twice in one spelling,   *)
(* and the first of the spellings against the devices of the host.           *)
Settings(text) == {i \in DOMAIN text : ~Blank(text[i]) /\ text[i].indent = text[1].indent}
SetTwice(text) == \E i, j \in Settings(text) : i # j /\ text[i].key = text[j].key
Declared(text) == {i \in Settings(text) : text[i].key \in TpKeys /\ text[i].value # NotANumber}
TopologyError(text, gpus) ==
  /\ Declared(text) # {}
  /\ LET n == text[Min(Declared(text))].value IN n < 1 \/ n > gpus
Valid(text, gpus) ==
  /\ Written(text) # {}
  /\ ~SetTwice(text) /\ ~TopologyError(text, gpus)
  /\ \A i \in Settings(text) : text[i].key \in TpKeys => text[i].value # NotANumber
-----------------------------------------------------------------------------
(* A variant says what it was derived for, belongs to the family of its      *)
(* base, and forgets the size its base had; storing it changes nothing more. *)
RoundTrips(text, n, m) ==
  LET stored == Normalized(text)
      variant == Variant(stored, n) IN
  stored # <<>> /\ ~Ambiguous(stored) =>
    /\ ReadTp(variant) = n
    /\ FamilyText(variant) = FamilyText(stored)
    /\ Variant(variant, m) = Variant(stored, m)
    /\ Normalized(variant) = variant

(* A variant of a text that validates for a host validates too, if the host  *)
(* has the devices; and the agent launches it with the size it says, unless  *)
(* the line has a comment or the key occurs a second time, indented.         *)
StaysValid(text, n, gpus) ==
  LET variant == Variant(Normalized(text), n)
      lines == {i \in DOMAIN variant : variant[i].key \in TpKeys} IN
  Valid(Normalized(text), gpus) /\ ~Ambiguous(Normalized(text)) /\ n <= gpus =>
    /\ Valid(variant, gpus)
    /\ (\A i, j \in lines : i = j /\ ~variant[i].comment) => AgentReadsTp(variant) = n
=============================================================================
