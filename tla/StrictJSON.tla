----------------------------- MODULE StrictJSON -----------------------------
(***************************************************************************)
(* What the servers demand of JSON: the checks of a protocol line by the   *)
(* frame reader (ValidateObject and the aliases of the envelope) and of    *)
(* tool arguments by decodeArguments, over values that are tokens already. *)
(*                                                                         *)
(* A key is <<name, spelling>>: two keys fold to the same when their names *)
(* agree.                                                                  *)
(***************************************************************************)
EXTENDS Integers, Sequences, SequencesExt

CONSTANTS
  MaxNestingDepth,  \* maxNestingDepth
  Documents,        \* the JSON values the lines hold, by number
  Arguments         \* the argument names of the tool

ASSUME JSONAssumption == MaxNestingDepth \in Nat \ {0}

-----------------------------------------------------------------------------
(* JSON values, as strictjson walks them.                                  *)

Scalar == [kind |-> "scalar"]
Null == [kind |-> "null"]
Array(items) == [kind |-> "array", items |-> items]
Object(fields) == [kind |-> "object", fields |-> fields]  \* <<key, value>> pairs

RECURSIVE consumeValue(_, _, _, _)

\* A bug of consumeObject: folded keys are compared at the top level only.
consumeObjectTopOnly(fields, depth, rejectNull, foldAliases) ==
  /\ depth <= MaxNestingDepth
  /\ \A i, j \in DOMAIN fields : i # j =>
       /\ fields[i][1] # fields[j][1]
       /\ foldAliases /\ depth = 1 => fields[i][1][1] # fields[j][1][1]
  /\ \A i \in DOMAIN fields : consumeValue(fields[i][2], depth, rejectNull, foldAliases)

\* consumeObject: no key twice, nor under another spelling when aliases fold.
consumeObject(fields, depth, rejectNull, foldAliases) ==
  /\ depth <= MaxNestingDepth
  /\ \A i, j \in DOMAIN fields : i # j =>
       /\ fields[i][1] # fields[j][1]
       /\ foldAliases => fields[i][1][1] # fields[j][1][1]
  /\ \A i \in DOMAIN fields : consumeValue(fields[i][2], depth, rejectNull, foldAliases)

\* consumeValue and consumeArray.
consumeValue(v, depth, rejectNull, foldAliases) ==
  CASE v.kind = "null" -> ~rejectNull
    [] v.kind = "scalar" -> TRUE
    [] v.kind = "object" -> consumeObject(v.fields, depth + 1, rejectNull, foldAliases)
    [] v.kind = "array" ->
         /\ depth + 1 <= MaxNestingDepth
         /\ \A i \in DOMAIN v.items : consumeValue(v.items[i], depth + 1, rejectNull, foldAliases)

\* validateObject.
validateObject(v, rejectNull, foldAliases) ==
  v.kind = "object" /\ consumeObject(v.fields, 1, rejectNull, foldAliases)

\* DecodeObject: strict at any depth, and only fields the tool has.
DecodeObject(v) ==
  /\ validateObject(v, TRUE, TRUE)
  /\ \A i \in DOMAIN v.fields : v.fields[i][1][1] \in Arguments

\* openProtocolMap: maps whose keys are the client's own.
openProtocolMap(path) ==
  /\ path # <<>>
  /\ \/ Last(path) \in {"_meta", "arguments"}
     \/ /\ Len(path) >= 2 /\ path[Len(path) - 1] = "capabilities"
        /\ Last(path) \in {"experimental", "extensions"}

\* validAliasesAt: no aliases in the protocol envelope.
RECURSIVE validAliasesAt(_, _)

validAliasesAt(v, path) ==
  CASE v.kind = "object" ->
         \/ openProtocolMap(path)
         \/ \A i \in DOMAIN v.fields :
              /\ \A j \in DOMAIN v.fields : i # j => v.fields[i][1][1] # v.fields[j][1][1]
              /\ validAliasesAt(v.fields[i][2], Append(path, v.fields[i][1][1]))
    [] v.kind = "array" -> \A i \in DOMAIN v.items : validAliasesAt(v.items[i], path)
    [] OTHER -> TRUE

\* The lines that are admitted: strictjson.ValidateObject and validProtocolAliases.
ValidDocuments ==
  {d \in DOMAIN Documents : validateObject(Documents[d], FALSE, FALSE) /\ validAliasesAt(Documents[d], <<>>)}

\* The values of a field of some values.
Field(values, name) ==
  UNION {{v.fields[k][2] : k \in {j \in DOMAIN v.fields : v.fields[j][1][1] = name}} :
           v \in {w \in values : w.kind = "object"}}

\* The calls the SDK can take: it unmarshals their params into a struct.
callParams ==
  {d \in DOMAIN Documents : \A v \in Field({Documents[d]}, "params") : v.kind = "object"}

\* decodeArguments, and the calls it lets through.
decodeArguments ==
  {d \in DOMAIN Documents :
     \A v \in Field(Field({Documents[d]}, "params"), "arguments") : DecodeObject(v)}

-----------------------------------------------------------------------------
(* What both checks are for.                                               *)

\* Objects inside a value, with the path of folded names that leads to each.
RECURSIVE Objects(_, _)

Objects(v, path) ==
  CASE v.kind = "object" ->
         {[path |-> path, fields |-> v.fields]}
           \cup UNION {Objects(v.fields[i][2], Append(path, v.fields[i][1][1])) : i \in DOMAIN v.fields}
    [] v.kind = "array" -> UNION {Objects(v.items[i], path) : i \in DOMAIN v.items}
    [] OTHER -> {}

\* Documents with a key that another reader could take for a different one, in
\* the envelope or in the arguments of a tool.  Only in maps that are the
\* client's own are such keys distinct.
AmbiguousDocuments ==
  {d \in DOMAIN Documents :
     \E o \in Objects(Documents[d], <<>>) :
       /\ \E i, j \in DOMAIN o.fields : i # j /\ o.fields[i][1][1] = o.fields[j][1][1]
       /\ ~\E k \in DOMAIN o.path :
             LET path == [n \in 1 .. k |-> o.path[n]]
             IN openProtocolMap(path) /\ path # <<"params", "arguments">>}
=============================================================================
