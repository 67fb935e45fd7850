----------------------------- MODULE Contracts -----------------------------
(***************************************************************************)
(* The check that a contract stays compatible with its baseline:           *)
(* packages/contracts/src/compatibility.ts.  It compares two JSON          *)
(* documents, an OpenAPI description or a JSON schema, member by member.   *)
(* The contract is edited, one change after the other.                     *)
(*                                                                         *)
(* A JSON value is a record with one field that tells what it is:          *)
(* members, a function on the names of an object's members; items, the     *)
(* sequence of an array; or number, text or flag.                          *)
(***************************************************************************)
EXTENDS Naturals, FiniteSets, SequencesExt

CONSTANTS
    Baseline,  \* the contract that was released
    Edits      \* the changes that may be made to it, each at a path of its own

VARIABLES
    current,  \* the contract
    made      \* the edits made since the baseline

vars == <<current, made>>

AnnotationKeys == {"$comment", "description", "example", "examples",
                   "externalDocs", "summary", "title"}

UnorderedArrayKeys == {"allOf", "anyOf", "enum", "oneOf", "required", "security", "tags"}

AdditiveArrayKeys == {"security", "tags"}

AdditiveContainers == {"$defs", "components", "content", "headers", "parameters",
                       "paths", "properties", "responses", "schemas",
                       "securitySchemes", "webhooks"}

HttpMethods == {"delete", "get", "head", "options", "patch", "post", "put", "trace"}

MinimumKeywords == {"exclusiveMinimum", "minContains", "minItems", "minLength",
                    "minProperties", "minimum"}

MaximumKeywords == {"exclusiveMaximum", "maxContains", "maxItems", "maxLength",
                    "maxProperties", "maximum"}

-----------------------------------------------------------------------------
(* unordered: the items of an array once their order is forgotten. *)
IsArray(value) == DOMAIN value \in {{"items"}, {"unordered"}}

IsJsonObject(value) == DOMAIN value = {"members"}

IsNumber(value) == DOMAIN value = {"number"}

IsRequired(value) ==
    /\ IsJsonObject(value)
    /\ "required" \in DOMAIN value.members
    /\ value.members["required"] = [flag |-> TRUE]

Keyword(path) == IF path = <<>> THEN "" ELSE Last(path)

(* What is compared: no annotations, and no order where it has no meaning. *)
RECURSIVE Surface(_, _)
Surface(value, path) ==
    CASE IsArray(value) ->
            LET items == [i \in DOMAIN value.items |-> Surface(value.items[i], path)]
            IN  IF Keyword(path) \in UnorderedArrayKeys THEN [unordered |-> ToSet(items)]
                                                        ELSE [items |-> items]
      [] IsJsonObject(value) ->
            LET skipped == AnnotationKeys \cup IF path = <<>> THEN {"info"} ELSE {}
            IN  [members |-> [key \in DOMAIN value.members \ skipped |->
                                 Surface(value.members[key], Append(path, key))]]
      [] OTHER -> value

IsAllowedAddition(path, key, value) ==
    \/ Keyword(path) \in AdditiveContainers
    \/ Len(path) = 2 /\ path[1] = "paths" /\ key \in HttpMethods
    \/ /\ key = "parameters" /\ IsArray(value)
       /\ \A i \in DOMAIN value.items : ~IsRequired(value.items[i])
    \/ key = "requestBody" /\ IsJsonObject(value) /\ ~IsRequired(value)

ChangedKind(keyword, baseline, candidate) ==
    LET narrowed ==
          \/ /\ IsNumber(baseline) /\ IsNumber(candidate)
             /\ \/ keyword \in MinimumKeywords /\ candidate.number > baseline.number
                \/ keyword \in MaximumKeywords /\ candidate.number < baseline.number
          \/ /\ IsArray(baseline) /\ IsArray(candidate)
             /\ \/ /\ keyword = "enum"
                   /\ ~(baseline.unordered \subseteq candidate.unordered)
                \/ /\ keyword = "required"
                   /\ Cardinality(candidate.unordered) > Cardinality(baseline.unordered)
    IN  IF narrowed THEN "narrowed" ELSE "changed"

Issue(kind, path) == [kind |-> kind, path |-> path]

RECURSIVE Compare(_, _, _)
Compare(baseline, candidate, path) ==
    LET keyword == Keyword(path)
        changed == {Issue(ChangedKind(keyword, baseline, candidate), path)}
    IN  CASE IsArray(baseline) \/ IsArray(candidate) ->
                IF \/ /\ keyword \in AdditiveArrayKeys
                      /\ IsArray(baseline) /\ IsArray(candidate)
                      /\ baseline.unordered \subseteq candidate.unordered
                   \/ baseline = candidate
                THEN {} ELSE changed
          [] IsJsonObject(baseline) /\ IsJsonObject(candidate) ->
                LET old == baseline.members
                    new == candidate.members
                IN  {Issue("removed", Append(path, key)) : key \in DOMAIN old \ DOMAIN new}
                    \cup {Issue("narrowed", Append(path, key)) : key \in
                            {k \in DOMAIN new \ DOMAIN old : ~IsAllowedAddition(path, k, new[k])}}
                    \cup UNION {Compare(old[key], new[key], Append(path, key)) :
                                  key \in DOMAIN old \cap DOMAIN new}
          [] OTHER -> IF baseline = candidate THEN {} ELSE changed

FindBreakingContractChanges(baseline, candidate) ==
    Compare(Surface(baseline, <<>>), Surface(candidate, <<>>), <<>>)

-----------------------------------------------------------------------------
(***************************************************************************)
(* Edits                                                                   *)
(***************************************************************************)

(* An edit removes the member at its path, or gives it a value.  breaking:  *)
(* a client of the baseline may fail with it.                               *)
RECURSIVE ApplyCase(_, _, _)
ApplyCase(value, path, edit) ==
    LET key  == Head(path)
        rest == Tail(path)
        old  == value.members
    IN  [members |->
            CASE rest # <<>> -> [old EXCEPT ![key] = ApplyCase(@, rest, edit)]
              [] rest = <<>> /\ edit.operation = "remove" ->
                    [k \in DOMAIN old \ {key} |-> old[k]]
              [] OTHER ->
                    [k \in DOMAIN old \cup {key} |-> IF k = key THEN edit.value ELSE old[k]]]

Init == current = Baseline /\ made = {}

Apply(edit) ==
    /\ \A other \in made : ~IsPrefix(other.path, edit.path)
    /\ current' = ApplyCase(current, edit.path, edit)
    /\ made' = made \cup {edit}

Next == \E edit \in Edits \ made : Apply(edit)

Spec == Init /\ [][Next]_vars

-----------------------------------------------------------------------------
(***************************************************************************)
(* Properties                                                              *)
(***************************************************************************)

(* packages/contracts/README.md:48-50 says that removing or changing an    *)
(* existing member, tightening a bound and adding a required field fail    *)
(* the check, whatever else changes.                                       *)
BreakingChangesFail ==
    (\E edit \in made : edit.breaking) =>
        FindBreakingContractChanges(Baseline, current) # {}
=============================================================================
