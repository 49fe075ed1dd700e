---------------------------- MODULE RecallFilters ----------------------------
(***************************************************************************)
(* The filters that callers put on recall and on queries of the past       *)
(* (rust/crates/celiums-memory-engine/src/filter.rs): how an expression is *)
(* validated and compiled to a filter of the store, and what it promises.  *)
(*                                                                         *)
(* Texts are short sequences of letters and floats are counted in the      *)
(* nanos they are stored as; a float outside of what nanos can hold is     *)
(* NotStorable.  What the store's filters match is external.               *)
(***************************************************************************)
EXTENDS Naturals, SequencesExt

CONSTANTS
    Expressions,   \* the expressions callers ask for
    Documents,     \* stored memories
    MaxNodes,      \* MAX_FILTER_NODES
    MaxDepth,      \* MAX_FILTER_DEPTH
    MaxValues,     \* MAX_LIST_VALUES
    NotStorable,   \* NaN, infinite or out of range
    Null           \* a field's null, an operand that was not given

VARIABLES
    asked,     \* the expression last asked for
    compiled   \* what it was compiled to, Null if it was refused

filterVars == <<asked, compiled>>

-----------------------------------------------------------------------------
\* The matrix of fields, operators and operands.

Kind(field) ==
    CASE field \in {"agent_id", "project_id", "conversation_id", "session_id", "source_id",
                    "source_uri", "source_actor", "content_hash"} -> "text"
      [] field \in {"scope", "memory_type", "state", "source_kind"} -> "category"
      [] field \in {"importance", "strength", "valence", "arousal", "dominance"} -> "float"
      [] field \in {"retrieval_count", "consolidation_count", "created_at_ms", "event_at_ms",
                    "ingested_at_ms", "last_retrieved_at_ms"} -> "integer"
      [] field = "tags" -> "tags"

Nullable == {"agent_id", "project_id", "conversation_id", "session_id", "event_at_ms",
             "source_id", "source_uri", "source_actor"}

Nullity == {"is_null", "is_not_null"}
Membership == {"in", "not_in"}
Ordering == {"lt", "lte", "gt", "gte"}

Supports(field, operator) ==
    CASE operator \in Nullity -> field \in Nullable
      [] operator \in {"eq", "ne"} \cup Membership -> Kind(field) # "tags"
      [] operator \in Ordering \cup {"between"} -> Kind(field) \in {"float", "integer"}
      [] operator = "prefix" -> Kind(field) = "text"
      [] operator = "contains" -> Kind(field) \in {"text", "tags"}

\* validate_floats().
Storable(value) == NotStorable \notin Range(value.items)

ScalarOf(kind) == IF kind \in {"text", "category", "tags"} THEN "string" ELSE kind
ListOf(kind) ==
    CASE kind \in {"text", "category"} -> "strings"
      [] kind = "integer" -> "integers"
      [] kind = "float" -> "floats"
      [] kind = "tags" -> Null

ValidScalar(field, value) == value.shape = ScalarOf(Kind(field)) /\ Storable(value)
ValidMembership(field, value) ==
    /\ value.shape = ListOf(Kind(field))
    /\ Len(value.items) \in 1..MaxValues
    /\ Storable(value)
ValidRange(field, value) ==
    /\ Kind(field) \in {"integer", "float"} /\ value.shape = ListOf(Kind(field))
    /\ Len(value.items) = 2
    /\ Storable(value)

ValidPredicate(p) ==
    /\ Supports(p.field, p.operator)
    /\ IF p.operator \in Nullity THEN p.value = Null
       ELSE /\ p.value # Null
            /\ CASE p.operator \in Membership -> ValidMembership(p.field, p.value)
                 [] p.operator = "between" -> ValidRange(p.field, p.value)
                 [] OTHER -> ValidScalar(p.field, p.value)

-----------------------------------------------------------------------------
\* Expressions: match_all, all, any, not and predicate; the children of the
\* first three are in "of".

\* What validate()'s stack is filled from.
Parts(f) == IF f.is \in {"all", "any", "not"} THEN f.of ELSE <<>>

RECURSIVE Nodes(_), Depth(_), ValidPredicates(_)
Nodes(f) == FoldSeq(LAMBDA child, n : n + Nodes(child), 1, Parts(f))
Depth(f) ==
    1 + FoldSeq(LAMBDA child, d : IF Depth(child) > d THEN Depth(child) ELSE d, 0, Parts(f))
ValidPredicates(f) ==
    /\ f.is = "predicate" => ValidPredicate(f)
    /\ \A i \in DOMAIN Parts(f) : ValidPredicates(Parts(f)[i])

\* MemoryFilter::validate().
Valid(f) == ValidPredicates(f) /\ Nodes(f) <= MaxNodes /\ Depth(f) <= MaxDepth

-----------------------------------------------------------------------------
\* Filters of the store.

AllOf(of) == [is |-> "all", of |-> of]
AnyOf(of) == [is |-> "any", of |-> of]
NotOf(child) == [is |-> "not", of |-> <<child>>]
Test(how, path, value) == [is |-> how, path |-> path, value |-> value]
Panic == [is |-> "panic"]

\* Mutant: a list is excluded when one of its values is missing.
CompileMembershipEach(p) ==
    AnyOf([i \in DOMAIN p.value.items |->
            Test(IF p.operator = "in" THEN "eq" ELSE "ne", p.field, p.value.items[i])])

\* compile_membership().
CompileMembership(p) ==
    LET included == AnyOf([i \in DOMAIN p.value.items |-> Test("eq", p.field, p.value.items[i])]) IN
    IF p.operator = "not_in" THEN NotOf(included) ELSE included

\* compile_between(): expects two endpoints, in the order given.
CompileBetween(p) ==
    IF Len(p.value.items) < 2 THEN Panic
    ELSE AllOf(<<Test("gte", p.field, p.value.items[1]), Test("lte", p.field, p.value.items[2])>>)

\* scalar_value() and list_values() do not expect each other's operands.
CompilePredicate(p) ==
    CASE p.operator = "is_null" -> Test("eq", p.field, Null)
      [] p.operator = "is_not_null" ->
             AllOf(<<Test("exists", p.field, Null), NotOf(Test("eq", p.field, Null))>>)
      [] p.value = Null -> Panic
      [] p.operator \in Membership \cup {"between"} ->
             IF p.value.shape \in {"string", "integer", "float"} THEN Panic
             ELSE IF p.operator = "between" THEN CompileBetween(p) ELSE CompileMembership(p)
      [] OTHER -> IF p.value.shape \in {"strings", "integers", "floats"} THEN Panic
                  ELSE Test(p.operator, p.field, p.value.items[1])

\* compile_valid_filter().
RECURSIVE Compiled(_)
Compiled(f) ==
    CASE f.is = "match_all" -> f
      [] f.is \in {"all", "any", "not"} ->
             [is |-> f.is, of |-> [i \in DOMAIN f.of |-> Compiled(f.of[i])]]
      [] f.is = "predicate" -> CompilePredicate(f)

\* Operators of the store and of the filters that mean the same of a value that
\* is there.
Compare(how, is, operand) ==
    CASE how = "lt" -> is < operand
      [] how = "lte" -> is <= operand
      [] how = "gt" -> is > operand
      [] how = "gte" -> is >= operand
      [] how = "prefix" -> IsPrefix(operand, is)
      [] how = "contains" ->
             \/ operand \in Range(is)
             \/ \E from, to \in DOMAIN is : SubSeq(is, from, to) = operand

\* Which documents a filter of the store matches; null equals null only and has
\* no order.
RECURSIVE Selects(_, _)
Selects(f, document) ==
    CASE f.is = "match_all" -> TRUE
      [] f.is = "all" -> \A i \in DOMAIN f.of : Selects(f.of[i], document)
      [] f.is = "any" -> \E i \in DOMAIN f.of : Selects(f.of[i], document)
      [] f.is = "not" -> ~Selects(f.of[1], document)
      [] f.is = "exists" -> f.path \in DOMAIN document
      [] f.is = "eq" -> document[f.path] = f.value
      [] f.is = "ne" -> document[f.path] # f.value
      [] f.is = "panic" -> FALSE
      [] OTHER -> document[f.path] # Null /\ Compare(f.is, document[f.path], f.value)

-----------------------------------------------------------------------------
FilterInit ==
    /\ asked = [is |-> "match_all"]
    /\ compiled = [is |-> "match_all"]

\* MemoryFilter::compile(), as recall() and the queries of the past call it.
Compile(f) ==
    /\ asked' = f
    /\ compiled' = IF Valid(f) THEN Compiled(f) ELSE Null

FilterNext == \E f \in Expressions : Compile(f)

-----------------------------------------------------------------------------
\* What an expression says of a document, by the words of FilterOperator.
Says(p, is) ==
    CASE p.operator = "is_null" -> is = Null
      [] p.operator = "is_not_null" -> is # Null
      [] p.operator = "eq" -> is = p.value.items[1]
      [] p.operator = "ne" -> is # p.value.items[1]
      [] p.operator = "in" -> is \in Range(p.value.items)
      [] p.operator = "not_in" -> is \notin Range(p.value.items)
      [] p.operator = "between" -> is # Null /\ p.value.items[1] <= is /\ is <= p.value.items[2]
      [] OTHER -> is # Null /\ Compare(p.operator, is, p.value.items[1])

RECURSIVE Holds(_, _), Panics(_)
Holds(f, document) ==
    CASE f.is = "match_all" -> TRUE
      [] f.is = "all" -> \A i \in DOMAIN f.of : Holds(f.of[i], document)
      [] f.is = "any" -> \E i \in DOMAIN f.of : Holds(f.of[i], document)
      [] f.is = "not" -> ~Holds(f.of[1], document)
      [] f.is = "predicate" -> Says(f, document[f.field])

Panics(f) == f.is = "panic" \/ \E i \in DOMAIN Parts(f) : Panics(Parts(f)[i])

\* Every expression that is accepted compiles, whatever its operands, to a filter
\* that matches the documents it says (filter.rs: compile() relies on validate()
\* having rejected what it does not expect).
AcceptedMeansWhatItSays ==
    compiled # Null =>
        /\ ~Panics(compiled)
        /\ \A document \in Documents : Selects(compiled, document) <=> Holds(asked, document)
=============================================================================
