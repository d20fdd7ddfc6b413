---------------------------- MODULE Placeholder ----------------------------
(***************************************************************************)
(* Placeholder classification and parameter binding of sqlite3ffi          *)
(* (placeholder.rs, stmt.rs) as used by the run_index / run_kv calls.      *)
(*                                                                         *)
(* A query is abstracted to the sequence of its placeholder tokens.  How   *)
(* SQLite numbers them (sqlite3_bind_parameter_count / _name) is the      *)
(* driver's behaviour and is modelled here from SQLite's rule: `?` takes  *)
(* the next index, `?NNN` takes index NNN, a named parameter reuses the    *)
(* index of an earlier parameter with the same full name or takes the     *)
(* next one; an index has a name only if its first naming token added one. *)
(* Everything computed from those two calls is this repository's code.     *)
(***************************************************************************)
EXTENDS Naturals, Sequences, FiniteSets, SequencesExt, Functions

CONSTANTS
  BaseNames,   \* the names after the prefix, e.g. a in :a
  MaxNum,      \* the largest NNN of a ?NNN token
  MaxTokens,   \* the most placeholders in a query
  Vals,        \* the values a client binds
  MaxVals      \* the longest index-based value list

ASSUME MaxNum \in Nat \ {0} /\ MaxTokens \in Nat /\ MaxVals \in Nat

\* The value an unbound parameter reads ("Unbound parameters are
\* interpreted as NULL").
NULL == "NULL"
ASSUME NULL \notin Vals

Anon       == [kind |-> "anon"]
Num(n)     == [kind |-> "num", n |-> n]
Named(p, b) == [kind |-> "named", prefix |-> p, base |-> b]
KeyPrefixes == {":", "@", "$"}
Tokens == {Anon} \cup {Num(n) : n \in 1..MaxNum}
            \cup {Named(p, b) : p \in KeyPrefixes, b \in BaseNames}
Queries == BoundedSeq(Tokens, MaxTokens)

\* The full parameter name as SQLite reports it, prefix included.
FullName(tok) == IF tok.kind = "num" THEN <<"?", tok.n>>
                                    ELSE <<tok.prefix, tok.base>>

-----------------------------------------------------------------------------
(* The driver: SQLite's numbering of parameters while it prepares a query. *)

\* The first name recorded for index i, or "none".
NumToName(vlist, i) ==
  LET at == SelectInSeq(vlist, LAMBDA e : e[2] = i)
  IN IF at = 0 THEN "none" ELSE vlist[at][1]

AssignVar(st, tok) ==
  CASE tok.kind = "anon" ->
         [st EXCEPT !.nVar = @ + 1, !.idx = Append(@, st.nVar + 1)]
    [] tok.kind = "num" ->
         LET add == tok.n > st.nVar \/ NumToName(st.vlist, tok.n) = "none"
         IN [nVar  |-> IF tok.n > st.nVar THEN tok.n ELSE st.nVar,
             vlist |-> IF add THEN Append(st.vlist, <<FullName(tok), tok.n>>)
                              ELSE st.vlist,
             idx   |-> Append(st.idx, tok.n)]
    [] OTHER ->
         LET at == SelectInSeq(st.vlist, LAMBDA e : e[1] = FullName(tok))
         IN IF at # 0
              THEN [st EXCEPT !.idx = Append(@, st.vlist[at][2])]
              ELSE [nVar  |-> st.nVar + 1,
                    vlist |-> Append(st.vlist, <<FullName(tok), st.nVar + 1>>),
                    idx   |-> Append(st.idx, st.nVar + 1)]

\* idx[p] is the index the p-th token binds to.
Prepared(q) == FoldLeft(AssignVar, [nVar |-> 0, vlist |-> <<>>, idx |-> <<>>], q)

-----------------------------------------------------------------------------
(* placeholder.rs                                                          *)

bp_count(q) == Prepared(q).nVar

bp_name(q, i) == NumToName(Prepared(q).vlist, i)

\* names: every reported name and its index.
get_ph_names(q) ==
  LET named == {i \in 1..bp_count(q) : bp_name(q, i) # "none"}
  IN [k \in {bp_name(q, i) : i \in named} |->
        CHOOSE i \in named : bp_name(q, i) = k]

\* keys: the names that do not start with "?".
get_key_indexes(names) == Restrict(names, {k \in DOMAIN names : k[1] # "?"})

\* Mutant: a HashMap<String, u32> per base name, so the last prefix wins.
get_key_indexes_normal_last_wins(keys) ==
  [b \in {k[2] : k \in DOMAIN keys} |->
     {keys[CHOOSE k \in DOMAIN keys : k[2] = b]}]

\* keys_normal: the prefix is stripped, and the indexes of one base name
\* under different prefixes are collected into one set.
get_key_indexes_normal(keys) ==
  [b \in {k[2] : k \in DOMAIN keys} |->
     {keys[k] : k \in {k2 \in DOMAIN keys : k2[2] = b}}]

get_placeholder_meta(q) ==
  LET max_index == bp_count(q)
      keys      == get_key_indexes(get_ph_names(q))
      contains_integer_key == \E k \in DOMAIN keys : k[1] = "?"
      num_keys  == Cardinality(DOMAIN keys)
      has_keys  == num_keys > 0
      has_indexes == contains_integer_key
                       \/ (max_index > 0 /\ num_keys # max_index)
  IN [max_index   |-> max_index,
      keys_normal |-> get_key_indexes_normal(keys),
      types_used  |-> CASE has_keys /\ has_indexes -> "IndexAndKey"
                        [] has_keys                -> "Key"
                        [] has_indexes             -> "Index"
                        [] OTHER                   -> "None"]

-----------------------------------------------------------------------------
(* stmt.rs: binding                                                        *)

\* sqlite3_bind_*: SQLITE_RANGE for an index outside 1..max_index.
bind_val_ok(i, max_index) == i \in 1..max_index

\* Mutant: the difference taken the wrong way round (data - placeholders).
bind_kv_check_errors_reversed(types_used, keys_normal, data_keys) ==
  CASE types_used # "Key"                 -> "PlaceholderDataTypeNotCompatible"
    [] data_keys \ DOMAIN keys_normal # {} -> "MissingKeysInData"
    [] OTHER                              -> "Ok"

bind_kv_check_errors(types_used, keys_normal, data_keys) ==
  CASE types_used # "Key"                 -> "PlaceholderDataTypeNotCompatible"
    [] DOMAIN keys_normal \ data_keys # {} -> "MissingKeysInData"
    [] OTHER                              -> "Ok"

\* Mutant: the key is bound instead of its value.
bind_kv_binds_key(meta, kv) ==
  LET chk == bind_kv_check_errors(meta.types_used, meta.keys_normal, DOMAIN kv)
  IN IF chk # "Ok"
       THEN [status |-> chk, binding |-> <<>>]
       ELSE [status  |-> "Ok",
             binding |-> [i \in UNION Range(meta.keys_normal) |->
                            CHOOSE b \in DOMAIN meta.keys_normal :
                              i \in meta.keys_normal[b]]]

\* Every index of every base name gets the data's value for that name;
\* key_val.data[k] panics for a base name the data lacks.
bind_kv(meta, kv) ==
  LET chk == bind_kv_check_errors(meta.types_used, meta.keys_normal, DOMAIN kv)
  IN CASE chk # "Ok" -> [status |-> chk, binding |-> <<>>]
       [] ~(DOMAIN meta.keys_normal \subseteq DOMAIN kv) ->
            [status |-> "Panic", binding |-> <<>>]
       [] OTHER ->
            [status  |-> "Ok",
             binding |-> [i \in UNION Range(meta.keys_normal) |->
                            kv[CHOOSE b \in DOMAIN meta.keys_normal :
                                 i \in meta.keys_normal[b]]]]

bind_index_check_errors(types_used, max_index, vals) ==
  CASE types_used # "Index"     -> "PlaceholderDataTypeNotCompatible"
    [] Len(vals) < max_index    -> "MissingIndexesInData"
    [] OTHER                    -> "Ok"

\* vals[i] is bound to index i for i = 1..Len(vals); the loop stops at the
\* first bind that fails.
bind_index(meta, vals) ==
  LET chk  == bind_index_check_errors(meta.types_used, meta.max_index, vals)
      bad  == {i \in 1..Len(vals) : ~bind_val_ok(i, meta.max_index)}
  IN CASE chk # "Ok" -> [status |-> chk, binding |-> <<>>]
       [] bad # {}   -> [status |-> "SQLITE_RANGE", binding |-> <<>>]
       [] OTHER      -> [status |-> "Ok", binding |-> vals]

-----------------------------------------------------------------------------
(* DbHandle::run_index / run_kv: prepare (StmtHandle::new computes the    *)
(* placeholder meta), bind, and step the statement, in which each          *)
(* placeholder reads the value bound to its index.                         *)

VARIABLES
  query,    \* the placeholder tokens of the query
  params,   \* its Params: [kind |-> "Index" or "Key", data |-> ...]
  result    \* [status, read]: read[p] is what the p-th placeholder read

vars == <<query, params, result>>

IndexVals == BoundedSeq(Vals, MaxVals)
KeyVals == UNION {[D -> Vals] : D \in SUBSET BaseNames}

\* sqlite3_step after the bind: unbound indexes read NULL.
Reads(q, binding) ==
  [p \in 1..Len(q) |->
     LET i == Prepared(q).idx[p]
     IN IF i \in DOMAIN binding THEN binding[i] ELSE NULL]

\* The call's result: the bind outcome, and on success what each
\* placeholder read when the statement was stepped.
Outcome(b) ==
  [status |-> b.status,
   read   |-> IF b.status = "Ok" THEN Reads(query, b.binding) ELSE <<>>]

run_index ==
  /\ result.status = "none"
  /\ params.kind = "Index"
  /\ result' = Outcome(bind_index(get_placeholder_meta(query), params.data))
  /\ UNCHANGED <<query, params>>

run_kv ==
  /\ result.status = "none"
  /\ params.kind = "Key"
  /\ result' = Outcome(bind_kv(get_placeholder_meta(query), params.data))
  /\ UNCHANGED <<query, params>>

\* A call of run_index or run_kv with any query and any data.
Init ==
  /\ query \in Queries
  /\ params \in [kind: {"Index"}, data: IndexVals]
                  \cup [kind: {"Key"}, data: KeyVals]
  /\ result = [status |-> "none", read |-> <<>>]

Next == run_index \/ run_kv

Spec == Init /\ [][Next]_vars

-----------------------------------------------------------------------------
(* Properties, checked against the rules of the binding contract over all *)
(* queries of up to MaxTokens placeholders.                                *)

Statuses == {"none", "Ok", "PlaceholderDataTypeNotCompatible",
             "MissingKeysInData", "MissingIndexesInData", "SQLITE_RANGE", "Panic"}

TypeOK ==
  /\ query \in Queries
  /\ params.kind \in {"Index", "Key"}
  /\ result.status \in Statuses
  /\ result.read \in Seq(Vals \cup {NULL})

\* The classification the contract gives a query from its tokens alone:
\* ?, ?NNN are index placeholders, :a @a $a are keys, both is mixed.
SpecTypes(q) ==
  LET idx == \E p \in 1..Len(q) : q[p].kind # "named"
      key == \E p \in 1..Len(q) : q[p].kind = "named"
  IN CASE idx /\ key -> "IndexAndKey" [] key -> "Key"
       [] idx -> "Index" [] OTHER -> "None"

SpecBases(q) == {q[p].base : p \in {p2 \in 1..Len(q) : q[p2].kind = "named"}}

\* A statement that binds successfully executes every placeholder with a
\* value the caller supplied, never with NULL from an index left unbound:
\* under key-based data a named placeholder reads the value of its base
\* name whatever its prefix (:k @k $k bind the same value); under
\* index-based data ? and ?NNN read the value at their index.
BoundValuesCorrect ==
  result.status = "Ok" =>
    \A p \in DOMAIN result.read :
      LET tok == query[p]
          i   == Prepared(query).idx[p]
      IN /\ result.read[p] # NULL
         /\ params.kind = "Key" /\ tok.kind = "named"
              => result.read[p] = params.data[tok.base]
         /\ params.kind = "Index" /\ tok.kind # "named"
              => i \in DOMAIN params.data /\ result.read[p] = params.data[i]

\* Key-based binding of a query with only key placeholders succeeds exactly
\* when the data has every base name; extra keys are ignored.
KeyBindAsSpec ==
  result.status # "none" /\ params.kind = "Key" /\ SpecTypes(query) = "Key" =>
    (result.status = "Ok" <=> SpecBases(query) \subseteq DOMAIN params.data)

\* Index-based binding of a query with only index placeholders succeeds
\* when there are at least max_index values; positions 1..max_index are
\* bound.
IndexBindAsSpec ==
  result.status # "none" /\ params.kind = "Index"
    /\ SpecTypes(query) = "Index" /\ Len(params.data) >= bp_count(query) => result.status = "Ok"

\* The classification of get_placeholder_meta is the contract's: a query
\* mixing key and index placeholders is IndexAndKey, so binding it fails
\* with PlaceholderDataTypeNotCompatible whichever binder is used.
ClassifiedAsSpec ==
  result.status # "none" =>
    get_placeholder_meta(query).types_used = SpecTypes(query)

====
