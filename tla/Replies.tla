------------------------------ MODULE Replies ------------------------------
(***************************************************************************)
(* The replies of the runtime and their wire encoding.                     *)
(*                                                                         *)
(* OutMsg (messages.rs) is File(Result<TxIdOnly, FileOpErr>) or            *)
(* Tx(Result<RSet, TxOpErr>).  The error enums nest: TxOpErr wraps the     *)
(* sma errors ReadError, ReadBindRunError, WriteError, WriteBindRunError   *)
(* (sma lib.rs), which wrap BindRunError (db.rs), which wraps ErrorBind    *)
(* and its ErrorBindType (stmt.rs); every level has a ReturnStatus arm.    *)
(* out_rs_to_json (json_out.rs) turns an error into E, whose error_type    *)
(* is the "/"-joined path of the variant names json_out chooses for it.    *)
(*                                                                         *)
(* An enum value is a record: the variant, the one value it wraps (a       *)
(* sequence of length 0 or 1) and, for a ReturnStatus arm, the status      *)
(* to_return_status made of the code (again 0 or 1 long).  The payloads    *)
(* that carry no case distinction (tx ids, result sets, error message      *)
(* texts) are left out; a message is only present or absent.               *)
(***************************************************************************)
EXTENDS Sequences, SequencesExt, ResultCodes

\* A unit variant, a variant wrapping the value x, and a ReturnStatus arm.
Leaf(v)    == [v |-> v, e |-> <<>>, rs |-> <<>>]
Wrap(v, x) == [v |-> v, e |-> <<x>>, rs |-> <<>>]
Status(rc) == [v |-> "ReturnStatus", e |-> <<>>, rs |-> <<to_return_status(rc)>>]

\* Result<_, E> of the sma and sqlite3ffi calls: Ok, or Err(e).
Ok     == [ok |-> TRUE, err |-> <<>>]
Err(e) == [ok |-> FALSE, err |-> <<e>>]

\* An error result wrapped in the variant v of the caller's error type
\* (`Err(e) => Err(TxOpErr::v(e))`, or `?` through From).
MapWrap(r, v) == IF r.ok THEN r ELSE Err(Wrap(v, r.err[1]))

\* OutMsg: op is "File" or "Tx", res a Result.
OutMsg(op, res) == [op |-> op, ok |-> res.ok, err |-> res.err]

-----------------------------------------------------------------------------
(* The error enums, over the codes in cs.                                  *)

Statuses(cs) == {Status(rc) : rc \in cs}

\* ErrorBindType (stmt.rs): the three binding errors and ReturnStatus.
BindErrorKinds == {"PlaceholderDataTypeNotCompatible", "MissingKeysInData",
                   "MissingIndexesInData"}
ErrorBindTypes(cs) == {Leaf(x) : x \in BindErrorKinds} \cup Statuses(cs)

\* BindRunError (db.rs): ReturnStatus(rs) or ErrorBind(eb).
BindRunErrors(cs) ==
  Statuses(cs) \cup {Wrap("ErrorBind", x) : x \in ErrorBindTypes(cs)}

\* ReadError, WriteError; ReadBindRunError, WriteBindRunError (sma).
ClassErrors(name, cs) == {Leaf(name)} \cup Statuses(cs)
ClassBindErrors(name, cs) ==
  {Leaf(name)} \cup {Wrap("BindRunError", x) : x \in BindRunErrors(cs)}

\* FileOpErr and TxOpErr (messages.rs).
FileOpErrs(cs) == {Leaf("FileDirectoryDoesNotExist")} \cup Statuses(cs)
TxOpErrs(cs) ==
  {Leaf("InvalidTxId")} \cup Statuses(cs)
  \cup {Wrap("BindRunError", x) : x \in BindRunErrors(cs)}
  \cup {Wrap("ReadError", x) : x \in ClassErrors("QueryIsWrite", cs)}
  \cup {Wrap("ReadBindRunError", x) : x \in ClassBindErrors("QueryIsWrite", cs)}
  \cup {Wrap("WriteError", x) : x \in ClassErrors("QueryIsRead", cs)}
  \cup {Wrap("WriteBindRunError", x) : x \in ClassBindErrors("QueryIsRead", cs)}

OutMsgs(cs) ==
  {OutMsg("File", r) : r \in {Ok} \cup {Err(e) : e \in FileOpErrs(cs)}}
  \cup {OutMsg("Tx", r) : r \in {Ok} \cup {Err(e) : e \in TxOpErrs(cs)}}

\* The kind of an error: the value with every ReturnStatus left out.
RECURSIVE Kind(_)
Kind(x) == [v |-> x.v, e |-> IF x.e = <<>> THEN <<>> ELSE <<Kind(x.e[1])>>,
            rs |-> <<>>]

-----------------------------------------------------------------------------
(* json_out.rs                                                             *)

SEP == "/"

\* to_path: p.join(SEP).
to_path(p) ==
  IF p = <<>> THEN "" ELSE FoldLeft(LAMBDA acc, s : acc \o SEP \o s, Head(p), Tail(p))

\* E::new_key, E::new_key_status, E::new_key_msg after p.push(a).
k(p, a)      == [error_type |-> to_path(Append(p, a)), message |-> FALSE,
                 return_status |-> <<>>]
ks(p, a, rs) == [error_type |-> to_path(Append(p, a)), message |-> FALSE,
                 return_status |-> rs]
km(p, a)     == [error_type |-> to_path(Append(p, a)), message |-> TRUE,
                 return_status |-> <<>>]

\* Mutant: the ErrorBind level is not pushed onto the path.
bre_match_flat(p0, bre) ==
  LET p == Append(p0, "BindRunError")
  IN IF bre.v = "ReturnStatus" THEN ks(p, "ReturnStatus", bre.rs)
     ELSE LET eb == bre.e[1]
          IN IF eb.v = "ReturnStatus" THEN ks(p, "ReturnStatus", eb.rs)
             ELSE km(p, eb.v)

\* bre_match: BindRunError under the parent path p0.
bre_match(p0, bre) ==
  LET p == Append(p0, "BindRunError")
  IN IF bre.v = "ReturnStatus" THEN ks(p, "ReturnStatus", bre.rs)
     ELSE LET eb == bre.e[1]
              pe == Append(p, "ErrorBind")
          IN IF eb.v = "ReturnStatus" THEN ks(pe, "ReturnStatus", eb.rs)
             ELSE km(pe, eb.v)

\* From<FileOpErr> for E.
FileOpErrToE(e) ==
  IF e.v = "ReturnStatus" THEN ks(<<"FileOp">>, "ReturnStatus", e.rs)
  ELSE k(<<"FileOp">>, e.v)

\* From<TxOpErr> for E: the sma errors add their own level; a unit variant
\* is a key, a ReturnStatus a key with the status, a BindRunError goes
\* through bre_match.
TxOpErrToE(e) ==
  LET p == <<"TxOp">>
      x == IF e.e = <<>> THEN e ELSE e.e[1]
      px == Append(p, e.v)
  IN CASE e.v = "InvalidTxId"  -> k(p, "InvalidTxId")
       [] e.v = "ReturnStatus" -> ks(p, "ReturnStatus", e.rs)
       [] e.v = "BindRunError" -> bre_match(p, x)
       [] x.v = "ReturnStatus" -> ks(px, "ReturnStatus", x.rs)
       [] x.v = "BindRunError" -> bre_match(px, x.e[1])
       [] OTHER                -> k(px, x.v)

\* out_rs_to_json: OkRes (ok, res_type) or ErrRes (ok, error).
out_rs_to_json(o) ==
  IF o.ok
    THEN [ok |-> TRUE, res_type |-> IF o.op = "File" THEN "TxIdOnly" ELSE "RSet",
          error |-> <<>>]
    ELSE [ok |-> FALSE, res_type |-> "",
          error |-> <<IF o.op = "File" THEN FileOpErrToE(o.err[1])
                                       ELSE TxOpErrToE(o.err[1])>>]

\* The error_type of an error reply.
ErrorType(o) == out_rs_to_json(o).error[1].error_type

-----------------------------------------------------------------------------
(* The contract of spec.md 6.2: error_type identifies the error kind      *)
(* precisely, and the examples it gives are what these errors encode to.  *)

\* Two error replies have the same error_type exactly when they are errors
\* of the same kind (their ReturnStatus aside).
SameTypeSameKind(o1, o2) ==
  ~o1.ok /\ ~o2.ok =>
    (ErrorType(o1) = ErrorType(o2)
       <=> o1.op = o2.op /\ Kind(o1.err[1]) = Kind(o2.err[1]))

SpecExamples ==
  /\ ErrorType(OutMsg("File", Err(Leaf("FileDirectoryDoesNotExist"))))
       = "FileOp/FileDirectoryDoesNotExist"
  /\ ErrorType(OutMsg("File", Err(Status(SQLITE_ERROR)))) = "FileOp/ReturnStatus"
  /\ ErrorType(OutMsg("Tx", Err(Leaf("InvalidTxId")))) = "TxOp/InvalidTxId"
  /\ ErrorType(OutMsg("Tx", Err(Wrap("ReadError", Leaf("QueryIsWrite")))))
       = "TxOp/ReadError/QueryIsWrite"
  /\ ErrorType(OutMsg("Tx", Err(Wrap("WriteBindRunError", Wrap("BindRunError",
        Wrap("ErrorBind", Leaf("MissingKeysInData")))))))
       = "TxOp/WriteBindRunError/BindRunError/ErrorBind/MissingKeysInData"

\* Every error the runtime can reply with, over one code.
AllErrorsPrecise ==
  /\ SpecExamples
  /\ \A o1, o2 \in OutMsgs({SQLITE_ERROR}) : SameTypeSameKind(o1, o2)

=============================================================================
