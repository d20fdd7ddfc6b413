---------------------------- MODULE Coordinator ----------------------------
(***************************************************************************)
(* The transaction coordinator of the runtime crate.                       *)
(*                                                                         *)
(* One event-loop thread (runtime.rs, start_thread) takes items from an    *)
(* mpsc channel one at a time and runs the whole handler for each item.    *)
(* It owns the registry (active_txs.rs, ActiveTxs): per file, the live     *)
(* read transactions and a WriteQueue whose state is Empty, NextRetry(id)  *)
(* or Active(wtx), with a FIFO of queued write requests.  When BEGIN       *)
(* IMMEDIATE returns SQLITE_BUSY, a timer thread (send_at) sleeps and      *)
(* posts the request back into the channel.  Another OS process may hold  *)
(* a file's SQLite write lock at any time.                                 *)
(*                                                                         *)
(* Abstractions: a transaction is named by the request that created it     *)
(* (get_unique_id gives a fresh UUID, the request id is just as unique);   *)
(* SQL text and result sets are left out; a statement is one of a few     *)
(* kinds (Stmts).  A reply is the OutMsg the handler returns (Replies).    *)
(***************************************************************************)
EXTENDS Naturals, Sequences, FiniteSets, Bags, BagsExt, Replies

CONSTANTS
  Files,         \* normalised absolute paths (FileAbs)
  Reqs,          \* ids of the clients' open-transaction requests
  MaxExt,        \* how often another OS process may take a write lock
  OpenMayFail,   \* get_file_abs / DbFile::new may return an error
  WalFiles,      \* files whose journal mode is already WAL at the start
  BeginMayFail,  \* BEGIN / BEGIN IMMEDIATE may fail with a non-BUSY code
  MaxBodies,     \* statements a client sends per transaction
  BodyOps,       \* the TxOp kinds clients use for them (BodyKinds)
  Stmts,         \* the statements they run (see ReadOnly)
  None           \* "no file", "no transaction", "no lock holder"

ASSUME MaxExt \in Nat /\ OpenMayFail \in BOOLEAN /\ BeginMayFail \in BOOLEAN
\* The TxOp variants of a body operation (messages.rs), and those with Params.
BodyKinds == {"Read", "Write", "Q", "ReadParams", "WriteParams", "QParams"}
ParamKinds == {"ReadParams", "WriteParams", "QParams"}

ASSUME MaxBodies \in Nat /\ BodyOps \subseteq BodyKinds
ASSUME Stmts \subseteq {"select", "insert", "commit", "begin_immediate"}
ASSUME None \notin Files \cup Reqs /\ WalFiles \subseteq Files

\* Every client message id (InMsgId).  An open request r is the id r; the
\* i-th body operation and the one commit/rollback a client sends for the
\* transaction r carry the ids <<"body", r, i>> and <<"end", r>>.
MsgIds == Reqs \cup ({"end"} \X Reqs) \cup ({"body"} \X Reqs \X (1..MaxBodies))

\* A body operation: its TxOp kind and its statement.
Bodies == BodyOps \X Stmts

\* The SQLite write lock of a file is free, held by another process, or
\* held by the connection of one of our write transactions.
Ext == "ext"
LockHolders == {None, Ext} \cup Reqs

\* The enum InputItem: a client message or BreakLoop.
Item(id, op, f, t) == [id |-> id, op |-> op, file |-> f, tx |-> t, body |-> None]
BodyItem(id, t, b) == [id |-> id, op |-> "Body", file |-> None, tx |-> t, body |-> b]
Ops == {"GetReadTx", "GetWriteTx", "Body", "End", "BreakLoop"}
Items == [id: MsgIds \cup {None}, op: Ops, file: Files \cup {None},
          tx: Reqs \cup {None}, body: Bodies \cup {None}]

\* A WtxReq turned back into an input item (From<WtxReq> for InMsgWithId).
WtxItem(m, f) == Item(m, "GetWriteTx", f, None)

\* The enum QState.
Empty        == [tag |-> "Empty"]
NextRetry(m) == [tag |-> "NextRetry", id |-> m]
Active(t)    == [tag |-> "Active", tx |-> t]
QStates == {Empty} \cup {NextRetry(m) : m \in Reqs} \cup {Active(t) : t \in Reqs}

VARIABLES
  chan,      \* the mpsc channel into the event loop, a sequence of Items
  qstate,    \* qstate[f]: WriteQueue.state of file f
  queue,     \* queue[f]: WriteQueue.queue of file f, a sequence of request ids
  readTxs,   \* readTxs[f]: ids of the live ReadTx of file f
  lock,      \* lock[f]: holder of the SQLite write lock of file f
  timers,    \* bag of WtxReqs held by sleeping send_at threads
  phase,     \* "running", "stopping" (BreakLoop sent), "stopped" (loop exited)
  extCount,  \* how often the other process has taken a lock
  wal,       \* wal[f]: the journal mode stored in file f is WAL
  sent,      \* ids of the messages the clients have sent
  minted,    \* transactions ever created; the clients know their ids
  readEnded, \* ReadTxs whose connection a COMMIT statement took out of its
             \* SQL transaction (the ReadTx stays in the registry)
  replies,   \* replies[m]: the OutMsgs output_fn produced for m, in order
  sentW,     \* sentW[f]: write requests for f in the order they were sent
  granted,   \* granted[f]: write requests for f in the order they got a WriteTx
  refusedWith \* the codes write requests were refused with (error replies)

vars == <<chan, qstate, queue, readTxs, readEnded, lock, timers, phase,
          extCount, wal, sent, minted, replies, sentW, granted, refusedWith>>
regVars == <<qstate, queue, readTxs, readEnded>>
histVars == <<sent, minted, sentW, granted, refusedWith>>

-----------------------------------------------------------------------------
(* Helpers                                                                 *)

\* output_fn(OutMsgWithId { in_msg_id: m, msg: o }).
Reply(m, o) == replies' = [replies EXCEPT ![m] = Append(@, o)]

\* Mutant: get_tx looks the id up among the read transactions only.
IsWriteTx_reads_only(t) == FALSE

\* The transaction named t is live in the registry as a read or write tx.
IsReadTx(t)  == \E f \in Files : t \in readTxs[f]
IsWriteTx(t) == \E f \in Files : qstate[f] = Active(t)

\* How often the WtxReq m for f is in flight: sleeping in a timer thread or
\* waiting in the channel as a write request.
InFlight(m, f) ==
  CopiesIn([id |-> m, file |-> f], timers)
    + Cardinality({i \in 1..Len(chan) : chan[i] = WtxItem(m, f)})

-----------------------------------------------------------------------------
(* The registry's write-queue operations (ActiveTxs)                       *)

\* Mutant: push_front instead of push_back.
wr_queue_front(f, m) ==
  /\ queue' = [queue EXCEPT ![f] = <<m>> \o @]
  /\ UNCHANGED <<qstate, lock, timers>>

\* wr_queue: append a request to the file's queue.
wr_queue(f, m) ==
  /\ queue' = [queue EXCEPT ![f] = Append(@, m)]
  /\ UNCHANGED <<qstate, lock, timers>>

\* BEGIN IMMEDIATE succeeded: wr_active stores the WriteTx, whose connection
\* now holds the file's write lock.
wr_active(f, m) ==
  /\ qstate' = [qstate EXCEPT ![f] = Active(m)]
  /\ lock' = [lock EXCEPT ![f] = m]
  /\ UNCHANGED <<queue, timers>>

\* BEGIN IMMEDIATE returned SQLITE_BUSY: wr_retry records NextRetry(m) and
\* send_at spawns a thread that will post the request back after 2 s.
wr_retry(f, m) ==
  /\ qstate' = [qstate EXCEPT ![f] = NextRetry(m)]
  /\ timers' = BagAdd(timers, [id |-> m, file |-> f])
  /\ UNCHANGED <<queue, lock>>

\* Mutant: the slot is emptied without looking at the queue.
wr_fail_no_pop(f, rest) ==
  /\ qstate' = [qstate EXCEPT ![f] = Empty]
  /\ chan' = rest
  /\ UNCHANGED <<queue, lock, timers>>

\* Another error from BEGIN IMMEDIATE: wr_fail hands the slot to the head of
\* the queue, which it posts straight into the channel (after the rest of
\* it, rest), or empties the slot.
wr_fail(f, rest) ==
  /\ IF queue[f] = <<>>
       THEN /\ qstate' = [qstate EXCEPT ![f] = Empty]
            /\ chan' = rest
            /\ UNCHANGED queue
       ELSE /\ qstate' = [qstate EXCEPT ![f] = NextRetry(Head(queue[f]))]
            /\ queue' = [queue EXCEPT ![f] = Tail(@)]
            /\ chan' = Append(rest, WtxItem(Head(queue[f]), f))
  /\ UNCHANGED <<lock, timers>>

\* Mutant: the id of the next request is taken with a default, so an empty
\* queue gives NextRetry of no request instead of Empty.
take_active_default_id(f, rest) ==
  /\ IF queue[f] = <<>>
       THEN /\ qstate' = [qstate EXCEPT ![f] = NextRetry(None)]
            /\ chan' = rest
            /\ UNCHANGED queue
       ELSE /\ qstate' = [qstate EXCEPT ![f] = NextRetry(Head(queue[f]))]
            /\ queue' = [queue EXCEPT ![f] = Tail(@)]
            /\ chan' = Append(rest, WtxItem(Head(queue[f]), f))

\* Mutant: the next request is popped but never posted to the event loop.
take_active_no_send(f, rest) ==
  /\ IF queue[f] = <<>>
       THEN /\ qstate' = [qstate EXCEPT ![f] = Empty]
            /\ UNCHANGED queue
       ELSE /\ qstate' = [qstate EXCEPT ![f] = NextRetry(Head(queue[f]))]
            /\ queue' = [queue EXCEPT ![f] = Tail(@)]
  /\ chan' = rest

\* take_active: the next request leaves the queue and the state becomes
\* NextRetry(next), or Empty when nobody waits.  remove_tx posts the next
\* request into the channel.
take_active(f, rest) ==
  /\ IF queue[f] = <<>>
       THEN /\ qstate' = [qstate EXCEPT ![f] = Empty]
            /\ chan' = rest
            /\ UNCHANGED queue
       ELSE /\ qstate' = [qstate EXCEPT ![f] = NextRetry(Head(queue[f]))]
            /\ queue' = [queue EXCEPT ![f] = Tail(@)]
            /\ chan' = Append(rest, WtxItem(Head(queue[f]), f))

-----------------------------------------------------------------------------
(* Clients and the host                                                    *)

\* Runtime::input: a client posts a message with a fresh, well-formed id.
\* An open request names a file; a body or end operation names a
\* transaction whose id the client has received.
Post(it) ==
  /\ phase = "running"
  /\ it.id \notin sent
  /\ chan' = Append(chan, it)
  /\ sent' = sent \cup {it.id}
  /\ sentW' = IF it.op = "GetWriteTx"
                THEN [sentW EXCEPT ![it.file] = Append(@, it.id)]
                ELSE sentW
  /\ UNCHANGED <<regVars, lock, timers, phase, extCount, wal,
                 minted, replies, granted, refusedWith>>

Input(m, op, f, t) == Post(Item(m, op, f, t))

SendOpen(r) ==
  \E op \in {"GetReadTx", "GetWriteTx"}, f \in Files : Input(r, op, f, None)

SendBody(t) ==
  /\ t \in minted
  /\ \E i \in 1..MaxBodies, b \in Bodies :
       /\ i > 1 => <<"body", t, i - 1>> \in sent
       /\ Post(BodyItem(<<"body", t, i>>, t, b))

SendEnd(t) == t \in minted /\ Input(<<"end", t>>, "End", None, t)

\* Dropping the Runtime (smpi_stop): BreakLoop is sent into the channel.
Stop ==
  /\ phase = "running"
  /\ phase' = "stopping"
  /\ chan' = Append(chan, Item(None, "BreakLoop", None, None))
  /\ UNCHANGED <<regVars, lock, timers, extCount, wal, histVars, replies>>

\* A send_at thread wakes up and posts its WtxReq into the channel.
TimerFires(w) ==
  /\ BagIn(w, timers)
  /\ phase # "stopped"
  /\ timers' = BagRemove(timers, w)
  /\ chan' = Append(chan, WtxItem(w.id, w.file))
  /\ UNCHANGED <<regVars, lock, phase, extCount, wal, histVars, replies>>

\* The same thread after the event loop has exited: the receiver is gone,
\* tx.send(..).expect("Ok") panics in the timer thread, the request is lost.
TimerFiresAfterStop(w) ==
  /\ BagIn(w, timers)
  /\ phase = "stopped"
  /\ timers' = BagRemove(timers, w)
  /\ UNCHANGED <<chan, regVars, lock, phase, extCount, wal, histVars, replies>>

\* Another OS process runs BEGIN IMMEDIATE on the file, and later ends it.
ExtLock(f) ==
  /\ lock[f] = None
  /\ extCount < MaxExt
  /\ lock' = [lock EXCEPT ![f] = Ext]
  /\ extCount' = extCount + 1
  /\ UNCHANGED <<chan, regVars, timers, phase, wal, histVars, replies>>

ExtUnlock(f) ==
  /\ lock[f] = Ext
  /\ lock' = [lock EXCEPT ![f] = None]
  /\ UNCHANGED <<chan, regVars, timers, phase, extCount, wal, histVars, replies>>

-----------------------------------------------------------------------------
(* The event loop: one action per handler, each for the item at the head  *)
(* of the channel.                                                         *)

\* get_file_abs / normalize_file_path: canonicalising the file's directory
\* fails when it does not exist (any more).
get_file_abs_fails == OpenMayFail

\* The driver adapter (sma) as the event loop sees it.  get_file opens a
\* connection (DbFile::new: open, pragmas, WAL mode), which may fail:
\* get_file_abs inside it finds no directory, or sqlite3_open does not
\* return SQLITE_OK (SQLITE_CANTOPEN stands for its codes).
get_file_fails == OpenMayFail
get_file_errors == {Leaf("FileDirectoryDoesNotExist"), Status(SQLITE_CANTOPEN)}

FileErr(e) == OutMsg("File", Err(e))

\* JournalMode::from_db: PRAGMA journal_mode reads the mode stored in the
\* file; only WAL is told apart from the others.
JournalModeIsWal(f) == wal[f]

\* set_journal_mode_wal: read the mode; WAL ends the loop.  Otherwise
\* `PRAGMA journal_mode=WAL` needs the exclusive lock: while another
\* connection holds a lock on the file it returns SQLITE_BUSY, and the loop
\* sleeps 16 ms and tries again, for ever.  The event loop thread is inside
\* this loop, so the step cannot happen until the lock is released.
set_journal_mode_wal(f) ==
  /\ JournalModeIsWal(f) \/ lock[f] = None
  /\ wal' = [wal EXCEPT ![f] = TRUE]

\* DbFile::new / set_connection_pragmas on success: the connection is open
\* and the file is in WAL mode (the failures are get_file_fails).
get_file(f) == set_journal_mode_wal(f)

\* The codes sqlite3_step of BEGIN IMMEDIATE returns (extended result codes
\* are on, db.rs extended_result_codes_on): SQLITE_DONE when the write lock
\* is free; while another connection holds it, SQLITE_BUSY, or
\* SQLITE_BUSY_RECOVERY when that connection is replaying the WAL; where
\* BeginMayFail, an I/O error on the lock (SQLITE_IOERR_LOCK) as well.
begin_immediate_rc(f) ==
  (IF lock[f] = None THEN {SQLITE_DONE} ELSE {SQLITE_BUSY, SQLITE_BUSY_RECOVERY})
  \cup (IF BeginMayFail THEN {SQLITE_IOERR_LOCK} ELSE {})

\* DbFile::get_write_tx: db_handle.run("BEGIN IMMEDIATE") steps once;
\* to_return_status_cint_db_err makes it Err(status) when is_err, and
\* SQLITE_DONE ends the run with Ok.
get_write_tx_ok(rc) ==
  LET s == to_return_status(rc) IN ~s.is_err /\ s.primary = SQLITE_DONE

\* Mutant: the raw code is matched against SQLITE_BUSY, not its primary row.
get_write_tx_busy_code(rc) == to_return_status(rc).is_err /\ rc = SQLITE_BUSY

\* process_wtx_req: `match rs.primary.id { SQLITE_BUSY => retry, _ => fail }`.
get_write_tx_busy(rc) ==
  /\ to_return_status(rc).is_err
  /\ to_return_status(rc).primary = SQLITE_BUSY

get_write_tx_err(rc) == to_return_status(rc).is_err /\ ~get_write_tx_busy(rc)

\* DbFile::get_read_tx runs BEGIN and reads the schema to take a WAL
\* snapshot, which may fail, with the same I/O error as BEGIN IMMEDIATE.
get_read_tx_fails == BeginMayFail
read_tx_rc == SQLITE_IOERR_LOCK

\* The four outcomes of process_wtx_req, for a request the slot is free
\* for (Empty, or the NextRetry of this very request); rest is the channel
\* after the request and rc what BEGIN IMMEDIATE returned.

\* get_file(f_abs) fails: get_file_abs again, or DbFile::new; the error is
\* returned, the queue state is left as it was.
wtx_open_error(m, rest) ==
  /\ get_file_fails
  /\ chan' = rest
  /\ \E e \in get_file_errors : Reply(m, FileErr(e))
  /\ UNCHANGED <<qstate, queue, lock, timers, wal, minted, granted, refusedWith>>

\* Mutant: the transaction is stored but Ok(TxIdOnly) is never output.
wtx_begin_ok_no_reply(m, f, rest, rc) ==
  /\ get_file(f)
  /\ get_write_tx_ok(rc)
  /\ wr_active(f, m)
  /\ chan' = rest
  /\ minted' = minted \cup {m}
  /\ granted' = [granted EXCEPT ![f] = Append(@, m)]
  /\ UNCHANGED <<replies, refusedWith>>

\* get_write_tx succeeds: wr_active, reply Ok(TxIdOnly).
wtx_begin_ok(m, f, rest, rc) ==
  /\ get_file(f)
  /\ get_write_tx_ok(rc)
  /\ wr_active(f, m)
  /\ chan' = rest
  /\ Reply(m, OutMsg("File", Ok))
  /\ minted' = minted \cup {m}
  /\ granted' = [granted EXCEPT ![f] = Append(@, m)]
  /\ UNCHANGED refusedWith

\* Mutant: SQLITE_BUSY is also answered while the retry is scheduled.
wtx_busy_reply(m, f, rest, rc) ==
  /\ get_file(f)
  /\ get_write_tx_busy(rc)
  /\ wr_retry(f, m)
  /\ chan' = rest
  /\ Reply(m, FileErr(Status(rc)))
  /\ UNCHANGED <<minted, granted, refusedWith>>

\* SQLITE_BUSY: wr_retry, and no reply yet (None = delay the response).
wtx_busy(m, f, rest, rc) ==
  /\ get_file(f)
  /\ get_write_tx_busy(rc)
  /\ wr_retry(f, m)
  /\ chan' = rest
  /\ UNCHANGED <<replies, minted, granted, refusedWith>>

\* Mutant: the error is swallowed instead of returned to output_fn.
wtx_begin_error_silent(m, f, rest, rc) ==
  /\ get_file(f)
  /\ get_write_tx_err(rc)
  /\ wr_fail(f, rest)
  /\ UNCHANGED <<replies, minted, granted, refusedWith>>

\* Any other code: wr_fail, and Err(ReturnStatus(rs)) is the reply.
wtx_begin_error(m, f, rest, rc) ==
  /\ get_file(f)
  /\ get_write_tx_err(rc)
  /\ wr_fail(f, rest)
  /\ Reply(m, FileErr(Status(rc)))
  /\ refusedWith' = refusedWith \cup {rc}
  /\ UNCHANGED <<minted, granted>>

process_wtx_req(m, f, rest) ==
  \/ wtx_open_error(m, rest)
  \/ \E rc \in begin_immediate_rc(f) :
       \/ wtx_begin_ok(m, f, rest, rc)
       \/ wtx_busy(m, f, rest, rc)
       \/ wtx_begin_error(m, f, rest, rc)

\* maybe_queue_write_tx_req / process_write_req for the item at the head.
maybe_queue_write_tx_req ==
  LET it == Head(chan)
      m  == it.id
      f  == it.file
  IN
  /\ phase # "stopped"
  /\ chan # <<>>
  /\ it.op = "GetWriteTx"
  /\ \/ \* get_file_abs: the parent directory does not exist
        /\ get_file_abs_fails
        /\ chan' = Tail(chan)
        /\ Reply(m, FileErr(Leaf("FileDirectoryDoesNotExist")))
        /\ UNCHANGED <<qstate, queue, lock, timers, wal, minted, granted,
                       refusedWith>>
     \/ /\ qstate[f] \in {Empty, NextRetry(m)}
        /\ process_wtx_req(m, f, Tail(chan))
     \/ /\ qstate[f] \notin {Empty, NextRetry(m)}
        /\ wr_queue(f, m)
        /\ chan' = Tail(chan)
        /\ UNCHANGED <<replies, wal, minted, granted, refusedWith>>
  /\ UNCHANGED <<readTxs, readEnded, phase, extCount, sent, sentW>>

\* process_file_op(GetReadTx): open a connection, BEGIN and read the schema,
\* store the ReadTx.
process_file_op_GetReadTx ==
  LET it == Head(chan) IN
  /\ phase # "stopped"
  /\ chan # <<>>
  /\ it.op = "GetReadTx"
  /\ chan' = Tail(chan)
  /\ \/ /\ get_file_fails
        /\ \E e \in get_file_errors : Reply(it.id, FileErr(e))
        /\ UNCHANGED <<readTxs, wal, minted>>
     \/ /\ get_file(it.file)
        /\ get_read_tx_fails
        /\ Reply(it.id, FileErr(Status(read_tx_rc)))
        /\ UNCHANGED <<readTxs, minted>>
     \/ /\ get_file(it.file)
        /\ Reply(it.id, OutMsg("File", Ok))
        /\ readTxs' = [readTxs EXCEPT ![it.file] = @ \cup {it.id}]
        /\ minted' = minted \cup {it.id}
  /\ UNCHANGED <<qstate, queue, readEnded, lock, timers, phase, extCount, sent, sentW,
                 granted, refusedWith>>

\* is_read_only (sqlite3_stmt_readonly): COMMIT only changes when other
\* statements write, so SQLite reports it read-only; BEGIN IMMEDIATE takes
\* the write lock and INSERT writes, so they are not.
ReadOnly == {"select", "commit"}

\* The codes sqlite3_step gives for statement s on a connection of
\* transaction t, which is in an SQL transaction or not (inTx).  COMMIT
\* (and ROLLBACK) outside one: "no transaction is active"; BEGIN IMMEDIATE
\* inside one: "cannot start a transaction within a transaction", and
\* SQLITE_BUSY while another connection holds the write lock, as for an
\* INSERT; no busy handler is set, so BUSY is returned at once.
end_rc(inTx) == IF inTx THEN SQLITE_DONE ELSE SQLITE_ERROR
step_rc(f, t, inTx, s) ==
  CASE s = "commit"          -> end_rc(inTx)
    [] s = "begin_immediate" -> IF inTx THEN SQLITE_ERROR
                                ELSE IF lock[f] = None THEN SQLITE_DONE
                                ELSE SQLITE_BUSY
    [] s = "insert"          -> IF lock[f] \in {None, t} THEN SQLITE_DONE
                                ELSE SQLITE_BUSY
    [] OTHER                 -> SQLITE_DONE

\* StmtHandle::run: steps to SQLITE_DONE, or returns the error status.
RunRes(rc) == IF to_return_status(rc).is_err THEN Err(Status(rc)) ELSE Ok

\* The binding of a Params (bind_kv / bind_index): Ok, or an ErrorBind of
\* one of its kinds (the Placeholder module decides which, from the query
\* and the data); SQLITE_RANGE stands for a failing sqlite3_bind_*.
BindResults(kind) ==
  IF kind \in ParamKinds
    THEN {Ok} \cup {Err(x) : x \in ErrorBindTypes({SQLITE_RANGE})}
    ELSE {Ok}

\* db.rs run_kv / run_index (sma run_params): a bind error is ErrorBind,
\* a step error ReturnStatus, both BindRunErrors.
run_params(rc, b) == IF b.ok THEN RunRes(rc) ELSE Err(Wrap("ErrorBind", b.err[1]))

\* sma run_read_only, run_params_read_only, run_write_only and
\* run_params_write_only: is_read_only is checked before binding.
run_read_only(s, rc) ==
  IF s \notin ReadOnly THEN Err(Leaf("QueryIsWrite")) ELSE RunRes(rc)
run_params_read_only(s, rc, b) ==
  IF s \notin ReadOnly THEN Err(Leaf("QueryIsWrite"))
  ELSE MapWrap(run_params(rc, b), "BindRunError")
run_write_only(s, rc) ==
  IF s \in ReadOnly THEN Err(Leaf("QueryIsRead")) ELSE RunRes(rc)
run_params_write_only(s, rc, b) ==
  IF s \in ReadOnly THEN Err(Leaf("QueryIsRead"))
  ELSE MapWrap(run_params(rc, b), "BindRunError")

\* process_tx_op_body for a WriteTx: WriteTx::q (db_handle.run), q_params
\* (run_params), read, read_params, write, write_params, each error
\* wrapped in the TxOpErr variant of the operation.
wtx_res(kind, s, rc, b) ==
  CASE kind = "Q"           -> RunRes(rc)
    [] kind = "QParams"     -> MapWrap(run_params(rc, b), "BindRunError")
    [] kind = "Read"        -> MapWrap(run_read_only(s, rc), "ReadError")
    [] kind = "ReadParams"  -> MapWrap(run_params_read_only(s, rc, b), "ReadBindRunError")
    [] kind = "Write"       -> MapWrap(run_write_only(s, rc), "WriteError")
    [] kind = "WriteParams" -> MapWrap(run_params_write_only(s, rc, b), "WriteBindRunError")

\* ... and for a ReadTx: ReadTx::q and q_params run read-only statements
\* only, a Write or WriteParams is refused before anything is prepared.
rtx_res(kind, s, rc, b) ==
  CASE kind \in {"Read", "Q"} -> MapWrap(run_read_only(s, rc), "ReadError")
    [] kind \in {"ReadParams", "QParams"} ->
         MapWrap(run_params_read_only(s, rc, b), "ReadBindRunError")
    [] OTHER -> Err(Wrap("ReadError", Leaf("QueryIsWrite")))

\* The statement reaches sqlite3_step: it passed the read/write check of
\* its operation and its parameters were bound.
wtx_steps(kind, s, b) ==
  /\ kind \in {"Read", "ReadParams"} => s \in ReadOnly
  /\ kind \in {"Write", "WriteParams"} => s \notin ReadOnly
  /\ b.ok
rtx_steps(kind, s, b) ==
  kind \notin {"Write", "WriteParams"} /\ s \in ReadOnly /\ b.ok

\* sqlite3_step of statement s on the connection of the Active WriteTx t of
\* f.  COMMIT inside the transaction ends it and releases the write lock;
\* BEGIN IMMEDIATE outside a transaction takes the lock when it is free.
\* Otherwise the lock is left as it was: a SELECT, an INSERT in the
\* transaction or autocommitted, or an error (step_rc).
stmt_commits(f, t, s) == s = "commit" /\ lock[f] = t
stmt_begins(f, s) == s = "begin_immediate" /\ lock[f] = None

run_on_wtx(f, t, s) ==
  \/ stmt_commits(f, t, s) /\ lock' = [lock EXCEPT ![f] = None]
  \/ stmt_begins(f, s) /\ lock' = [lock EXCEPT ![f] = t]
  \/ ~stmt_commits(f, t, s) /\ ~stmt_begins(f, s) /\ UNCHANGED lock

\* The TxOpErr::InvalidTxId reply of get_tx and remove_tx.
InvalidTxIdRes == OutMsg("Tx", Err(Leaf("InvalidTxId")))

\* process_tx_op_body: look the transaction up (get_tx), dispatch the TxOp
\* and reply with its TxOpRes; the registry is not changed.  A WriteTx's
\* statement runs on its connection (run_on_wtx); a ReadTx's COMMIT ends
\* the SQL transaction of its connection, and takes no write lock.
process_tx_op_body ==
  LET it == Head(chan)
      t  == it.tx
      kind == it.body[1]
      s  == it.body[2]
  IN
  /\ phase # "stopped"
  /\ chan # <<>>
  /\ it.op = "Body"
  /\ chan' = Tail(chan)
  /\ \E b \in BindResults(kind) :
     \/ \E f \in Files :
          /\ qstate[f] = Active(t)
          /\ Reply(it.id, OutMsg("Tx", wtx_res(kind, s, step_rc(f, t, lock[f] = t, s), b)))
          /\ IF wtx_steps(kind, s, b) THEN run_on_wtx(f, t, s) ELSE UNCHANGED lock
          /\ UNCHANGED readEnded
     \/ \E f \in Files :
          /\ t \in readTxs[f]
          /\ Reply(it.id, OutMsg("Tx", rtx_res(kind, s, step_rc(f, t, t \notin readEnded, s), b)))
          /\ readEnded' = IF rtx_steps(kind, s, b) /\ s = "commit"
                            THEN readEnded \cup {t} ELSE readEnded
          /\ UNCHANGED lock
     \/ /\ ~IsReadTx(t) /\ ~IsWriteTx(t)
        /\ Reply(it.id, InvalidTxIdRes)
        /\ UNCHANGED <<lock, readEnded>>
  /\ UNCHANGED <<qstate, queue, readTxs, timers, phase, extCount, wal, histVars>>

\* WriteTx::commit / rollback: COMMIT or ROLLBACK on the transaction's
\* connection, which then returns to the caller and is dropped; either way
\* the write lock is released if this connection still holds it.
wtx_end(f, t) ==
  lock' = IF lock[f] = t THEN [lock EXCEPT ![f] = None] ELSE lock

\* Mutant: the WriteTx is moved elsewhere instead of dropped, so its
\* connection keeps the write lock after the slot was handed on.
end_write_tx_kept(f, t) ==
  /\ take_active(f, Tail(chan))
  /\ UNCHANGED lock

\* remove_tx on the Active WriteTx t of f (take_active, then send the next
\* request), then wtx.commit()/rollback() and the drop of its connection,
\* which releases the write lock if that connection holds it (a statement
\* of the transaction may have ended it already; then COMMIT answers
\* "no transaction is active").
end_write_tx(f, t) ==
  /\ take_active(f, Tail(chan))
  /\ wtx_end(f, t)

\* process_tx_op_end: remove_tx takes the transaction out of the registry,
\* then COMMIT/ROLLBACK runs, its result is the reply (an error is
\* TxOpErr::ReturnStatus), and the connection is dropped.  For the Active
\* WriteTx, take_active hands the slot to the next queued request, which is
\* posted into the channel, and the write lock is released.
process_tx_op_end ==
  LET it == Head(chan)
      t  == it.tx
  IN
  /\ phase # "stopped"
  /\ chan # <<>>
  /\ it.op = "End"
  /\ \/ \E f \in Files :
          /\ t \in readTxs[f]
          /\ Reply(it.id, OutMsg("Tx", RunRes(end_rc(t \notin readEnded))))
          /\ readTxs' = [readTxs EXCEPT ![f] = @ \ {t}]
          /\ readEnded' = readEnded \ {t}
          /\ chan' = Tail(chan)
          /\ UNCHANGED <<qstate, queue, lock>>
     \/ \E f \in Files :
          /\ qstate[f] = Active(t)
          /\ Reply(it.id, OutMsg("Tx", RunRes(end_rc(lock[f] = t))))
          /\ end_write_tx(f, t)
          /\ UNCHANGED <<readTxs, readEnded>>
     \/ /\ ~IsReadTx(t) /\ ~IsWriteTx(t)
        /\ Reply(it.id, InvalidTxIdRes)
        /\ chan' = Tail(chan)
        /\ UNCHANGED <<regVars, lock>>
  /\ UNCHANGED <<timers, phase, extCount, wal, histVars>>

\* InputItem::BreakLoop: the loop exits and ActiveTxs is dropped, which
\* closes every connection and so releases every write lock we hold.
BreakLoop ==
  /\ phase # "stopped"
  /\ chan # <<>>
  /\ Head(chan).op = "BreakLoop"
  /\ phase' = "stopped"
  /\ chan' = Tail(chan)
  /\ lock' = [f \in Files |-> IF lock[f] = Ext THEN Ext ELSE None]
  /\ qstate' = [f \in Files |-> Empty]
  /\ queue' = [f \in Files |-> <<>>]
  /\ readTxs' = [f \in Files |-> {}]
  /\ readEnded' = {}
  /\ UNCHANGED <<timers, extCount, wal, histVars, replies>>

-----------------------------------------------------------------------------
Init ==
  /\ chan = <<>>
  /\ qstate = [f \in Files |-> Empty]
  /\ queue = [f \in Files |-> <<>>]
  /\ readTxs = [f \in Files |-> {}]
  /\ readEnded = {}
  /\ lock = [f \in Files |-> None]
  /\ timers = EmptyBag
  /\ phase = "running"
  /\ extCount = 0
  /\ wal = [f \in Files |-> f \in WalFiles]
  /\ sent = {}
  /\ minted = {}
  /\ replies = [m \in MsgIds |-> <<>>]
  /\ sentW = [f \in Files |-> <<>>]
  /\ granted = [f \in Files |-> <<>>]
  /\ refusedWith = {}

EventLoop ==
  \/ maybe_queue_write_tx_req
  \/ process_file_op_GetReadTx
  \/ process_tx_op_body
  \/ process_tx_op_end
  \/ BreakLoop

Next ==
  \/ EventLoop
  \/ \E r \in Reqs : SendOpen(r)
  \/ \E t \in Reqs : SendBody(t) \/ SendEnd(t)
  \/ Stop
  \/ \E w \in DOMAIN timers : TimerFires(w) \/ TimerFiresAfterStop(w)
  \/ \E f \in Files : ExtLock(f) \/ ExtUnlock(f)

\* The event loop thread runs whenever its channel is not empty; a sleeping
\* timer thread wakes up; the other process ends its transaction; a client
\* that holds a write transaction eventually commits or rolls it back
\* (nothing in the code forces it to: there is no inactivity reaper).
Fairness ==
  /\ WF_vars(EventLoop)
  /\ \A r \in Reqs, f \in Files : WF_vars(TimerFires([id |-> r, file |-> f]))
  /\ \A f \in Files : WF_vars(ExtUnlock(f))
  /\ \A t \in Reqs : WF_vars(SendEnd(t))

Spec == Init /\ [][Next]_vars
FairSpec == Spec /\ Fairness

-----------------------------------------------------------------------------
(* Properties                                                              *)

\* The codes a reply can carry in this model.
ReplyCodes == {SQLITE_ERROR, SQLITE_BUSY, SQLITE_BUSY_RECOVERY, SQLITE_IOERR_LOCK,
               SQLITE_CANTOPEN, SQLITE_RANGE}
ReplyMsgs == OutMsgs(ReplyCodes)

TypeOK ==
  /\ chan \in Seq(Items)
  /\ qstate \in [Files -> QStates]
  /\ queue \in [Files -> Seq(Reqs)]
  /\ readTxs \in [Files -> SUBSET Reqs] /\ readEnded \subseteq Reqs
  /\ lock \in [Files -> LockHolders]
  /\ IsABag(timers) /\ BagToSet(timers) \subseteq [id: Reqs, file: Files]
  /\ phase \in {"running", "stopping", "stopped"}
  /\ extCount \in 0..MaxExt
  /\ wal \in [Files -> BOOLEAN]
  /\ sent \subseteq MsgIds /\ minted \subseteq Reqs
  /\ replies \in [MsgIds -> Seq(ReplyMsgs)]
  /\ sentW \in [Files -> Seq(Reqs)] /\ granted \in [Files -> Seq(Reqs)]
  /\ refusedWith \subseteq Nat

\* Only a WriteTx the registry holds as Active has the write lock through
\* one of our connections: no ended or dropped transaction, and no ReadTx,
\* keeps or takes it (end_write_tx, BreakLoop, run_read_only).
LockHeldByActive ==
  \A f \in Files, t \in Reqs : lock[f] = t => qstate[f] = Active(t)

\* A request to open a write transaction is never refused because another
\* connection held the lock: whatever BUSY code SQLite returns for BEGIN
\* IMMEDIATE (SQLITE_BUSY_RECOVERY included), process_wtx_req schedules a
\* retry instead of answering with it, which rests on to_return_status
\* decoding the primary code of an extended one (get_primary, get_rows).
BusyNeverSurfaced == \A rc \in refusedWith : RefPrimary(rc) # SQLITE_BUSY

\* Every code SQLite 3.28 can return, and each code a write request was
\* refused with, is decoded by to_return_status as sqlite3.h defines it:
\* no row lookup panics, the primary row is the low byte, an extended row
\* is present exactly for an extended code, and is_ok / is_err follow the
\* primary code; an endianness slip in is_extended or get_primary, or a
\* missing arm of get_is_error, breaks it (errmap.rs get_rows, err.rs).
DecodeAsSQLite ==
  TablesDecodeAsSQLite /\ \A rc \in refusedWith : DecodesAsSQLite(rc)

\* The registry and SQLite agree on who writes: our process holds a file's
\* write lock exactly when the file's WriteQueue is Active, and through that
\* WriteTx's connection (spec P1/P2; remove_tx, take_active, wr_active and
\* the commit that drops the connection must move together).
LockAgreement ==
  \A f \in Files, t \in Reqs : lock[f] = t <=> qstate[f] = Active(t)

\* A file whose write slot is Empty has nobody waiting in its queue: a
\* queued request is only ever behind an Active writer or an in-flight
\* retry that will hand the slot on (take_active, wr_fail, process_write_req).
EmptyHasNoQueue ==
  \A f \in Files : qstate[f] = Empty => queue[f] = <<>>

\* While the loop runs, NextRetry(m) means the request m is on its way back
\* exactly once: asleep in one send_at thread or waiting in the channel
\* (spec P3; wr_retry, wr_fail, remove_tx and process_write_req).
RetryInFlight ==
  phase # "stopped" =>
    \A f \in Files, m \in Reqs : qstate[f] = NextRetry(m) => InFlight(m, f) = 1

\* output_fn is called at most once per message id: a queued or retried
\* write request is answered once, when it finally succeeds or fails
\* (spec P5, maybe_queue_write_tx_req).
AtMostOneReply == \A m \in MsgIds : Len(replies[m]) <= 1

\* A client is told its transaction id is invalid only after it ended the
\* transaction: a body operation is answered TxOp/InvalidTxId only once the
\* commit/rollback of that transaction was answered, and a transaction's
\* one commit/rollback never is (spec P4; get_tx and remove_tx look the id
\* up among the read and the write transactions of every file, and
\* process_tx_op_end removes it only when its end is processed).
HasReply(m, o) == \E j \in DOMAIN replies[m] : replies[m][j] = o
InvalidTxIdOnlyAfterEnd ==
  \A t \in Reqs :
    /\ \A i \in 1..MaxBodies :
         HasReply(<<"body", t, i>>, InvalidTxIdRes) => replies[<<"end", t>>] # <<>>
    /\ ~HasReply(<<"end", t>>, InvalidTxIdRes)

\* The error_type of a reply names its error kind precisely (spec 6.2):
\* over every error the runtime can return, and over the replies sent,
\* two errors have the same error_type exactly when they are of the same
\* kind, and the examples of the spec encode as it says (json_out.rs
\* From<TxOpErr>, From<FileOpErr>, bre_match, to_path).
ErrorTypePrecise ==
  /\ AllErrorsPrecise
  /\ \A m1, m2 \in MsgIds :
       \A i \in DOMAIN replies[m1], j \in DOMAIN replies[m2] :
         SameTypeSameKind(replies[m1][i], replies[m2][j])

\* Write transactions on a file are granted in the order their requests
\* were sent, across retries and queue re-entries (spec P6).
Pos(s, x) == CHOOSE i \in 1..Len(s) : s[i] = x
GrantFIFO ==
  \A f \in Files : \A i, j \in 1..Len(granted[f]) :
    i < j => Pos(sentW[f], granted[f][i]) < Pos(sentW[f], granted[f][j])

\* Every message a client sends is eventually answered, unless the runtime
\* is being stopped (spec P5).  Needs the fairness above: an external lock
\* holder that lets go, timer threads that wake, clients that end their
\* transactions.  As sent, replies and phase only grow, this is the same as
\* "each m \in sent ~> replies[m] # <<>>": infinitely often, every message
\* sent so far has its reply.
EveryRequestAnswered ==
  []<>(phase # "running" \/ \A m \in sent : replies[m] # <<>>)

=============================================================================
