# TLA+ models of sqlite-mpi-rust

This directory holds TLC-checked TLA+ models of the sqlite-mpi runtime. The
runtime is a message-passing interface to SQLite: JSON requests in, JSON
replies out, with one event loop serialising every transaction a host
process opens.

## The system

| Part | Source | What it does |
|------|--------|--------------|
| Runtime handle | `src/runtime/src/runtime.rs` (`Runtime::new`, `input`, `drop`) | Owns the mpsc sender and the event-loop thread. `input` validates the id and posts the message. `drop` posts `BreakLoop` and joins the thread. |
| Event loop | `runtime.rs` (`start_thread`, `maybe_queue_write_tx_req`, `process_write_req`, `process_wtx_req`, `immediate_response`, `process_file_op`, `process_tx_op_body`, `process_tx_op_end`) | One thread takes `InputItem`s one at a time. It runs the whole handler for each item and calls `output_fn` with the reply. |
| Registry | `src/runtime/src/active_txs.rs` (`ActiveTxs`, `WriteQueue`, `QState`) | Per file: the live `ReadTx`s, plus a write slot (`Empty`, `NextRetry(id)` or `Active(wtx)`) with a FIFO of waiting `WtxReq`s. |
| Retry scheduler | `active_txs.rs` (`send_at`) | On `SQLITE_BUSY`, a thread sleeps 2 s and posts the request back into the channel. |
| Driver adapter | `src/sma/src/lib.rs` (`DbFile`, `ReadTx`, `WriteTx`) | Opens a connection (pragmas, WAL mode), runs `BEGIN` / `BEGIN IMMEDIATE`, runs statements, and runs `COMMIT` / `ROLLBACK`. |
| SQLite bindings | `src/sqlite3ffi/src/` (`db.rs`, `stmt.rs`, `placeholder.rs`, `err.rs`, `errmap.rs`, `config.rs`) | FFI to SQLite: statement preparation, placeholder classification, parameter binding, row reading, and the result-code table. |
| Codec | `runtime/src/messages.rs`, `json_in.rs`, `json_out.rs` | Request and reply types, and their JSON conversions. |
| Host interface | `src/smpi_iop_ffi/src/ffi.rs`, `jni.rs` | C and JNI entry points: `smpi_start`, `smpi_input`, `smpi_stop`. A `static mut RT` is guarded by `Once` flags. |

How the parts interact:

- The clients, through `input`, and the retry threads, through `send_at`, write into one channel.
- Only the event loop reads the channel and touches the registry.
- When a write transaction ends, `remove_tx` hands the slot to the head of the file's queue. It sets `NextRetry(head)` and posts that request into the channel; `wr_fail` does the same.
- The SQLite write lock of a file can also be held by another OS process. The runtime then sees `SQLITE_BUSY` and retries.

## Modules

- **`Coordinator.tla`** models the runtime handle, the event loop, the registry, the retry scheduler and the adapter's outcomes, as seen by the loop.
  - **State.** Each variable follows the code:
    - `chan` is the mpsc channel.
    - `qstate[f]` and `queue[f]` are `WriteQueue.state` and `WriteQueue.queue`.
    - `readTxs[f]` holds the `ReadTx` ids.
    - `lock[f]` is the holder of the SQLite write lock: `None`, `"ext"` (another process) or our write transaction.
    - `timers` is the bag of requests held by sleeping `send_at` threads.
    - `phase` is running, stopping (`BreakLoop` sent) or stopped.
  - **History variables.** `sent`, `minted`, `replies`, `sentW`, `granted` and `refusedWith` (the codes write requests were refused with) only record history for the properties. `replies[m]` is the sequence of `OutMsg`s the loop passed to `output_fn` for `m`, typed as in `Replies.tla`.
    - `readEnded` holds the `ReadTx`s whose connection a COMMIT statement has ended (`ReadTx::q` runs it, since SQLite calls COMMIT read-only); the registry still lists them until their end message.
  - **Actions.** Each handler of the loop is one action, covering the whole handler:
    - `maybe_queue_write_tx_req`, built from `process_wtx_req` and its four outcomes (`wtx_*`);
    - `process_file_op_GetReadTx`;
    - `process_tx_op_body`;
    - `process_tx_op_end`, through `end_write_tx` / `take_active`;
    - `BreakLoop`.
  - **Registry methods.** `wr_queue`, `wr_active`, `wr_retry`, `wr_fail` and `take_active` are sub-actions with the code's names.
  - **Statements.** A body operation carries its `TxOp` kind (`Read`, `Write`, `Q` and their `*Params` forms, `BodyKinds`) and a statement: SELECT, INSERT, COMMIT or BEGIN IMMEDIATE.
    - `ReadOnly` is `sqlite3_stmt_readonly`: COMMIT counts as read-only, BEGIN IMMEDIATE does not.
    - `run_read_only`, `run_params_read_only`, `run_write_only` and `run_params_write_only` are the sma functions: the read/write check comes before binding. `run_params` is `DbHandle::run_kv` / `run_index`; `BindResults(kind)` is the bind outcome, success or any `ErrorBindType` (the three binding errors, `SQLITE_RANGE`), which `Placeholder.tla` works out in detail.
    - `wtx_res` and `rtx_res` are the reply of `process_tx_op_body` for each kind on a `WriteTx` and a `ReadTx`, each error wrapped in its `TxOpErr` variant; `step_rc` and `end_rc` are the code of `sqlite3_step` and of `COMMIT`/`ROLLBACK`, which depend on whether the connection is still in its transaction.
    - `run_on_wtx` is what stepping the statement does to the write lock: COMMIT in the transaction releases it, and BEGIN IMMEDIATE outside one takes it when it is free.
    - A `ReadTx` runs only read-only statements, so it never takes the lock.
  - **Environment.** `Input` / `Post` (client messages), `Stop` (`Runtime::drop`), `TimerFires` / `TimerFiresAfterStop` (`send_at`'s thread), and `ExtLock` / `ExtUnlock` (another process).
  - **Adapter outcomes.** `get_file_abs_fails`, `get_file_fails` and `get_read_tx_fails` say when the driver calls succeed.
    - `begin_immediate_rc(f)` is the set of codes `BEGIN IMMEDIATE` can return with extended codes on: `SQLITE_DONE` when the lock is free; `SQLITE_BUSY` or `SQLITE_BUSY_RECOVERY` while it is held; and `SQLITE_IOERR_LOCK` where `BeginMayFail` holds.
    - `get_write_tx_ok/busy/err(rc)` classify that code through `ResultCodes!to_return_status` exactly as `StmtHandle::run` and `process_wtx_req` do: `Err` when `is_err`, and retry only when the primary row is `SQLITE_BUSY`.
    - `get_file_errors` are the errors of a failed open: `FileDirectoryDoesNotExist` or a `ReturnStatus` (`SQLITE_CANTOPEN`); a failed `BEGIN` of a `ReadTx` replies `SQLITE_IOERR_LOCK`.
    `wtx_end` is `WriteTx::commit/rollback`: the connection releases the lock if it still holds it.
  - **WAL mode.** `wal[f]` is the journal mode stored in the file; `WalFiles` are the files already in WAL mode at the start (none in the cfgs, so the first open must switch).
    - `get_file(f)` is a successful `DbFile::new`, which runs `set_journal_mode_wal(f)`.
    - On a file not yet in WAL mode, `PRAGMA journal_mode=WAL` returns `SQLITE_BUSY` while another process holds a lock, and the code sleeps and retries for ever on the event loop thread. In the model the open step is disabled until `ExtUnlock`, so every other message waits too. What this wait costs is checked by `EveryRequestAnswered`; that a transaction only exists on a WAL file is not a property, since every open that creates one sets `wal` (the code's `assert!(wal_enabled)`).
    - A non-BUSY error of `PRAGMA journal_mode=WAL` reaches `unreachable!` (`sma/src/lib.rs:231-234`) and kills the loop; that branch is not modelled.
  - **Abstractions.** A transaction is named by the request that opened it, because both ids are unique. SQL text, result sets, tx ids and error message texts are left out; a reply keeps its `OutMsg` variant and its error value. Every client sends at most one body and one end message per transaction.
- **`Replies.tla`** models the reply types and their wire encoding: `OutMsg`, `FileOpErr`, `TxOpErr` (`messages.rs`), the sma errors `ReadError`, `ReadBindRunError`, `WriteError`, `WriteBindRunError` (`sma/src/lib.rs`), `BindRunError` (`db.rs`) and `ErrorBindType` (`stmt.rs`), and `out_rs_to_json` (`json_out.rs`). It has no state; `Coordinator` extends it for its replies.
  - **Values.** An enum value is a record of its variant, the one value it wraps and, for a `ReturnStatus` arm, `to_return_status` of the code. `MapWrap` is the caller's `Err(e) => Err(V(e))`. `TxOpErrs(cs)` and `OutMsgs(cs)` are every value over the codes `cs`.
  - **Encoding.** `to_path` is `p.join("/")` (a `FoldLeft`). `k`, `ks` and `km` are `E::new_key`, `new_key_status` and `new_key_msg`. `bre_match`, `FileOpErrToE` and `TxOpErrToE` push the variant names as the code's `From` impls do. The message text is only present or absent.
  - **Contract.** `Kind` forgets the `ReturnStatus` values. `SpecExamples` are the five `error_type`s spec §6.2 lists.
- **`ResultCodes.tla`** models `errmap.rs` and `err.rs`, the decode of every SQLite return code into a `ReturnStatus`. It has no state; `Coordinator` extends it.
  - **Tables.** `PRIMARYTBL` and `EXTENDENDEDTBL` are sets of codes, one definition per family of rows (`IOERR_ROWS`, `BUSY_ROWS`, ...). A row is abstracted to its code; the enum member and name string carry nothing more.
  - **Decode.** `get_primary` and `is_extended` read bytes 0 and 1 of the `u32` (`to_le_bytes`). `get_primary_row` and `get_extended_row` return the row or `Panic`, the lookup's `panic!`. `get_rows`, `get_is_error` and `to_return_status` follow the code.
  - **Reference.** `RefPrimary`, `RefIsExtended` and `RefIsError` are `sqlite3.h`'s own definitions (`rc & 0xff`, `rc >> 8`), written with `Bitwise`.
- **`MC_Coordinator.tla`** gives the model values: files `f1`, `f2` and requests `r1..r3`. It also defines the symmetry sets over the requests, and the refinement mapping onto `WriteLock`:
  - `holder` is `lock`;
  - `waiting[f]` is the write requests for `f` that have been sent and not yet answered, in send order;
  - `requested` is every write request sent;
  - `stopped` is the loop's exit.
- **`WriteLock.tla`** is the abstract service that the registry implements for each file's writers.
  - A file has at most one writer: one of our write transactions, or another process.
  - Requests wait in send order.
  - `Grant` gives a free file to the oldest waiting request.
  - `Refuse` answers any waiting request with an error.
  - `Release` and the external `ExtAcquire` / `ExtRelease` free or take the file.
  - `Shutdown` drops everything.
  - Weak fairness on `Grant`: a file that stays free while requests wait is granted.
- **`Placeholder.tla`** models placeholder classification and binding (`placeholder.rs`, `stmt.rs`). A query is a sequence of placeholder tokens: `?`, `?N`, and `:b`, `@b`, `$b` for base names `b`.
  - **SQLite's numbering.** `Prepared` gives the numbers that `sqlite3_prepare` assigns (`sqlite3ExprAssignVarNumber`). It is the environment, and `bp_count` and `bp_name` read it.
  - **Code operators.** Each has the code's name: `get_ph_names`, `get_key_indexes`, `get_key_indexes_normal`, `get_placeholder_meta`, `bind_kv_check_errors`, `bind_kv`, `bind_index_check_errors`, `bind_index`, and `bind_val_ok` (`SQLITE_RANGE` outside `1..max_index`). `bind_kv` ends in `Panic` when a base name is missing from the data (`key_val.data[k]` indexes a `HashMap`); `bind_kv_check_errors` keeps that branch unreachable.
  - **The call.** `run_index` and `run_kv` are `DbHandle::run_index` / `run_kv`. `Init` picks any query of up to 3 placeholders and any index or key data, and the call returns the bind status and what each placeholder read.
- **`FfiLifecycle.tla`** models the host interface (`ffi.rs`, and its JNI wrapper `jni.rs`):
  - `smpi_start`, `smpi_stop` and `smpi_input` over `static mut RT` and the `Once` flags `INIT` and `STOP`;
  - the event loop thread of each runtime;
  - `Runtime::drop` (send `BreakLoop`, join).
  - **Steps.** `smpi_stop` is three steps: `call_once` and the `BreakLoop` send, the join, then `reset`. `smpi_input` is two steps, `assert_started` then parse/send, because another host thread can run in between.
  - **Panics.** A panic inside an `extern "C"` function aborts the process (`aborted`).
  - **Freed runtime.** A use of an `Rt` that `reset` freed is undefined behaviour. The model lets it either crash or post into a dead channel.
  - **Statements with no SQL.** `NoSqlQueries` lets a request carry a statement text with no SQL in it (empty, blanks or a comment), and `loop_no_sql` is the loop handling it. `sqlite3_prepare_v2` returns `SQLITE_OK` and a NULL statement, which `StmtHandle` keeps. `run` calls `is_iud(NULL)`, which reads a NULL C string (undefined behaviour: the process crashes or not). Then `step` returns `SQLITE_MISUSE`, and the handle's drop fails `assert!(!stmt.is_null())`, which ends the loop thread. After that, `Runtime::drop`'s `send(BreakLoop).expect` panics, so `smpi_stop_call_once` aborts on a dead loop.
  - **Host contract.** Three constants say what the host keeps to: `CallsInOrder`, `HostSynchronised` (no `smpi_input` concurrent with `smpi_stop`) and `ValidIdsOnly`. `Hosts` says which hosts `Init` may pick: `"c"` or `"jni"`.
  - **JNI.** `jni_start_set_cb` stores the Java closure in `static mut CB` before `smpi_start`. `jni_stop_clear_cb` empties `CB` before `smpi_stop`. For the JNI host, an output is two steps: `loop_output` enters `call_cb`, which borrows the closure out of `CB` (or drops the output when `CB` is `None`), and `call_cb_return` leaves it. `FreeBox` is the drop of the old box. Freeing a box that `call_cb` is running is undefined behaviour, so it may or may not crash.
- **`MC_Placeholder.tla`** and **`MC_FfiLifecycle.tla`** give the model values: base names, values and host threads.

`PROJECT.json` maps every definition to the source lines it models.

## Runs

| Run | Config | Checks | Result |
|-----|--------|--------|--------|
| `core` | `MC_Coordinator_core.cfg`: 1 file, 3 requests, one external lock, BEGIN may fail, opens succeed, fairness on | `TypeOK`, `LockAgreement`, `EmptyHasNoQueue`, `RetryInFlight`, `AtMostOneReply`, `GrantFIFO`, `InvalidTxIdOnlyAfterEnd`, the liveness `EveryRequestAnswered`, and the refinement `WriteLockSpec` (`WriteLock!Spec` under the mapping, fairness included) | pass |
| `failures` | `MC_Coordinator_failures.cfg`: as `core`, plus opens may fail, body operations `Q` and `ReadParams` with every bind outcome, no fairness, request symmetry | the safety invariants other than `TypeOK` (typed by construction on the added paths) and `RetryInFlight`, plus `BusyNeverSurfaced`, `DecodeAsSQLite` and `ErrorTypePrecise` | pass |
| `stall` | `MC_Coordinator_stall.cfg`: 2 requests, no external lock, opens may fail | `RetryInFlight` | violation (see Findings) |
| `txctl` | `MC_Coordinator_txctl.cfg`: 1 file, 2 requests, up to 2 statements per transaction (INSERT, COMMIT, BEGIN IMMEDIATE through `Read` or `Q`), no external process, request symmetry | `LockHeldByActive`, `RetryInFlight` | pass |
| `txctl_lock` | `MC_Coordinator_txctl_lock.cfg`: as `txctl`, with the external process | `LockAgreement` | violation (see Findings) |
| `placeholder_bind` | `MC_Placeholder_bind.cfg`: 2 base names, `?N` up to 2, up to 3 placeholders, 2 values, up to 3 index values | `TypeOK`, `BoundValuesCorrect`, `KeyBindAsSpec` | pass |
| `placeholder_index_spec` | `MC_Placeholder_IndexBindAsSpec.cfg`: the same calls | `IndexBindAsSpec` | violation (see Findings) |
| `placeholder_classify` | `MC_Placeholder_ClassifiedAsSpec.cfg`: the same calls | `ClassifiedAsSpec` | violation (see Findings) |
| `ffi_contract` | `MC_FfiLifecycle_contract.cfg`: a C host, 2 host threads, 2 runtimes in a row, 3 inputs, the host keeps the contract, fairness on | `NoAbort`, `OneLoop`, the liveness `StopReturns` | pass |
| `ffi_misuse` | `MC_FfiLifecycle_misuse.cfg`: C and Java hosts, any call order, threading, ids and statement texts (no SQL included); thread symmetry | `TypeOK`, `NoLateOutput` | pass |
| `ffi_badid` | `MC_FfiLifecycle_badid.cfg`: the contract, with ids that are not v4 UUIDs | `NoAbort` | violation (see Findings) |
| `ffi_jni` | `MC_FfiLifecycle_jni.cfg`: a Java host that keeps the whole contract | `NoUseOfDroppedCallback` | violation (see Findings) |

What each property says:

- **`LockAgreement`**: the registry's `Active(t)` for a file and the SQLite write lock agree. No handed-on slot leaves the lock held, and no grant happens while another of our connections holds it.
- **`EmptyHasNoQueue`**: a file whose slot is `Empty` has no waiting requests. Otherwise they would never be posted again.
- **`RetryInFlight`**: `NextRetry(m)` means exactly one copy of request `m` is on its way back to the loop, either sleeping in a timer or waiting in the channel. Without it the file stalls.
- **`AtMostOneReply`**: no message gets two replies. A delayed (`None`) response must not be answered twice when it is retried.
- **`GrantFIFO`**: write transactions on a file are granted in the order their requests were sent.
- **`EveryRequestAnswered`**: every message sent while the runtime runs is answered, unless the runtime is stopped first. This includes the wait in `set_journal_mode_wal`, which ends because the other process eventually releases its lock (`ExtUnlock` is fair). It is written as `[]<>(stopped or every sent message answered)`. Because `sent`, `replies` and `phase` only grow, this is the same as the per-message leads-to, and TLC checks it with one tableau instead of one per message.
- **`InvalidTxIdOnlyAfterEnd`**: a body operation is answered `TxOp/InvalidTxId` only once the end (commit or rollback) of its transaction was answered, and that one end message never is (spec P4). `get_tx` and `remove_tx` look the id up among the read and write transactions of every file; a lookup that misses a live transaction (one that only searched the read transactions) breaks it.
- **`ErrorTypePrecise`**: two error replies the loop sent have the same `error_type` exactly when they are errors of the same kind, `ReturnStatus` values aside. This holds both for the replies reached and, in a constant part, for every `OutMsg` over one code, together with the five examples of spec §6.2. Dropping the `ErrorBind` level in `bre_match` breaks it, because a bind status then reads like a step status.
- **`WriteLockSpec`**: every coordinator step is a `WriteLock` step or leaves the abstract state alone, and `WriteLock`'s fairness holds.
  - A grant (`wtx_begin_ok`) must go to the oldest unanswered write request for the file, and only while nothing holds the lock.
  - A file left free while requests wait must eventually be granted.
- **`BusyNeverSurfaced`**: no write request is refused with a BUSY code. `SQLITE_BUSY_RECOVERY` (261) included, every BUSY result of `BEGIN IMMEDIATE` is retried (spec §8, end-to-end scenario 4: "never BUSY-surfaced"). Matching on the raw code instead of its primary row would refuse 261.
- **`DecodeAsSQLite`**: every code of SQLite 3.28, and every code a request was refused with, decodes as `sqlite3.h` defines it. No lookup panics, the primary row is the low byte, an extended row is there exactly for an extended code, and `is_ok` / `is_err` follow the primary code. Reading the wrong byte in `is_extended` breaks it.
- **`LockHeldByActive`**: one of our connections holds a file's lock only as the registry's `Active` WriteTx. This holds even when statements end and restart the transaction.
- **`BoundValuesCorrect`**: after a successful bind, no placeholder reads NULL. A named placeholder reads the data for its base name. An index placeholder reads the value at its index.
- **`KeyBindAsSpec`**: for a query of named placeholders only, key binding succeeds exactly when the data has every base name (spec §4.5, B2).
- **`IndexBindAsSpec`**, **`ClassifiedAsSpec`**: the index-binding rule and the classification of spec §4.5 (see Findings).
- **`NoAbort`**: a host that keeps the contract never hits an `assert`, `unreachable!` or `expect` inside `smpi_*`.
- **`OneLoop`**: at most one event loop thread is alive.
- **`StopReturns`**: `smpi_stop` returns.
- **`NoLateOutput`**: after `smpi_stop` returned, the host's callback is never called for that runtime.
- **`NoUseOfDroppedCallback`**: `jni.rs` never frees the Java closure while `call_cb` is running it.

Every property of a passing run has a mutant in `PROJECT.json`: a plausible bug in one mapped definition that TLC shows breaks it.

### Bounds

- One file is enough for the queue and retry logic, since files share no state in the registry.
- Three requests give a holder, a queued request and a request arriving during a `NextRetry`.
- `MaxExt = 1` lets another process take the lock once. That makes `SQLITE_BUSY`, a timer and a retry happen. More external locks only repeat the same retry loop.
- The history variables bound themselves: each message id is sent at most once.
- `BEGIN IMMEDIATE` returns one of four codes. `SQLITE_DONE` is success. `SQLITE_BUSY` is a primary BUSY code and `SQLITE_BUSY_RECOVERY` an extended one. `SQLITE_IOERR_LOCK` is an extended code that is not BUSY. These cover each arm of the code's `match` and both shapes of code. `DecodeAsSQLite` checks every other code of the tables on its own, so the model needs no more of them.
- One code per error kind is enough for `ErrorTypePrecise`: `error_type` never depends on the code, only on whether a `ReturnStatus` arm is taken. `failures` replies with `SQLITE_CANTOPEN`, `SQLITE_IOERR_LOCK`, `SQLITE_RANGE` and the step codes. `ReadParams` on SELECT and INSERT reaches `QueryIsWrite` and every `BindRunError` arm; `Q` covers the unwrapped replies.
- `txctl` needs two statements per transaction, for COMMIT followed by BEGIN IMMEDIATE. Two requests give a holder and a queued request to hand the slot to.
  - INSERT stands for every statement that is not read-only and not transaction control. SELECT behaves like COMMIT outside a transaction, so it is left out.
  - `Read` and `Q` between them reach both classification outcomes.
  - The external process is left out of the pass run, because `LockHeldByActive` is about our connections. The violation run includes it.
  - With 3 requests, or with the external process, the state space exceeds 8M states.
- `Placeholder` enumerates every query of up to 3 placeholders over `?`, `?1`, `?2` and `:`/`@`/`$` with 2 base names. That covers:
  - repeated names;
  - the same base name under different prefixes;
  - `?N` below, at and above the count;
  - mixed kinds;
  - index data shorter than, equal to and longer than the count.
- `FfiLifecycle`: two runtimes in a row show the restart (`reset` renewing the `Once` flags). Two host threads show an input racing another input or stop. Three inputs put a message before and after `BreakLoop`.

### Fairness

- **The event loop.** It is weakly fair: the thread blocks on `rx` only when the channel is empty.
- **The timer threads.** Each is weakly fair, because `thread::sleep` returns.
- **The other process.** It eventually releases its lock. The code assumes the same: it retries forever, with no cap (`runtime.rs:294`).
- **`FfiLifecycle`.** Each runtime's loop thread, the Java callback (it returns), and the control thread once it is inside `IOP.start`, `IOP.stop` or `smpi_stop`, are weakly fair. The join blocks only until the loop exits. The host's own calls are not fair, since the host may stop calling.
- **A client holding a write transaction.** It eventually ends it. Nothing in the code enforces this: there is no inactivity reaper (`runtime.rs:177`). So `EveryRequestAnswered` holds only for well-behaved clients.

## Findings

- **A write request that fails to open its file during its `NextRetry` turn leaves the file stalled** (`runtime.rs:256-259`, `runtime.rs:312-318`).
  - When `take_active` or `wr_fail` hands the slot to request `m`, the file is in state `NextRetry(m)`.
  - If that request then fails in `get_file_abs` or `get_file`, the error is returned and the state is never changed.
  - Nothing is in flight for `m` any more, so every later write request for the file is queued forever.
  - `spec.md` §4.3 says that any other error pops the queue head. The `stall` run shows the trace in 8 states.

- **`$a ?1` is classified `Key`, not `IndexAndKey`** (`placeholder.rs:86`).
  - `?1` reuses the index of `$a`, so the number of named keys equals `max_index`, and `has_indexes` is false.
  - The spec (§4.5, B3) and `test_placeholders.rs` say mixed kinds are refused by both binders. Here `bind_kv` binds it.
  - Run `placeholder_classify`.
- **Index binding with more values than placeholders fails with `SQLITE_RANGE`** (`stmt.rs:353`).
  - `bind_index_check_errors` only rejects too few values. `bind_index` then binds every value, and binding past `max_index` is out of range.
  - The spec binds positions `1..max_index`.
  - Run `placeholder_index_spec`: `SELECT ?` with two values.
- **A request id that is not a v4 UUID aborts the host** (`ffi.rs:211`).
  - `smpi_input` parses the request, then treats `Err` from `Runtime::input` as `unreachable!()`.
  - `input` returns `InvalidId` for any id that is not a hyphenated v4 UUID. The panic crosses `extern "C"` and aborts the process.
  - Spec B5 expects a synchronous settled reply.
  - Run `ffi_badid`: 4 states.
- **Java's `IOP.stop` frees the callback the event loop is running** (`jni.rs:94`).
  - `Java_..._IOP_stop` calls `clear_cb()` first. It assigns `None` to `static mut CB`, which drops the boxed closure that calls the Java method. Only then does `smpi_stop` send `BreakLoop` and join the loop.
  - If the loop is delivering an output at that moment, `call_cb` is running the closure, which now lives in freed memory. The unsynchronised write and read of `CB` are also a data race.
  - A host that keeps the whole contract reaches it: start, one input, the reply is delivered, and stop is called before `call_cb` returns. Run `ffi_jni`: 7 states.
  - Outputs for messages still queued at stop find `CB` empty and are dropped, so the Java host never receives them. Spec §5 describes shutdown as the break token draining the worker, then the join.
  - Calling `clear_cb` after `smpi_stop` would fix both, since the join ends every `call_cb`.
- **A statement with no SQL kills the event loop** (`stmt.rs:150`, `stmt.rs:686-689`, `stmt.rs:775`). This was seen while modelling, and no run of its own checks it.
  - A `Read`, `Write` or `Q` whose text is `""`, blanks or a comment prepares to a NULL statement with `SQLITE_OK`.
  - `run` passes the NULL statement to `CStr::from_ptr` in `is_iud`, and `drop` asserts it is not null. The loop thread dies, or the whole process crashes, and no reply is sent.
  - The host's next `smpi_input` gets `ChannelError` (`unreachable!`) and its `smpi_stop` panics on the send of `BreakLoop`. Both abort the host.
  - With `NoSqlQueries = TRUE` in the `ffi_badid` configuration but with valid ids, TLC shows `NoAbort` violated in 5 states. Spec §7 says every such error reaches the client as a typed reply.
- **`smpi_input` concurrent with `smpi_stop`** (`ffi.rs:178`) would use a freed `Rt`: `assert_started` hands out a `&'static Rt` from `static mut RT` with no lock. The model keeps this case (`usedDropped`), but no run checks it, because the spec gives the host no threading contract. The runs assume a host that does not overlap input with stop.
- **COMMIT through `Q` or `Read` ends a WriteTx behind the registry's back** (`sma/src/lib.rs:455`, `stmt.rs:675`).
  - SQLite reports COMMIT as read-only, so `WriteTx::read` runs it, and `WriteTx::q` runs anything.
  - After it, the registry still holds the transaction as `Active`, so other requests for the file stay queued, while the SQLite lock is free for another process.
  - Later writes of the "transaction" autocommit one by one or fail with `SQLITE_BUSY`. The final commit fails with "no transaction is active".
  - The spec allows `Q` unconditionally and says nothing about transaction-control statements.
  - Run `txctl_lock`.

- **A WriteTx `Read` of a write statement replies `TxOp/ReadError/QueryIsWrite`** (`runtime.rs:455-456`, `sma/src/lib.rs:432`, `sma/src/lib.rs:516`). This was seen while modelling, and no run of its own checks it.
  - Spec §4.5 says a `WriteTx` refuses a `Read` of a statement that is not read-only with `QueryIsRead`.
  - `WriteTx::read` calls `run_read_only`, which returns `ReadError::QueryIsWrite`, and `sma/src/test.rs` asserts that. The model follows the code (`wtx_res`).

## Not modelled yet, and the plan

Planned modules, in this order:

1. **Extensions of `Coordinator`**:
   - duplicate message ids (`runtime.rs:114`);
   - path aliases that `normalize_file_path` keeps apart (`runtime.rs:570`);
   - clients that block on a second file while holding a write transaction (`runtime.rs:265`).

Left out on purpose:

- the request side of the JSON codec (`json_in.rs`): only its outcome, a valid id or not, enters `FfiLifecycle`;
- the serde layout of the reply (field order, `res` contents, message texts); `Replies` keeps only what decides `ok`, `res_type`, `error_type` and `return_status`;
- the data hazards of `stmt.rs` that TLC's string model cannot express: TEXT values cut at a NUL byte (`stmt.rs:631`), the zero-length blob read (`stmt.rs:666`) and `to_cstr`'s panic on a NUL inside a request string (`fns.rs:7`); they are listed as hazards with notes;
- the other consumers of `to_return_status` (`prepare`, `bind`, `finalize`, `config.rs`): they share the decode `DecodeAsSQLite` checks, and their codes enter the models only as outcomes;
- the string conversions of `ffi.rs` and `jni.rs` (`to_ptr`, `from_ptr`, `JString`);
- `build.rs`, `simulator.rs` and the tests;
- the row reading in `stmt.rs`, which is data, not control;
