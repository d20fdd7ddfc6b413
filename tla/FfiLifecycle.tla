--------------------------- MODULE FfiLifecycle ---------------------------
(***************************************************************************)
(* The host interface of smpi_iop_ffi (ffi.rs): smpi_start, smpi_input and *)
(* smpi_stop over `static mut RT: Option<Rt>` and the `Once` flags INIT    *)
(* and STOP, together with the part of the runtime they drive: the event   *)
(* loop thread that answers through the host's output callback, and        *)
(* Runtime::drop, which sends BreakLoop and joins that thread.             *)
(*                                                                         *)
(* A control thread of the host starts and stops the runtime; input        *)
(* threads call smpi_input.  A panic inside an extern "C" function aborts  *)
(* the host process.  The coordinator's handling of a message is abstracted *)
(* to one step that produces its output.                                   *)
(*                                                                         *)
(* The host is C (its output callback is a plain function pointer) or Java *)
(* through jni.rs, whose start stores the Java callback in `static mut CB` *)
(* (set_cb) before smpi_start, whose stop empties it (clear_cb) before     *)
(* smpi_stop, and whose call_cb, run by the event loop for every output,   *)
(* borrows the boxed closure out of CB and calls it.                       *)
(***************************************************************************)
EXTENDS Naturals, Sequences

CONSTANTS
  Threads,          \* host threads that call smpi_input
  MaxStarts,        \* how many runtimes the host may start in a row
  MaxCalls,         \* how many smpi_input calls the host makes
  CallsInOrder,     \* the host starts only when stopped and stops only when started
  HostSynchronised, \* smpi_input runs only between start's return and stop's call
  ValidIdsOnly,     \* every well-formed request carries a v4 UUID id
  NoSqlQueries,     \* a statement's text may hold no SQL ("", blanks, a comment)
  Hosts             \* the host kinds to check: "c", "jni"

ASSUME MaxStarts \in Nat \ {0} /\ MaxCalls \in Nat
ASSUME {CallsInOrder, HostSynchronised, ValidIdsOnly, NoSqlQueries} \subseteq BOOLEAN
ASSUME Hosts \subseteq {"c", "jni"} /\ Hosts # {}

Gens == 1..MaxStarts
NoRt == 0
NoCb == 0  \* CB = None; otherwise CB is the box set by the start of that generation

VARIABLES
  RT,          \* static mut RT: NoRt (None) or the runtime's generation
  INIT, STOP,  \* the Once flags: "new" or "done"
  gen,         \* runtimes created so far
  loop,        \* loop[g]: "none", "running" or "exited"
  chan,        \* chan[g]: the runtime's input channel, "msg" and "break" items
  calls,       \* smpi_input calls made so far
  ctl,         \* the control thread: "idle", or inside smpi_stop: "dropping", "joined"
  pc,          \* pc[t]: "idle", or "posting" after assert_started
  ref,         \* ref[t]: the runtime assert_started returned to thread t
  aborted,     \* a panic crossed the FFI boundary; the process is gone
  stopped,     \* stopped[g]: smpi_stop returned for runtime g
  lateOutput,  \* the callback ran for a runtime whose smpi_stop had returned
  usedDropped, \* smpi_input used a runtime that had been dropped
  host,        \* the kind of host: "c" or "jni"
  CB,          \* static mut CB (jni.rs): NoCb or the box of the Java closure
  inCb,        \* inCb[g]: NoCb, or the box the loop of g is running in call_cb
  usedDroppedCb \* a boxed closure was freed while call_cb was running it

vars == <<RT, INIT, STOP, gen, loop, chan, calls, ctl, pc, ref, aborted,
          stopped, lateOutput, usedDropped, host, CB, inCb, usedDroppedCb>>
rtVars == <<gen, loop, chan, calls>>
cbVars == <<host, CB, inCb, usedDroppedCb>>

\* No smpi_input call is running.
InputsIdle == \A t \in Threads : pc[t] = "idle"

Abort ==
  /\ aborted' = TRUE
  /\ UNCHANGED <<RT, INIT, STOP, rtVars, ctl, pc, ref, stopped, lateOutput,
                 usedDropped, cbVars>>

\* The host calls start (the C host smpi_start, Java IOP.start) and stop.
StartCalled ==
  /\ ctl = "idle"
  /\ CallsInOrder => RT = NoRt
  /\ gen < MaxStarts

StopCalled ==
  /\ ctl = "idle"
  /\ CallsInOrder => RT # NoRt
  /\ HostSynchronised => InputsIdle

\* Dropping the Box b of a Java closure (by the assignment to CB).  If an
\* event loop is inside call_cb running that closure, it goes on using
\* freed memory: undefined behaviour, a crash or no visible effect.
FreeBox(b) ==
  IF b # NoCb /\ \E g \in Gens : inCb[g] = b
    THEN /\ usedDroppedCb' = TRUE
         /\ aborted' \in {aborted, TRUE}
    ELSE UNCHANGED <<usedDroppedCb, aborted>>

-----------------------------------------------------------------------------
(* smpi_start                                                              *)

\* INIT.call_once: the first call asserts RT is None, creates the Runtime
\* (which spawns the event loop thread) and stores it; a second call finds
\* the Once completed and fails assert!(is_first).
smpi_start ==
  /\ ~aborted
  /\ IF host = "jni" THEN ctl = "starting" ELSE StartCalled
  /\ IF INIT = "new" /\ RT = NoRt
       THEN /\ INIT' = "done"
            /\ gen' = gen + 1
            /\ RT' = gen + 1
            /\ loop' = [loop EXCEPT ![gen + 1] = "running"]
            /\ ctl' = "idle"
            /\ UNCHANGED <<STOP, chan, calls, pc, ref, aborted, stopped,
                           lateOutput, usedDropped, cbVars>>
       ELSE Abort

-----------------------------------------------------------------------------
(* smpi_stop: STOP.call_once asserts RT is Some; then reset() sets RT to   *)
(* None, which runs Runtime::drop (send BreakLoop, join the loop thread)   *)
(* before the slot is emptied, and replaces INIT and STOP.                 *)

\* Mutant: drop returns before sending BreakLoop to the loop.
smpi_stop_call_once_no_break ==
  /\ ~aborted
  /\ IF host = "jni" THEN ctl = "clearing" ELSE StopCalled
  /\ IF STOP = "new" /\ RT # NoRt
       THEN /\ STOP' = "done"
            /\ ctl' = "dropping"
            /\ UNCHANGED <<RT, INIT, gen, loop, chan, calls, pc, ref, aborted,
                           stopped, lateOutput, usedDropped, cbVars>>
       ELSE Abort

\* Runtime::drop's tx.send(BreakLoop).expect("Ok") panics when the loop
\* thread has died (its receiver is gone), like the assert and the Once.
smpi_stop_call_once ==
  /\ ~aborted
  /\ IF host = "jni" THEN ctl = "clearing" ELSE StopCalled
  /\ IF STOP = "new" /\ RT # NoRt /\ loop[RT] = "running"
       THEN /\ STOP' = "done"
            /\ ctl' = "dropping"
            /\ chan' = [chan EXCEPT ![RT] = Append(@, "break")]
            /\ UNCHANGED <<RT, INIT, gen, loop, calls, pc, ref, aborted,
                           stopped, lateOutput, usedDropped, cbVars>>
       ELSE Abort

\* Mutant: the thread is detached, drop returns without joining it.
drop_join_detached ==
  /\ ~aborted
  /\ ctl = "dropping"
  /\ ctl' = "joined"
  /\ UNCHANGED <<RT, INIT, STOP, rtVars, pc, ref, aborted, stopped,
                 lateOutput, usedDropped, cbVars>>

\* self.thread_handle.take().join(): waits for the loop to exit.
drop_join ==
  /\ ~aborted
  /\ ctl = "dropping"
  /\ loop[RT] = "exited"
  /\ ctl' = "joined"
  /\ UNCHANGED <<RT, INIT, STOP, rtVars, pc, ref, aborted, stopped,
                 lateOutput, usedDropped, cbVars>>

\* Mutant: reset() leaves INIT completed.
reset_keeps_init ==
  /\ ~aborted
  /\ ctl = "joined"
  /\ RT' = NoRt
  /\ STOP' = "new"
  /\ ctl' = "idle"
  /\ stopped' = [stopped EXCEPT ![RT] = TRUE]
  /\ UNCHANGED <<INIT, rtVars, pc, ref, aborted, lateOutput, usedDropped, cbVars>>

\* The drop is done: RT becomes None, INIT and STOP are new, stop returns.
reset ==
  /\ ~aborted
  /\ ctl = "joined"
  /\ RT' = NoRt
  /\ INIT' = "new"
  /\ STOP' = "new"
  /\ ctl' = "idle"
  /\ stopped' = [stopped EXCEPT ![RT] = TRUE]
  /\ UNCHANGED <<rtVars, pc, ref, aborted, lateOutput, usedDropped, cbVars>>

smpi_stop == smpi_stop_call_once \/ drop_join \/ reset

-----------------------------------------------------------------------------
(* The JNI wrapper (jni.rs)                                                *)

\* Java_..._IOP_start: set_cb stores the closure that calls the Java
\* method, dropping the previous one, then smpi_start runs.
jni_start_set_cb ==
  /\ ~aborted
  /\ host = "jni"
  /\ StartCalled
  /\ CB' = gen + 1
  /\ FreeBox(CB)
  /\ ctl' = "starting"
  /\ UNCHANGED <<RT, INIT, STOP, rtVars, pc, ref, stopped, lateOutput,
                 usedDropped, host, inCb>>

\* Java_..._IOP_stop: clear_cb drops the closure, then smpi_stop runs.
jni_stop_clear_cb ==
  /\ ~aborted
  /\ host = "jni"
  /\ StopCalled
  /\ CB' = NoCb
  /\ FreeBox(CB)
  /\ ctl' = "clearing"
  /\ UNCHANGED <<RT, INIT, STOP, rtVars, pc, ref, stopped, lateOutput,
                 usedDropped, host, inCb>>

-----------------------------------------------------------------------------
(* smpi_input                                                              *)

\* Mutant: the Rt is taken from the slot without checking it is Some.
smpi_input_assert_started_unchecked(t) ==
  /\ ~aborted
  /\ pc[t] = "idle"
  /\ HostSynchronised => RT # NoRt /\ ctl = "idle"
  /\ calls < MaxCalls
  /\ calls' = calls + 1
  /\ pc' = [pc EXCEPT ![t] = "posting"]
  /\ ref' = [ref EXCEPT ![t] = RT]
  /\ UNCHANGED <<RT, INIT, STOP, gen, loop, chan, ctl, aborted, stopped,
                 lateOutput, usedDropped, cbVars>>

\* assert_started: RT is read; None is unreachable!, a panic.
smpi_input_assert_started(t) ==
  /\ ~aborted
  /\ pc[t] = "idle"
  /\ HostSynchronised => RT # NoRt /\ ctl = "idle"
  /\ calls < MaxCalls
  /\ calls' = calls + 1
  /\ UNCHANGED <<RT, INIT, STOP, gen, loop, chan, ctl, stopped, lateOutput,
                 usedDropped, cbVars>>
  /\ IF RT # NoRt
       THEN /\ pc' = [pc EXCEPT ![t] = "posting"]
            /\ ref' = [ref EXCEPT ![t] = RT]
            /\ UNCHANGED aborted
       ELSE /\ aborted' = TRUE
            /\ UNCHANGED <<pc, ref>>

\* The outcome of in_json_to_rs and of Runtime::input's id check
\* (is_valid_uuid_v4_hypenated) for the request bytes the host passes.
RequestKinds ==
  {"valid", "bad_json"} \cup (IF ValidIdsOnly THEN {} ELSE {"bad_id"})
                        \cup (IF NoSqlQueries THEN {"no_sql"} ELSE {})

\* The channel item of a request that reaches the loop.
ItemOf(kind) == IF kind = "no_sql" THEN "nosql" ELSE "msg"

\* Parse the request; a parse error is returned to the host as a settled
\* RetI.  Otherwise rt.input checks the id and sends into the channel; its
\* Err is unreachable!.  The Rt reference was read before: if the runtime
\* was dropped meanwhile the call uses freed memory, whose outcome is a
\* crash or a message that no thread will ever read.
smpi_input_post(t, kind) ==
  LET g == ref[t] IN
  /\ ~aborted
  /\ pc[t] = "posting"
  /\ pc' = [pc EXCEPT ![t] = "idle"]
  /\ UNCHANGED <<RT, INIT, STOP, gen, loop, calls, ctl, ref, stopped,
                 lateOutput, cbVars>>
  /\ CASE kind = "bad_json" ->
            UNCHANGED <<chan, aborted, usedDropped>>
       [] kind = "bad_id" ->
            /\ aborted' = TRUE
            /\ UNCHANGED <<chan, usedDropped>>
       [] stopped[g] ->
            \* the Rt was freed by reset(): undefined behaviour
            /\ usedDropped' = TRUE
            /\ \/ aborted' = TRUE /\ UNCHANGED chan
               \/ chan' = [chan EXCEPT ![g] = Append(@, ItemOf(kind))]
                  /\ UNCHANGED aborted
       [] loop[g] = "exited" ->
            \* the receiver is gone: Err(ChannelError), unreachable!
            /\ aborted' = TRUE
            /\ UNCHANGED <<chan, usedDropped>>
       [] OTHER ->
            /\ chan' = [chan EXCEPT ![g] = Append(@, ItemOf(kind))]
            /\ UNCHANGED <<aborted, usedDropped>>

-----------------------------------------------------------------------------
(* The event loop thread of runtime g (start_thread).                      *)

\* A message is handled and the output closure calls the host's c_out_fn.
\* For the JNI host that is call_cb: `if let Some(f) = &mut CB` borrows the
\* closure and calls it (which returns in call_cb_return); with CB None the
\* output is dropped.
loop_output(g) ==
  /\ ~aborted
  /\ loop[g] = "running"
  /\ inCb[g] = NoCb
  /\ chan[g] # <<>>
  /\ Head(chan[g]) = "msg"
  /\ chan' = [chan EXCEPT ![g] = Tail(@)]
  /\ IF host = "c"
       THEN /\ lateOutput' = (lateOutput \/ stopped[g])
            /\ UNCHANGED inCb
       ELSE /\ inCb' = [inCb EXCEPT ![g] = CB]
            /\ lateOutput' = (lateOutput \/ (stopped[g] /\ CB # NoCb))
  /\ UNCHANGED <<RT, INIT, STOP, gen, loop, calls, ctl, pc, ref, aborted,
                 stopped, usedDropped, host, CB, usedDroppedCb>>

\* The Java method returns and call_cb with it.
call_cb_return(g) ==
  /\ ~aborted
  /\ inCb[g] # NoCb
  /\ inCb' = [inCb EXCEPT ![g] = NoCb]
  /\ UNCHANGED <<RT, INIT, STOP, rtVars, ctl, pc, ref, aborted, stopped,
                 lateOutput, usedDropped, host, CB, usedDroppedCb>>

\* A statement with no SQL: sqlite3_prepare_v2 returns SQLITE_OK and a NULL
\* stmt, which StmtHandle::new keeps.  StmtHandle::run first calls
\* is_iud(NULL): sqlite3_sql(NULL) is NULL and CStr::from_ptr reads it,
\* undefined behaviour that crashes the process or not; then sqlite3_step
\* returns SQLITE_MISUSE and the drop of the handle fails its
\* assert!(!stmt.is_null()).  That panic ends the loop thread: no output,
\* the channel's receiver and the items in it are dropped.
loop_no_sql(g) ==
  /\ ~aborted
  /\ loop[g] = "running"
  /\ inCb[g] = NoCb
  /\ chan[g] # <<>>
  /\ Head(chan[g]) = "nosql"
  /\ \/ aborted' = TRUE /\ UNCHANGED <<chan, loop>>
     \/ chan' = [chan EXCEPT ![g] = <<>>]
        /\ loop' = [loop EXCEPT ![g] = "exited"]
        /\ UNCHANGED aborted
  /\ UNCHANGED <<RT, INIT, STOP, gen, calls, ctl, pc, ref, stopped,
                 lateOutput, usedDropped, cbVars>>

\* InputItem::BreakLoop: the loop exits, ActiveTxs is dropped.
loop_break(g) ==
  /\ ~aborted
  /\ loop[g] = "running"
  /\ inCb[g] = NoCb
  /\ chan[g] # <<>>
  /\ Head(chan[g]) = "break"
  /\ chan' = [chan EXCEPT ![g] = Tail(@)]
  /\ loop' = [loop EXCEPT ![g] = "exited"]
  /\ UNCHANGED <<RT, INIT, STOP, gen, calls, ctl, pc, ref, aborted,
                 stopped, lateOutput, usedDropped, cbVars>>

-----------------------------------------------------------------------------
Init ==
  /\ RT = NoRt
  /\ INIT = "new"
  /\ STOP = "new"
  /\ gen = 0
  /\ loop = [g \in Gens |-> "none"]
  /\ chan = [g \in Gens |-> <<>>]
  /\ calls = 0
  /\ ctl = "idle"
  /\ pc = [t \in Threads |-> "idle"]
  /\ ref = [t \in Threads |-> NoRt]
  /\ aborted = FALSE
  /\ stopped = [g \in Gens |-> FALSE]
  /\ lateOutput = FALSE
  /\ usedDropped = FALSE
  /\ host \in Hosts
  /\ CB = NoCb
  /\ inCb = [g \in Gens |-> NoCb]
  /\ usedDroppedCb = FALSE

Next ==
  \/ smpi_start \/ jni_start_set_cb
  \/ smpi_stop \/ jni_stop_clear_cb
  \/ \E t \in Threads :
       \/ smpi_input_assert_started(t)
       \/ \E kind \in RequestKinds : smpi_input_post(t, kind)
  \/ \E g \in Gens : loop_output(g) \/ call_cb_return(g) \/ loop_break(g)
  \/ \E g \in Gens : loop_no_sql(g)

\* The loop thread runs while it has items; the Java callback returns; the
\* control thread, once in smpi_stop, runs it to the end (join returns when
\* the loop has exited).
Fairness ==
  /\ \A g \in Gens : WF_vars(loop_output(g)) /\ WF_vars(loop_break(g))
  /\ \A g \in Gens : WF_vars(loop_no_sql(g))
  /\ \A g \in Gens : WF_vars(call_cb_return(g))
  /\ WF_vars(ctl = "starting" /\ smpi_start)
  /\ WF_vars(ctl = "clearing" /\ smpi_stop_call_once)
  /\ WF_vars(drop_join) /\ WF_vars(reset)

Spec == Init /\ [][Next]_vars
FairSpec == Spec /\ Fairness

-----------------------------------------------------------------------------
TypeOK ==
  /\ RT \in {NoRt} \cup Gens
  /\ INIT \in {"new", "done"} /\ STOP \in {"new", "done"}
  /\ gen \in 0..MaxStarts /\ calls \in 0..MaxCalls
  /\ loop \in [Gens -> {"none", "running", "exited"}]
  /\ chan \in [Gens -> Seq({"msg", "nosql", "break"})]
  /\ ctl \in {"idle", "starting", "clearing", "dropping", "joined"}
  /\ pc \in [Threads -> {"idle", "posting"}]
  /\ ref \in [Threads -> {NoRt} \cup Gens]
  /\ \A t \in Threads : pc[t] = "posting" => ref[t] \in Gens
  /\ {aborted, lateOutput, usedDropped} \subseteq BOOLEAN
  /\ stopped \in [Gens -> BOOLEAN]
  /\ host \in Hosts /\ usedDroppedCb \in BOOLEAN
  /\ CB \in {NoCb} \cup Gens /\ inCb \in [Gens -> {NoCb} \cup Gens]

\* A host that keeps the contract (start, inputs, stop, start again; stop
\* not concurrent with input) never brings the process down: no assert,
\* unreachable! or expect in smpi_start, smpi_input or smpi_stop fires,
\* whatever well-formed or malformed requests it passes.
NoAbort == ~aborted

\* Once smpi_stop has returned, the host's output callback is never called
\* again for that runtime: Runtime::drop joins the event loop thread (the
\* comment in drop describes the detached thread this replaced).
NoLateOutput == ~lateOutput

\* At most one event loop thread is alive: a runtime is only started after
\* the previous one's thread was joined, so two coordinators never hold
\* transactions on the same files.
OneLoop == \A g1, g2 \in Gens : loop[g1] = "running" /\ loop[g2] = "running" => g1 = g2

\* The Java closure that jni.rs keeps in CB is never freed while the event
\* loop is running it in call_cb: IOP.stop (clear_cb before smpi_stop's
\* join) and IOP.start (set_cb) replace CB only when no output is being
\* delivered.
NoUseOfDroppedCallback == ~usedDroppedCb

\* smpi_stop (and IOP.stop) returns: the BreakLoop it sends ends the loop,
\* the join returns, and the control thread leaves smpi_stop.
StopReturns == ctl \in {"clearing", "dropping"} ~> ctl = "idle"

====
