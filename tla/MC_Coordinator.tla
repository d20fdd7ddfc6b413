--------------------------- MODULE MC_Coordinator ---------------------------
(* Model-checking instance of Coordinator: model values for the files and *)
(* the clients' open requests.                                            *)
EXTENDS Coordinator, TLC

CONSTANTS f1, f2, r1, r2, r3

MCFiles == {f1}
MCFiles2 == {f1, f2}
MCReqs == {r1, r2, r3}
MCReqs2 == {r1, r2}

ReqSymmetry == Permutations(MCReqs)
ReqSymmetry2 == Permutations(MCReqs2)

(* Refinement mapping onto the abstract write-lock service: the holder is *)
(* the SQLite write lock; a write request waits from its send until its   *)
(* one reply (granted or refused), in send order; the loop's exit stops   *)
(* the service.                                                           *)
WaitingW(f) ==
  IF phase = "stopped" THEN <<>>
  ELSE SelectSeq(sentW[f], LAMBDA r : replies[r] = <<>>)

WL == INSTANCE WriteLock WITH
        holder <- lock,
        waiting <- [f \in Files |-> WaitingW(f)],
        requested <- UNION {{sentW[f][i] : i \in 1..Len(sentW[f])} : f \in Files},
        stopped <- (phase = "stopped")

\* The coordinator implements the write-lock service: every step of the
\* event loop, the timers, the clients and the other process is a step of
\* WriteLock or leaves its state alone, and a file left free while
\* requests wait is granted (remove_tx, take_active, wr_fail and the
\* retries of process_write_req hand the slot on in send order).
WriteLockSpec == WL!Spec
=============================================================================
