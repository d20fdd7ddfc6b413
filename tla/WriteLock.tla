----------------------------- MODULE WriteLock -----------------------------
(***************************************************************************)
(* What the runtime promises the writers of each file, without the event  *)
(* loop, the channel, the queue states or the retry timers that implement *)
(* it (spec §4.3): a file has at most one writer, which is either one of  *)
(* our write transactions or another OS process; write requests of our    *)
(* clients wait in the order they were sent and are granted from the      *)
(* front, when the file is free; a waiting request may instead be refused *)
(* with an error; stopping the runtime drops every request and releases   *)
(* every lock we hold.                                                    *)
(***************************************************************************)
EXTENDS Sequences, SequencesExt

CONSTANTS
  Files,  \* the files
  Reqs,   \* the clients' write requests, which name their transactions
  None,   \* no writer
  Ext     \* a writer in another OS process

VARIABLES
  holder,     \* holder[f]: None, Ext or the request whose transaction writes f
  waiting,    \* waiting[f]: requests for f not answered yet, in send order
  requested,  \* requests ever made (each id is used once)
  stopped     \* the runtime was stopped

vars == <<holder, waiting, requested, stopped>>

Request(f, r) ==
  /\ ~stopped
  /\ r \notin requested
  /\ requested' = requested \cup {r}
  /\ waiting' = [waiting EXCEPT ![f] = Append(@, r)]
  /\ UNCHANGED <<holder, stopped>>

\* The oldest waiting request gets the free file.
Grant(f) ==
  /\ ~stopped
  /\ holder[f] = None
  /\ waiting[f] # <<>>
  /\ holder' = [holder EXCEPT ![f] = Head(waiting[f])]
  /\ waiting' = [waiting EXCEPT ![f] = Tail(@)]
  /\ UNCHANGED <<requested, stopped>>

\* Any waiting request may be answered with an error instead.
Refuse(f, r) ==
  /\ ~stopped
  /\ r \in ToSet(waiting[f])
  /\ waiting' = [waiting EXCEPT ![f] = Remove(@, r)]
  /\ UNCHANGED <<holder, requested, stopped>>

\* Our writer commits or rolls back.
Release(f) ==
  /\ ~stopped
  /\ holder[f] \notin {None, Ext}
  /\ holder' = [holder EXCEPT ![f] = None]
  /\ UNCHANGED <<waiting, requested, stopped>>

ExtAcquire(f) ==
  /\ holder[f] = None
  /\ holder' = [holder EXCEPT ![f] = Ext]
  /\ UNCHANGED <<waiting, requested, stopped>>

ExtRelease(f) ==
  /\ holder[f] = Ext
  /\ holder' = [holder EXCEPT ![f] = None]
  /\ UNCHANGED <<waiting, requested, stopped>>

Shutdown ==
  /\ ~stopped
  /\ stopped' = TRUE
  /\ holder' = [f \in Files |-> IF holder[f] = Ext THEN Ext ELSE None]
  /\ waiting' = [f \in Files |-> <<>>]
  /\ UNCHANGED requested

Init ==
  /\ holder = [f \in Files |-> None]
  /\ waiting = [f \in Files |-> <<>>]
  /\ requested = {}
  /\ stopped = FALSE

Next ==
  \/ \E f \in Files, r \in Reqs : Request(f, r) \/ Refuse(f, r)
  \/ \E f \in Files : Grant(f) \/ Release(f) \/ ExtAcquire(f) \/ ExtRelease(f)
  \/ Shutdown

\* A file that stays free while requests wait is granted.
Spec == Init /\ [][Next]_vars /\ \A f \in Files : WF_vars(Grant(f))
====
