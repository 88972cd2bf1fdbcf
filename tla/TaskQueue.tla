------------------------------- MODULE TaskQueue -------------------------------
(***************************************************************************)
(* What a SCXThreadPool promises to those who queue tasks: a task is run   *)
(* once, in the order in which the tasks were queued, at most as many at a *)
(* time as the widest limit allows, and none begins once the pool is       *)
(* closed.  Threads, locks and conditions do not appear here.              *)
(***************************************************************************)
EXTENDS Integers, Sequences, FiniteSets

CONSTANT Widths    \* the limits that the pool may have

VARIABLES
  queue,     \* the tasks that nobody has begun
  running,   \* the tasks that are being run
  finished,  \* the tasks that were run
  dropped,   \* the tasks that were thrown away
  accepted,  \* how many tasks were accepted; they are numbered in their order
  closed     \* no task begins any more

tasks == <<queue, running, finished, dropped, accepted, closed>>

Init ==
  /\ queue = <<>>
  /\ running = {} /\ finished = {} /\ dropped = {}
  /\ accepted = 0
  /\ closed = FALSE

\* A task is accepted; a closed pool does not refuse it.
Accept ==
  /\ accepted' = accepted + 1
  /\ queue' = Append(queue, accepted')
  /\ UNCHANGED <<running, finished, dropped, closed>>

Begin ==
  /\ ~closed
  /\ queue # <<>>
  /\ \E width \in Widths : Cardinality(running) < width
  /\ running' = running \union {Head(queue)}
  /\ queue' = Tail(queue)
  /\ UNCHANGED <<finished, dropped, accepted, closed>>

End ==
  /\ \E t \in running : running' = running \ {t} /\ finished' = finished \union {t}
  /\ UNCHANGED <<queue, dropped, accepted, closed>>

Close ==
  /\ closed' = TRUE
  /\ UNCHANGED <<queue, running, finished, dropped, accepted>>

\* The tasks that are left are thrown away when none of the others runs any more.
Drop ==
  /\ closed
  /\ running = {}
  /\ dropped' = dropped \union {queue[i] : i \in DOMAIN queue}
  /\ queue' = <<>>
  /\ UNCHANGED <<running, finished, accepted, closed>>

Next == Accept \/ Begin \/ End \/ Close \/ Drop

Spec == Init /\ [][Next]_tasks
===============================================================================
