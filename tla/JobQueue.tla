------------------------------ MODULE JobQueue ------------------------------
(***************************************************************************)
(* What a job ring of the SEC engine promises its driver: a bounded FIFO   *)
(* queue.  A job that is put is run once, in its turn; its outcome is      *)
(* taken once, in the order of the runs, or discarded by a release.  Jobs  *)
(* are never lost: nothing but a run takes a job out of waiting.           *)
(***************************************************************************)
EXTENDS Naturals, Sequences

CONSTANTS
  Job,       \* the jobs that may be put
  Outcome,   \* what a run may end with
  Capacity   \* jobs the queue holds, run or not

VARIABLES
  waiting,   \* jobs the engine has still to run
  finished   \* outcomes the driver has still to take

Init == waiting = << >> /\ finished = << >>

Put(j) ==
  /\ Len(waiting) + Len(finished) < Capacity
  /\ waiting' = Append(waiting, j)
  /\ UNCHANGED finished

Run(o) ==
  /\ waiting # << >>
  /\ waiting' = Tail(waiting)
  /\ finished' = Append(finished, o)

Take ==
  /\ finished # << >>
  /\ finished' = Tail(finished)
  /\ UNCHANGED waiting

Discard ==
  /\ finished' = << >>
  /\ UNCHANGED waiting

Next ==
  \/ \E j \in Job : Put(j)
  \/ \E o \in Outcome : Run(o)
  \/ Take
  \/ Discard

Spec == Init /\ [][Next]_<<waiting, finished>>
=============================================================================
