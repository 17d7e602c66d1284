---------------------------- MODULE ThreadBarrier ----------------------------
(***************************************************************************)
(* What the barrier among the threads of a process promises               *)
(* (src/src/core_manager.cpp:103): a thread that has arrived goes on only  *)
(* after every thread that takes part has arrived too, and nobody arrives again *)
(* before all have gone on.  Threads may join and quit at any time; who    *)
(* quits is not waited for any more, who joins late is not waited for by a *)
(* barrier already closed.                                                 *)
(***************************************************************************)
CONSTANT Tid            \* the threads

VARIABLES
  running,      \* taking part, and not in the barrier
  waiting,      \* arrived at the current barrier
  leaving,      \* released from the previous barrier, still in it
  closed        \* everyone has arrived and the barrier is about to open

barrierVars == <<running, waiting, leaving, closed>>

Init == running = {} /\ waiting = {} /\ leaving = {} /\ closed = FALSE

Join(t) ==
  /\ t \notin running \cup waiting \cup leaving
  /\ running' = running \cup {t}
  /\ UNCHANGED <<waiting, leaving, closed>>

Quit(t) ==
  /\ t \in running
  /\ running' = running \ {t}
  /\ UNCHANGED <<waiting, leaving, closed>>

\* Nobody enters a barrier before everyone has left the previous one.
Arrive(t) ==
  /\ t \in running /\ leaving = {} /\ ~closed
  /\ running' = running \ {t} /\ waiting' = waiting \cup {t}
  /\ UNCHANGED <<leaving, closed>>

Close ==
  /\ waiting # {} /\ running = {} /\ ~closed
  /\ closed' = TRUE
  /\ UNCHANGED <<running, waiting, leaving>>

Open ==
  /\ closed
  /\ leaving' = waiting /\ waiting' = {} /\ closed' = FALSE
  /\ UNCHANGED running

Leave(t) ==
  /\ t \in leaving
  /\ leaving' = leaving \ {t} /\ running' = running \cup {t}
  /\ UNCHANGED <<waiting, closed>>

Next ==
  \/ Close \/ Open
  \/ \E t \in Tid : Join(t) \/ Quit(t) \/ Arrive(t) \/ Leave(t)

Spec == Init /\ [][Next]_barrierVars
=============================================================================
