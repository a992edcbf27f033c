---------------------------- MODULE TaskService ----------------------------
(***************************************************************************)
(* What the thread pool promises its clients, without workers, mutexes or  *)
(* condition variables: accepted tasks wait in one line, are taken in the  *)
(* order they were accepted, each at most once, at most Width of them run  *)
(* at a time, and while the service is off nothing runs and nothing is     *)
(* taken.  Tasks still waiting when the service closes are discarded.      *)
(***************************************************************************)
EXTENDS Integers, Sequences, FiniteSets

CONSTANTS Tasks,   \* the identities of all tasks
          Width    \* how many tasks may run at the same time

VARIABLES pending,   \* the tasks accepted and not yet taken, oldest first
          running,   \* the tasks taken and not yet finished
          done,      \* the tasks that ran to completion
          mode       \* "off", "on" or "closed"

vars == <<pending, running, done, mode>>

Init == /\ pending = <<>>
        /\ running = {}
        /\ done = {}
        /\ mode = "off"

Waiting == {pending[i] : i \in DOMAIN pending}

\* A task is accepted once, whether or not the service is on.
Accept(t) == /\ mode /= "closed"
             /\ t \notin Waiting \cup running \cup done
             /\ pending' = Append(pending, t)
             /\ UNCHANGED <<running, done, mode>>

\* The oldest waiting task starts.
Take == /\ mode = "on"
        /\ pending /= <<>>
        /\ Cardinality(running) < Width
        /\ running' = running \cup {Head(pending)}
        /\ pending' = Tail(pending)
        /\ UNCHANGED <<done, mode>>

Finish(t) == /\ t \in running
             /\ running' = running \ {t}
             /\ done' = done \cup {t}
             /\ UNCHANGED <<pending, mode>>

SwitchOn == /\ mode = "off"
            /\ mode' = "on"
            /\ UNCHANGED <<pending, running, done>>

\* The service is off only once everything it had taken is finished.
SwitchOff == /\ mode = "on"
             /\ running = {}
             /\ mode' = "off"
             /\ UNCHANGED <<pending, running, done>>

Close == /\ mode = "off"
         /\ mode' = "closed"
         /\ pending' = <<>>
         /\ UNCHANGED <<running, done>>

Next == \/ \E t \in Tasks : Accept(t) \/ Finish(t)
        \/ Take
        \/ SwitchOn
        \/ SwitchOff
        \/ Close

Spec == Init /\ [][Next]_vars
=============================================================================
