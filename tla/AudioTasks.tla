----------------------------- MODULE AudioTasks -----------------------------
(***************************************************************************)
(* What the audio programs have in common: a coordinator and its tasks     *)
(* share a context of atomic flags and counters, binary semaphores and     *)
(* task notifications.  One program runs: the image that was built.        *)
(***************************************************************************)
EXTENDS Integers, Sequences

CONSTANT TaskFaults      \* bound: calls of the system that fail or time out

ASSUME TasksAssumption == TaskFaults \in Nat

VARIABLES image,   \* the program that was built
          task,    \* where each of its tasks is
          ctx      \* its context

taskVars == <<image, task, ctx>>

Up(flag) == flag \in ctx.up
Given(sem) == sem \in ctx.sem
Noted(t) == t \in ctx.note
Goto(t, from, to) == task[t] = from /\ task' = [task EXCEPT ![t] = to]

\* Flags set, semaphores given, notifications pending, tasks created, faults so far; the
\* queue of events: how many it holds, how many were put in and taken out.
ContextReset ==
  [up |-> {}, sem |-> {}, note |-> {}, created |-> {}, faults |-> 0,
   q |-> 0, sent |-> 0, got |-> 0]
=============================================================================
