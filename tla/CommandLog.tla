----------------------------- MODULE CommandLog -----------------------------
(***************************************************************************)
(* What the store promises whoever changes it: one log of the runs of      *)
(* commands.  A run takes effect once at most, on top of the effects of    *)
(* the whole log.  A command that is run again takes effect again only if  *)
(* it is repeatable.  What is reported as done took effect, a forced       *)
(* command in the run that says so; an error tells nothing about it.       *)
(***************************************************************************)
EXTENDS Naturals

CONSTANTS Commands,
          Repeatable, \* those that may take effect in more than one run
          Forced,     \* those that take effect in every run that is done
          Runs        \* the numbers of runs, in the order they are started

VARIABLES log,     \* the runs that took effect; a set that only grows by one
                   \* run at a time is a log without repetitions
          run,     \* the number of the run a command is in
          result   \* what the user was told of that run

vars == <<log, run, result>>

Init ==
    /\ log = {}
    /\ run = [c \in Commands |-> 0]
    /\ result = [c \in Commands |-> "running"]

InEffect(c) == \E e \in log : e[1] = c

\* A running command takes effect, after all runs of the log.
Commit(c) ==
    /\ result[c] = "running"
    /\ <<c, run[c]>> \notin log
    /\ InEffect(c) => c \in Repeatable
    /\ log' = log \cup {<<c, run[c]>>}
    /\ UNCHANGED <<run, result>>

\* It is reported as done once it took effect.
Report(c) ==
    /\ result[c] = "running"
    /\ IF c \in Forced THEN <<c, run[c]>> \in log ELSE InEffect(c)
    /\ result' = [result EXCEPT ![c] = "done"]
    /\ UNCHANGED <<log, run>>

\* It fails or crashes, before or after it took effect.
Fail(c) ==
    /\ result[c] = "running"
    /\ result' = [result EXCEPT ![c] = "error"]
    /\ UNCHANGED <<log, run>>

\* The user runs it again.
Rerun(c) ==
    /\ result[c] = "error"
    /\ result' = [result EXCEPT ![c] = "running"]
    /\ \E n \in Runs : n > run[c] /\ run' = [run EXCEPT ![c] = n]
    /\ UNCHANGED log

Next == \E c \in Commands : Commit(c) \/ Report(c) \/ Fail(c) \/ Rerun(c)

Spec == Init /\ [][Next]_vars
=============================================================================
