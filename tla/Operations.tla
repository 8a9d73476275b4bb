------------------------------ MODULE Operations ------------------------------
(***************************************************************************)
(* GracefulShutdown of domain_graph/operations.py in the process that also *)
(* runs the migrations: several threads or signal handlers call shutdown() *)
(* at any moment, each goes through it step by step, and a new process     *)
(* begins when the old one is gone.                                        *)
(*                                                                         *)
(* The two callbacks are external.  stop_accepting() and close() return or *)
(* raise; close() closes the store, as Neo4jStore.close() does, so that a  *)
(* migration under way can go on to raise only.                            *)
(*                                                                         *)
(* A definition named X_Y is X with the bug Y; no specification uses it.   *)
(***************************************************************************)
EXTENDS MigrationRunner

CONSTANT Thread \* who may call shutdown() in one process

VARIABLES
  stage,   \* per thread: "out" of shutdown(), or what it does next in there
  started, \* GracefulShutdown.started
  stopped, \* stop_accepting() has returned
  closed,  \* close() has returned
  raised   \* one of the two has raised

shutdownVars   == <<stage, started, stopped, closed, raised>>
operationsVars == <<vars, shutdownVars>>

Nobody == [t \in Thread |-> "out"]

OperationsInit ==
  /\ Init
  /\ stage = Nobody
  /\ started = FALSE /\ stopped = FALSE /\ closed = FALSE /\ raised = FALSE

-----------------------------------------------------------------------------
Goto(t, step) == stage' = [stage EXCEPT ![t] = step]

\* The flag is set before it is tested, so that nobody goes on.
Shutdown_SetFirst(t) ==
  /\ stage[t] = "out" /\ ~ started
  /\ started' = TRUE
  /\ UNCHANGED <<vars, stage, stopped, closed, raised>>

\* if self.started: return, and for everybody else the call begins.
Shutdown(t) ==
  /\ stage[t] = "out" /\ ~ started
  /\ Goto(t, "set")
  /\ UNCHANGED <<vars, started, stopped, closed, raised>>

SetStarted(t) ==
  /\ stage[t] = "set"
  /\ started' = TRUE /\ Goto(t, "stop")
  /\ UNCHANGED <<vars, stopped, closed, raised>>

\* A callback that raises ends the call; started remains set.
StopAccepting(t) ==
  /\ stage[t] = "stop"
  /\ \/ stopped' = TRUE /\ Goto(t, "close") /\ UNCHANGED raised
     \/ raised' = TRUE /\ Goto(t, "out") /\ UNCHANGED stopped
  /\ UNCHANGED <<vars, started, closed>>

Close(t) ==
  /\ stage[t] = "close" /\ Goto(t, "out")
  /\ \/ closed' = TRUE /\ UNCHANGED raised
     \/ raised' = TRUE /\ UNCHANGED closed
  /\ UNCHANGED <<vars, started, stopped>>

InShutdown(t) == SetStarted(t) \/ StopAccepting(t) \/ Close(t)

\* The process is gone, and the migrations with it; another one begins.
NewProcess ==
  /\ \/ Fail
     \/ job # "running" /\ UNCHANGED vars
  /\ stage' = Nobody
  /\ started' = FALSE /\ stopped' = FALSE /\ closed' = FALSE /\ raised' = FALSE

\* apply() and verify() need the store; to record and to end the run does not.
Migrate ==
  /\ \/ ~ closed /\ \E v \in Version : Apply(v) \/ Verify(v)
     \/ ~ closed /\ \E R \in SUBSET Version : Run(R)
     \/ \E v \in Version : Record(v)
     \/ EndRun
     \/ Fail
  /\ UNCHANGED shutdownVars

OperationsNext ==
  \/ \E t \in Thread : Shutdown(t) \/ InShutdown(t)
  \/ NewProcess
  \/ Migrate

\* A thread that is in shutdown() is scheduled again.
OperationsSpec ==
  /\ OperationsInit /\ [][OperationsNext]_operationsVars
  /\ \A t \in Thread : WF_operationsVars(InShutdown(t))
-----------------------------------------------------------------------------
OperationsTypeOK ==
  /\ TypeOK
  /\ stage \in [Thread -> {"out", "set", "stop", "close"}]
  /\ {started, stopped, closed, raised} \subseteq BOOLEAN

(***************************************************************************)
(* A process that has begun to shut down stops accepting and closes its    *)
(* store, however many threads ask for it at the same moment, unless it is *)
(* killed first or a callback raises.  (After that nothing closes it: the  *)
(* next call returns at once.  test_operations.py:31.)                     *)
(***************************************************************************)
ShutdownCompletes == started ~> (stopped /\ closed) \/ raised \/ ~ started
=============================================================================
