--------------------------- MODULE MigrationRunner ---------------------------
(***************************************************************************)
(* MigrationRunner of domain_graph/operations.py, run again and again as a *)
(* job that may die between any two steps: run() applies, verifies and     *)
(* records the migrations of a release, the lowest version first, and      *)
(* stops at the first that fails.                                          *)
(*                                                                         *)
(* The host is external: it hands the same history to every run, one run   *)
(* at a time, and no release drops a migration of an earlier one, though a *)
(* later release may add a lower version.                                  *)
(*                                                                         *)
(* A definition named X_Y is X with the bug Y; no specification uses it.   *)
(***************************************************************************)
EXTENDS Integers, Sequences

CONSTANTS
  Version, \* migration versions
  MaxRuns  \* bound of the model: on the runs of the job

ASSUME MigrationAssumption == Version \subseteq Nat /\ MaxRuns \in Nat

VARIABLES
  release, \* the versions of the migrations that the runner was given
  history, \* the versions recorded as done
  current, \* the migration under way, and its next step, or <<>>
  job,     \* "idle", "running", "ended" or "failed"
  runs,    \* how many runs have begun
  sound,   \* the store: versions whose last apply() was verified
  attempts \* history: the calls of apply(), in order, each with its run, the
           \* release of that run, and whether its version was recorded then

vars == <<release, history, current, job, runs, sound, attempts>>

Init ==
  /\ release = {} /\ history = {} /\ current = <<>>
  /\ job = "idle" /\ runs = 0 /\ sound = {} /\ attempts = <<>>

-----------------------------------------------------------------------------
\* The runner is made without the history, and begins one of its own.
Run_FreshHistory(R) ==
  /\ job # "running" /\ runs < MaxRuns /\ release \subseteq R
  /\ release' = R /\ job' = "running" /\ runs' = runs + 1
  /\ history' = {}
  /\ UNCHANGED <<current, sound, attempts>>

Run(R) ==
  /\ job # "running" /\ runs < MaxRuns /\ release \subseteq R
  /\ release' = R /\ job' = "running" /\ runs' = runs + 1
  /\ UNCHANGED <<history, current, sound, attempts>>

\* The loop goes by ascending version over what the history does not have.
Pending == release \ history

Lowest(v) == v \in Pending /\ \A w \in Pending : v <= w

\* Until it is verified, the store is not known to be sound.
Apply(v) ==
  /\ job = "running" /\ current = <<>> /\ Lowest(v)
  /\ current' = <<v, "verify">>
  /\ sound' = sound \ {v}
  /\ attempts' = Append(attempts, [version |-> v, run |-> runs, release |-> release, done |-> FALSE])
  /\ UNCHANGED <<release, history, job, runs>>

Verify_Skipped(v) ==
  /\ job = "running" /\ current = <<v, "verify">>
  /\ current' = <<v, "record">>
  /\ UNCHANGED <<release, history, job, runs, sound, attempts>>

Verify(v) ==
  /\ job = "running" /\ current = <<v, "verify">>
  /\ current' = <<v, "record">>
  /\ sound' = sound \cup {v}
  /\ UNCHANGED <<release, history, job, runs, attempts>>

Record_NextVersion(v) ==
  /\ job = "running" /\ current = <<v, "record">>
  /\ history' = history \cup {v + 1} /\ current' = <<>>
  /\ attempts' = [attempts EXCEPT ![Len(attempts)].done = TRUE]
  /\ UNCHANGED <<release, job, runs, sound>>

Record(v) ==
  /\ job = "running" /\ current = <<v, "record">>
  /\ history' = history \cup {v} /\ current' = <<>>
  /\ attempts' = [attempts EXCEPT ![Len(attempts)].done = TRUE]
  /\ UNCHANGED <<release, job, runs, sound>>

EndRun ==
  /\ job = "running" /\ current = <<>> /\ Pending = {}
  /\ job' = "ended"
  /\ UNCHANGED <<release, history, current, runs, sound, attempts>>

\* apply() raises, verify() raises or is false, or the job dies.
Fail ==
  /\ job = "running"
  /\ job' = "failed" /\ current' = <<>>
  /\ UNCHANGED <<release, history, runs, sound, attempts>>

-----------------------------------------------------------------------------
Step == EndRun \/ \E v \in Version : Apply(v) \/ Verify(v) \/ Record(v)

Next == Step \/ Fail \/ \E R \in SUBSET Version : Run(R)

Spec == Init /\ [][Next]_vars
-----------------------------------------------------------------------------
TypeOK ==
  /\ release \subseteq Version /\ history \subseteq release
  /\ current \in (Version \X {"verify", "record"}) \cup {<<>>}
  /\ job \in {"idle", "running", "ended", "failed"}
  /\ runs \in 0..MaxRuns
  /\ sound \subseteq Version
  /\ attempts \in Seq([version : Version, run : 1..MaxRuns, release : SUBSET Version, done : BOOLEAN])

(***************************************************************************)
(* What is recorded was verified after it was last applied, wherever the   *)
(* job died in between (issue-2:87-89).                                    *)
(***************************************************************************)
RecordedIsVerified == history \subseteq sound

(***************************************************************************)
(* Over all runs of the job, however many of them failed or died and       *)
(* whatever their releases added: a migration that was recorded is not     *)
(* applied again; within a run nothing follows a migration that was not    *)
(* recorded, or has a lower version than one before it; and a migration is *)
(* applied after one with a higher version only when the release of that   *)
(* time did not have it (issue-2:157: running again is safe, a failure     *)
(* stops the rest).                                                        *)
(***************************************************************************)
InOrderAndOnce ==
  \A i, j \in 1..Len(attempts) : i < j =>
    LET a == attempts[i]
        b == attempts[j]
    IN  /\ a.done => a.version # b.version
        /\ a.run = b.run => a.done /\ a.version < b.version
        /\ b.version < a.version => b.version \notin a.release
=============================================================================
