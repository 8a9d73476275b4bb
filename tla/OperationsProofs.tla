--------------------------- MODULE OperationsProofs ---------------------------
(***************************************************************************)
(* Proofs about the migrations, for any versions, any number of runs and   *)
(* any threads: alone, and in a process that can be shut down or die at    *)
(* any moment.                                                             *)
(***************************************************************************)
EXTENDS Operations, SequenceTheorems, TLAPS

Attempt == [version : Version, run : 1..MaxRuns, release : SUBSET Version, done : BOOLEAN]

\* What is known of an attempt ever after: the lower versions of its release
\* are on record, and its own is if the attempt was done; in the run that goes
\* on it was done, unless a migration is under way.
Known(a) ==
  /\ a.run <= runs /\ a.release \subseteq release
  /\ a.done => a.version \in history
  /\ \A w \in a.release : w < a.version => w \in history
  /\ job = "running" /\ a.run = runs => a.release = release /\ (a.done \/ current # <<>>)

Attempts == 1..Len(attempts)

AllKnown == \A i \in Attempts : Known(attempts[i])

\* The migration under way is the last attempt.
UnderWay(v) ==
  /\ attempts # <<>> /\ attempts[Len(attempts)].run = runs /\ attempts[Len(attempts)].version = v
  /\ job = "running"

(***************************************************************************)
(* RecordedIsVerified is not inductive: between verify() and the record a  *)
(* migration is sound and not yet on record.  Nor is InOrderAndOnce: that  *)
(* a migration comes after those before it rests on what history holds.    *)
(***************************************************************************)
Inductive ==
  /\ TypeOK
  /\ RecordedIsVerified
  /\ \A v \in Version : current = <<v, "record">> => v \in sound
  /\ \A v, s : current = <<v, s>> => v \in release

Orderly ==
  /\ InOrderAndOnce
  /\ AllKnown
  /\ \A v \in Version, s \in {"verify", "record"} : current = <<v, s>> => UnderWay(v)
  /\ job = "running" => runs >= 1

-----------------------------------------------------------------------------
LEMMA RunnerStart == Init => Inductive
<1>1. <<>> \in Seq(Attempt)
  BY EmptySeq
<1> QED
  BY <1>1, MigrationAssumption DEF Init, Inductive, TypeOK, RecordedIsVerified, Attempt

LEMMA OrderStart == Init => Orderly
<1> SUFFICES ASSUME Init PROVE Orderly
  OBVIOUS
<1>1. Len(attempts) = 0 /\ Attempts = {} /\ current = <<>> /\ job = "idle"
  BY DEF Init, Attempts
<1>2. \A i, j \in 1..0 : FALSE
  OBVIOUS
<1> QED
  BY <1>1, <1>2 DEF Orderly, InOrderAndOnce, AllKnown

\* apply() adds an attempt, and its record marks the last one.
LEMMA AttemptAdded ==
  ASSUME TypeOK, NEW a \in Attempt, attempts' = Append(attempts, a)
  PROVE  /\ attempts' \in Seq(Attempt) /\ attempts' # <<>> /\ Len(attempts) \in Nat
         /\ Len(attempts') = Len(attempts) + 1 /\ attempts'[Len(attempts) + 1] = a
         /\ \A i \in Attempts : attempts'[i] = attempts[i]
<1>1. attempts \in Seq(Attempt)
  BY DEF TypeOK, Attempt
<1> QED
  BY <1>1, AppendProperties, LenProperties DEF Attempts

LEMMA AttemptMarked ==
  ASSUME TypeOK, attempts # <<>>, attempts' = [attempts EXCEPT ![Len(attempts)].done = TRUE]
  PROVE  /\ attempts' \in Seq(Attempt) /\ Len(attempts) \in Nat \ {0} /\ Len(attempts') = Len(attempts)
         /\ \A i \in Attempts : i # Len(attempts) => attempts'[i] = attempts[i]
         /\ attempts'[Len(attempts)] = [attempts[Len(attempts)] EXCEPT !.done = TRUE]
<1>1. attempts \in Seq(Attempt)
  BY DEF TypeOK, Attempt
<1>2. PICK n : n = Len(attempts)
  OBVIOUS
<1>3. n \in Nat \ {0} /\ n \in 1..Len(attempts) /\ attempts[n] \in Attempt
  <2>1. n \in Nat \ {0}
    BY <1>1, <1>2, EmptySeq
  <2>2. n \in 1..Len(attempts)
    BY <1>2, <2>1
  <2> QED
    BY <1>1, <2>1, <2>2, ElementOfSeq
<1>4. PICK e : e = [attempts[n] EXCEPT !.done = TRUE]
  OBVIOUS
<1>5. e \in Attempt
  BY <1>3, <1>4 DEF Attempt
<1>6. attempts' = [attempts EXCEPT ![n] = e]
  BY <1>2, <1>4
<1>7. /\ [attempts EXCEPT ![n] = e] \in Seq(Attempt)
      /\ Len([attempts EXCEPT ![n] = e]) = Len(attempts)
      /\ \A j \in 1..Len(attempts) : [attempts EXCEPT ![n] = e][j] = IF j = n THEN e ELSE attempts[j]
  BY <1>1, <1>3, <1>5, ExceptSeq
<1> QED
  BY <1>2, <1>3, <1>4, <1>6, <1>7 DEF Attempts

LEMMA RunnerStep == Inductive /\ Orderly /\ [Next]_vars => Inductive'
<1> SUFFICES ASSUME Inductive, Orderly, [Next]_vars PROVE Inductive'
  OBVIOUS
<1>0. attempts' \in Seq(Attempt) => attempts' \in Seq([version : Version, run : 1..MaxRuns, release : SUBSET Version, done : BOOLEAN])
  BY DEF Attempt
<1>1. ASSUME NEW R \in SUBSET Version, Run(R) PROVE Inductive'
  <2>1. runs' \in 0..MaxRuns
    BY <1>1, MigrationAssumption DEF Run, Inductive, TypeOK
  <2> QED BY <1>1, <2>1 DEF Run, Inductive, TypeOK, RecordedIsVerified
<1>2. ASSUME NEW v \in Version, Apply(v) PROVE Inductive'
  <2>1. PICK a : a = [version |-> v, run |-> runs, release |-> release, done |-> FALSE]
    OBVIOUS
  <2>2. runs \in 1..MaxRuns
    BY <1>2, MigrationAssumption DEF Apply, Orderly, Inductive, TypeOK
  <2>3. a \in Attempt
    BY <2>1, <2>2 DEF Inductive, TypeOK, Attempt
  <2>4. attempts' \in Seq(Attempt)
    BY <1>2, <2>1, <2>3, AttemptAdded DEF Apply, Inductive
  <2>5. TypeOK'
    BY <1>0, <1>2, <2>4 DEF Apply, Lowest, Pending, Inductive, TypeOK
  <2> QED
    BY <1>2, <2>5 DEF Apply, Lowest, Pending, Inductive, TypeOK, RecordedIsVerified
<1>3. ASSUME NEW v \in Version, Verify(v) PROVE Inductive'
  BY <1>3 DEF Verify, Inductive, TypeOK, RecordedIsVerified
<1>4. ASSUME NEW v \in Version, Record(v) PROVE Inductive'
  <2>1. attempts # <<>>
    BY <1>4 DEF Record, Orderly, UnderWay
  <2>2. attempts' \in Seq(Attempt)
    BY <1>4, <2>1, AttemptMarked DEF Record, Inductive
  <2>3. TypeOK'
    BY <1>0, <1>4, <2>2 DEF Record, Inductive, TypeOK
  <2> QED
    BY <1>4, <2>3 DEF Record, Inductive, TypeOK, RecordedIsVerified
<1>5. CASE EndRun
  BY <1>5 DEF EndRun, Inductive, TypeOK, RecordedIsVerified
<1>6. CASE Fail
  BY <1>6 DEF Fail, Inductive, TypeOK, RecordedIsVerified
<1>7. CASE UNCHANGED vars
  BY <1>7 DEF vars, Inductive, TypeOK, RecordedIsVerified
<1> QED BY <1>1, <1>2, <1>3, <1>4, <1>5, <1>6, <1>7 DEF Next, Step

\* A step that calls neither apply() nor records.
LEMMA OrderKept ==
  ASSUME Inductive, Orderly, UNCHANGED <<attempts, history>>, release \subseteq release',
         \/ UNCHANGED <<release, job, runs>> /\ (current # <<>> => current' # <<>>)
         \/ job' # "running" /\ UNCHANGED runs
         \/ runs' = runs + 1
  PROVE  InOrderAndOnce' /\ AllKnown'
<1>1. InOrderAndOnce'
  BY DEF Orderly, InOrderAndOnce
<1>2. runs \in Nat
  BY MigrationAssumption DEF Inductive, TypeOK
<1>3. ASSUME NEW i \in Attempts PROVE Known(attempts[i])'
  <2>1. PICK a : a = attempts[i]
    OBVIOUS
  <2>2. a \in Attempt
    BY <2>1, ElementOfSeq DEF Attempts, Attempt, Inductive, TypeOK
  <2>3. Known(a) /\ a.run \in Int
    BY <2>1, <2>2 DEF Orderly, AllKnown, Attempt
  <2>4. attempts'[i] = a
    BY <2>1
  <2> QED
    BY <1>2, <2>3, <2>4 DEF Known
<1> QED
  BY <1>1, <1>3 DEF Attempts, AllKnown

LEMMA OrderStep == Inductive /\ Orderly /\ [Next]_vars => Orderly'
<1> SUFFICES ASSUME Inductive, Orderly, [Next]_vars PROVE Orderly'
  OBVIOUS
<1>0. /\ runs \in Nat /\ TypeOK /\ attempts \in Seq(Attempt) /\ Len(attempts) \in Nat
      /\ \A i \in Attempts : attempts[i] \in Attempt /\ Known(attempts[i])
      /\ \A v \in Version, s \in {"verify", "record"} : current = <<v, s>> => UnderWay(v)
  <2>1. attempts \in Seq(Attempt)
    BY DEF Inductive, TypeOK, Attempt
  <2> QED
    BY <2>1, MigrationAssumption, ElementOfSeq, LenProperties DEF Inductive, TypeOK, Attempts, Orderly, AllKnown
<1>1. ASSUME NEW R \in SUBSET Version, Run(R) PROVE Orderly'
  <2>1. current = <<>>
    <3>1. current # <<>> => \E v \in Version, s \in {"verify", "record"} : current = <<v, s>>
      BY <1>0 DEF TypeOK
    <3> QED
      BY <1>0, <1>1, <3>1 DEF UnderWay, Run
  <2>2. InOrderAndOnce' /\ AllKnown'
    BY <1>1, OrderKept DEF Run
  <2>3. current' = <<>> /\ runs' >= 1
    BY <1>0, <1>1, <2>1 DEF Run
  <2> QED
    BY <2>2, <2>3 DEF Orderly
<1>2. ASSUME NEW v \in Version, Apply(v) PROVE Orderly'
  <2>1. PICK b : b = [version |-> v, run |-> runs, release |-> release, done |-> FALSE]
    OBVIOUS
  <2>2. runs \in 1..MaxRuns /\ job = "running" /\ current = <<>> /\ Lowest(v)
        /\ UNCHANGED <<release, history, job, runs>> /\ current' = <<v, "verify">>
        /\ attempts' = Append(attempts, b)
    BY <1>0, <1>2, <2>1, MigrationAssumption DEF Apply, Orderly, TypeOK
  <2>3. b \in Attempt
    BY <1>0, <2>1, <2>2 DEF TypeOK, Attempt
  <2>3a. /\ v \in Int /\ v \in release /\ v \notin history
         /\ \A w \in release : w < v => w \in history
    <3>1. Version \subseteq Int /\ release \subseteq Int
      BY <1>0, MigrationAssumption DEF TypeOK
    <3>2. v \in release \ history /\ \A w \in release \ history : v <= w
      BY <2>2 DEF Lowest, Pending
    <3> QED
      BY <3>1, <3>2
  <2>4. PICK n : n = Len(attempts)
    OBVIOUS
  <2>5. /\ n \in Nat /\ Len(attempts') = n + 1 /\ attempts'[n + 1] = b /\ attempts' # <<>>
        /\ \A i \in 1..n : attempts'[i] = attempts[i]
    BY <1>0, <2>2, <2>3, <2>4, AttemptAdded DEF Attempts
  <2>6. ASSUME NEW a \in Attempt, Known(a)
        PROVE  /\ Known(a)'
               /\ a.done => a.version # v
               /\ a.run = runs => a.done /\ a.version < v
               /\ v < a.version => v \notin a.release
    <3>1. v \in Int /\ a.version \in Int /\ v \in release /\ v \notin history
      <4>1. a.version \in Version
        BY DEF Attempt
      <4>2. Version \subseteq Int
        BY MigrationAssumption
      <4> QED
        BY <2>3a, <4>1, <4>2
    <3>2. v < a.version => v \notin a.release
      BY <2>6, <3>1 DEF Known
    <3>3. a.run = runs => a.done /\ a.version # v /\ ~ (v < a.version)
      BY <2>2, <2>6, <3>1, <3>2 DEF Known
    <3>4. Known(a)'
      BY <2>2, <2>6 DEF Known
    <3> QED
      BY <2>6, <3>1, <3>2, <3>3, <3>4 DEF Known
  <2>7. Known(b)'
    <3>2. b.run = runs /\ b.release = release /\ b.version = v /\ ~ b.done
      BY <2>1
    <3> QED
      <4>1. /\ job' = job /\ runs' = runs /\ release' = release /\ history' = history
            /\ current' # <<>> /\ runs \in Int
        BY <1>0, <2>2
      <4>2. b.run <= runs' /\ b.release \subseteq release'
        BY <3>2, <4>1
      <4>3. \A w \in b.release : w < b.version => w \in history'
        BY <2>3a, <3>2, <4>1
      <4>4. b.release = release' /\ (b.done => b.version \in history')
        BY <3>2, <4>1
      <4> QED
        BY <4>1, <4>2, <4>3, <4>4 DEF Known
  <2>8. AllKnown'
    <3>1. ASSUME NEW i \in 1..n PROVE Known(attempts[i])'
      <4>1. PICK a : a = attempts[i]
        OBVIOUS
      <4>2. a \in Attempt /\ Known(a)
        BY <1>0, <2>4, <4>1 DEF Attempts
      <4>3. attempts'[i] = a
        BY <2>5, <4>1
      <4> QED
        BY <2>6, <4>2, <4>3 DEF Known
    <3>2. Known(attempts[n + 1])'
      BY <2>5, <2>7 DEF Known
    <3> QED
      BY <2>5, <3>1, <3>2 DEF AllKnown, Attempts
  <2>9. InOrderAndOnce'
    <3>1. ASSUME NEW i \in 1..(n + 1), NEW j \in 1..(n + 1), i < j
          PROVE  /\ attempts'[i].done => attempts'[i].version # attempts'[j].version
                 /\ attempts'[i].run = attempts'[j].run =>
                      attempts'[i].done /\ attempts'[i].version < attempts'[j].version
                 /\ attempts'[j].version < attempts'[i].version =>
                      attempts'[j].version \notin attempts'[i].release
      <4>1. i \in 1..n /\ attempts'[i] = attempts[i]
        BY <2>5, <3>1
      <4>2. CASE j \in 1..n
        BY <2>4, <2>5, <3>1, <4>1, <4>2 DEF Orderly, InOrderAndOnce
      <4>3. CASE j = n + 1
        <5>1. attempts[i] \in Attempt /\ Known(attempts[i])
          BY <1>0, <2>4, <4>1 DEF Attempts
        <5>2. attempts'[j] = b /\ b.version = v /\ b.run = runs
          BY <2>1, <2>5, <4>3
        <5> QED
          BY <2>6, <4>1, <5>1, <5>2
      <4> QED
        BY <2>5, <4>2, <4>3
    <3> QED
      BY <2>5, <3>1 DEF InOrderAndOnce
  <2>10. \A w \in Version, s \in {"verify", "record"} : current' = <<w, s>> => UnderWay(w)'
    BY <2>1, <2>2, <2>5 DEF UnderWay
  <2> QED
    BY <1>0, <2>2, <2>5, <2>8, <2>9, <2>10 DEF Orderly, Attempts
<1>3. ASSUME NEW v \in Version, Verify(v) PROVE Orderly'
  <2>1. InOrderAndOnce' /\ AllKnown'
    BY <1>3, OrderKept DEF Verify
  <2>2. UnderWay(v)'
    BY <1>0, <1>3 DEF Verify, UnderWay
  <2> QED
    BY <1>3, <2>1, <2>2 DEF Verify, Orderly
<1>4. ASSUME NEW v \in Version, Record(v) PROVE Orderly'
  <2>1. PICK n : n = Len(attempts)
    OBVIOUS
  <2>2. PICK a : a = attempts[n]
    OBVIOUS
  <2>3. /\ UnderWay(v) /\ a.run = runs /\ a.version = v /\ attempts # <<>> /\ job = "running"
        /\ attempts' = [attempts EXCEPT ![Len(attempts)].done = TRUE]
        /\ history' = history \cup {v} /\ current' = <<>> /\ UNCHANGED <<release, job, runs>>
    BY <1>0, <1>4, <2>1, <2>2 DEF Record, UnderWay
  <2>4. PICK b : b = [a EXCEPT !.done = TRUE]
    OBVIOUS
  <2>5. /\ n \in Nat \ {0} /\ Len(attempts') = n /\ attempts'[n] = b
        /\ \A i \in 1..n : i # n => attempts'[i] = attempts[i]
    BY <1>0, <2>1, <2>2, <2>3, <2>4, AttemptMarked DEF Attempts
  <2>6. a \in Attempt /\ Known(a)
    BY <1>0, <2>1, <2>2, <2>5 DEF Attempts
  <2>7. /\ b.version = a.version /\ b.run = a.run /\ b.release = a.release /\ b.done
    BY <2>4, <2>6 DEF Attempt
  <2>8. Known(b)'
    BY <2>3, <2>6, <2>7 DEF Known
  <2>9. ASSUME NEW i \in 1..n, i # n PROVE Known(attempts[i])'
    <3>1. PICK c : c = attempts[i]
      OBVIOUS
    <3>2. c \in Attempt /\ Known(c)
      BY <1>0, <2>1, <3>1 DEF Attempts
    <3>3. i < n
      BY <2>5, <2>9
    <3>4. c.run = a.run => c.done
      BY <2>1, <2>2, <2>5, <3>1, <3>3 DEF Orderly, InOrderAndOnce
    <3>5. Known(c)'
      BY <2>3, <3>2, <3>4 DEF Known
    <3>6. attempts'[i] = c
      BY <2>5, <2>9, <3>1
    <3> QED
      BY <3>5, <3>6 DEF Known
  <2>9a. Known(attempts[n])'
    BY <2>5, <2>8 DEF Known
  <2>10. AllKnown'
    BY <2>5, <2>9, <2>9a DEF AllKnown, Attempts
  <2>11. InOrderAndOnce'
    <3>1. ASSUME NEW i \in 1..n, NEW j \in 1..n, i < j
          PROVE  /\ attempts'[i].done => attempts'[i].version # attempts'[j].version
                 /\ attempts'[i].run = attempts'[j].run =>
                      attempts'[i].done /\ attempts'[i].version < attempts'[j].version
                 /\ attempts'[j].version < attempts'[i].version =>
                      attempts'[j].version \notin attempts'[i].release
      <4>1. i # n /\ attempts'[i] = attempts[i]
        BY <2>5, <3>1
      <4>2. attempts'[j].version = attempts[j].version /\ attempts'[j].run = attempts[j].run
        BY <2>2, <2>5, <2>7
      <4> QED
        BY <2>1, <3>1, <4>1, <4>2 DEF Orderly, InOrderAndOnce
    <3> QED
      BY <2>5, <3>1 DEF InOrderAndOnce
  <2> QED
    BY <2>3, <2>5, <2>10, <2>11 DEF Orderly, Attempts
<1>5. CASE EndRun
  <2>1. InOrderAndOnce' /\ AllKnown'
    BY <1>5, OrderKept DEF EndRun
  <2> QED
    BY <1>5, <2>1 DEF EndRun, Orderly
<1>6. CASE Fail
  <2>1. InOrderAndOnce' /\ AllKnown'
    BY <1>6, OrderKept DEF Fail
  <2> QED
    BY <1>6, <2>1 DEF Fail, Orderly
<1>7. CASE UNCHANGED vars
  <2>1. InOrderAndOnce' /\ AllKnown'
    BY <1>7, OrderKept DEF vars
  <2>2. \A v \in Version, s \in {"verify", "record"} : current' = <<v, s>> => UnderWay(v)'
    BY <1>0, <1>7 DEF vars, UnderWay
  <2> QED
    BY <1>7, <2>1, <2>2 DEF vars, Orderly
<1> QED BY <1>1, <1>2, <1>3, <1>4, <1>5, <1>6, <1>7 DEF Next, Step

LEMMA RunnerInvariant == Spec => [](Inductive /\ Orderly)
BY RunnerStart, OrderStart, RunnerStep, OrderStep, PTL DEF Spec

-----------------------------------------------------------------------------
(***************************************************************************)
(* Threads that shut the process down, and processes that follow one       *)
(* another, do nothing to the migrations that the job alone could not do.  *)
(***************************************************************************)
THEOREM ShutdownKeepsRunner == OperationsSpec => Spec
<1>1. OperationsInit => Init
  BY DEF OperationsInit
<1>2. [OperationsNext]_operationsVars => [Next]_vars
  BY DEF OperationsNext, Shutdown, InShutdown, SetStarted, StopAccepting, Close,
         NewProcess, Migrate, Next, Step, operationsVars
<1> QED BY <1>1, <1>2, PTL DEF OperationsSpec, Spec

(***************************************************************************)
(* The variables have their types; in particular no version is on record   *)
(* that the release does not hold.                                         *)
(***************************************************************************)
THEOREM OperationsTypeCorrect == OperationsSpec => []OperationsTypeOK
<1> DEFINE ShutdownTypeOK ==
      /\ stage \in [Thread -> {"out", "set", "stop", "close"}]
      /\ {started, stopped, closed, raised} \subseteq BOOLEAN
<1>1. OperationsInit => ShutdownTypeOK
  BY DEF OperationsInit, Nobody
<1>2. ShutdownTypeOK /\ [OperationsNext]_operationsVars => ShutdownTypeOK'
  <2> SUFFICES ASSUME ShutdownTypeOK, [OperationsNext]_operationsVars PROVE ShutdownTypeOK'
    OBVIOUS
  <2>1. ASSUME NEW t \in Thread, Shutdown(t) \/ InShutdown(t) PROVE ShutdownTypeOK'
    BY <2>1 DEF Shutdown, InShutdown, SetStarted, StopAccepting, Close, Goto
  <2>2. CASE NewProcess
    BY <2>2 DEF NewProcess, Nobody
  <2>3. CASE Migrate \/ UNCHANGED operationsVars
    BY <2>3 DEF Migrate, operationsVars, shutdownVars
  <2> QED BY <2>1, <2>2, <2>3 DEF OperationsNext
<1>3. OperationsSpec => []TypeOK
  <2>1. Inductive => TypeOK BY DEF Inductive
  <2> QED BY RunnerInvariant, ShutdownKeepsRunner, <2>1, PTL
<1>4. TypeOK /\ ShutdownTypeOK => OperationsTypeOK
  BY DEF OperationsTypeOK
<1> HIDE DEF ShutdownTypeOK
<1> QED BY <1>1, <1>2, <1>3, <1>4, PTL DEF OperationsSpec

(***************************************************************************)
(* What is on record was verified after it was last applied, wherever the  *)
(* job was shut down or died (MigrationRunner.run()).                      *)
(***************************************************************************)
THEOREM RecordsAreVerified == OperationsSpec => []RecordedIsVerified
<1>1. Inductive => RecordedIsVerified BY DEF Inductive
<1> QED BY RunnerInvariant, ShutdownKeepsRunner, <1>1, PTL

(***************************************************************************)
(* Over all runs, whichever of them failed, died or was shut down, and     *)
(* whatever later releases add: no migration is applied again after it was *)
(* recorded, none in a run after one that was not, and none after a higher *)
(* one that the release of that time had it before (MigrationRunner.run()).*)
(***************************************************************************)
THEOREM AppliedInOrderAndOnce == OperationsSpec => []InOrderAndOnce
<1>1. Orderly => InOrderAndOnce BY DEF Orderly
<1> QED BY RunnerInvariant, ShutdownKeepsRunner, <1>1, PTL

(***************************************************************************)
(* A shutdown that has begun and has neither done both callbacks nor       *)
(* raised is in the hands of a thread that will go on with it, however     *)
(* many threads came to shutdown() before the flag was set and whichever   *)
(* of them found it set and returned.  With the fairness of that thread    *)
(* this is what ShutdownCompletes rests on.                                *)
(***************************************************************************)
ShutdownInHands ==
  started => (stopped /\ closed) \/ raised \/ \E t \in Thread : stage[t] \in {"stop", "close"}

THEOREM NoShutdownStranded == OperationsSpec => []ShutdownInHands
<1> DEFINE Held ==
      /\ stage \in [Thread -> {"out", "set", "stop", "close"}]
      /\ \A t \in Thread : stage[t] = "close" => stopped
      /\ ShutdownInHands
<1>1. OperationsInit => Held
  BY DEF OperationsInit, Nobody, ShutdownInHands
<1>2. Held /\ [OperationsNext]_operationsVars => Held'
  <2> SUFFICES ASSUME Held, [OperationsNext]_operationsVars PROVE Held'
    OBVIOUS
  <2>1. ASSUME NEW t \in Thread, Shutdown(t) PROVE Held'
    BY <2>1 DEF Shutdown, Goto, ShutdownInHands
  <2>2. ASSUME NEW t \in Thread, SetStarted(t) PROVE Held'
    BY <2>2 DEF SetStarted, Goto, ShutdownInHands
  <2>3. ASSUME NEW t \in Thread, StopAccepting(t) PROVE Held'
    <3>1. CASE stopped' = TRUE /\ Goto(t, "close")
      BY <2>3, <3>1 DEF StopAccepting, Goto, ShutdownInHands
    <3>2. CASE raised' = TRUE /\ Goto(t, "out") /\ UNCHANGED stopped
      BY <2>3, <3>2 DEF StopAccepting, Goto, ShutdownInHands
    <3> QED
      BY <2>3, <3>1, <3>2 DEF StopAccepting
  <2>4. ASSUME NEW t \in Thread, Close(t) PROVE Held'
    BY <2>4 DEF Close, Goto, ShutdownInHands
  <2>5. CASE NewProcess
    BY <2>5 DEF NewProcess, Nobody, ShutdownInHands
  <2>6. CASE Migrate \/ UNCHANGED operationsVars
    BY <2>6 DEF Migrate, shutdownVars, operationsVars, ShutdownInHands
  <2> QED
    BY <2>1, <2>2, <2>3, <2>4, <2>5, <2>6 DEF OperationsNext, InShutdown
<1>3. Held => ShutdownInHands
  OBVIOUS
<1> QED BY <1>1, <1>2, <1>3, PTL DEF OperationsSpec
=============================================================================
