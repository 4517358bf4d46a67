------------------------------ MODULE CronBackupProofs ------------------------------
(***********************************************************************************)
(* For every schedule, deadline, backoff limit and length of a run: no night is       *)
(* skipped, only whole dumps reach the bucket, a job that is complete has put one     *)
(* there, and nothing in the bucket is overwritten.                                  *)
(***********************************************************************************)
EXTENDS CronBackup, TLAPS

\* Scheduled times, and the job of the night that is running.
Nights ==
    /\ Active => job.start + Period = night /\ job.failures <= BackoffLimit
    /\ skipped = 0

\* The dumps that have left a pod: names are times, and nobody else has that name.
Stored ==
    /\ \A d \in sent \cup bucket : d.whole /\ dated # None /\ d.name <= dated
    /\ \A d, e \in sent \cup bucket : d.name = e.name => d = e

\* The pod of a job: one dump in its volume, whole once it is written, under a name that
\* nothing stored has until it is sent.
InPod ==
    /\ pod # None => dated >= job.start
    /\ pod = "dump" => volume = {}
    /\ pod \in {"writing", "check", "upload", "sent"} =>
        \E d \in volume : /\ volume = {d}
                          /\ d.name = dated /\ d.taken >= job.start
                          /\ pod # "writing" => d.whole
    /\ pod \in {"dump", "writing", "check", "upload"} =>
            \A d \in sent \cup bucket : d.name # dated
    /\ pod = "sent" => volume \subseteq sent \cup bucket

CronInv == TypeOK /\ Nights /\ Stored /\ InPod /\ CompleteIsUploaded

\* A fresh job has neither pod nor dump.
LEMMA InitInv == Init => CronInv
<1> SUFFICES ASSUME Init PROVE CronInv
  OBVIOUS
<1> USE ScheduleAssumption, NoneAssumption DEF Init, Active, PodSteps
<1>1. TypeOK
  <2>1. job \in [state : {"none", "active", "complete", "failed"}, start : 0..clock,
                 failures : 0..(BackoffLimit + 1)]
    OBVIOUS
  <2>2. clock \in 0..MaxClock /\ night \in Nat /\ clock <= night /\ skipped \in Nat
    OBVIOUS
  <2>3. volume \subseteq Dumps /\ sent \subseteq Dumps /\ bucket \subseteq Dumps
    OBVIOUS
  <2> QED
    BY <2>1, <2>2, <2>3 DEF TypeOK
<1>2. Nights /\ Stored /\ InPod /\ CompleteIsUploaded
  BY DEF Nights, Stored, InPod, CompleteIsUploaded
<1> QED
  BY <1>1, <1>2 DEF CronInv

\* A failing pod ends the job at the limit, and never before.
LEMMA PodEnds ==
    ASSUME CronInv, pod # None, FailPod,
           UNCHANGED <<rendered, clock, night, skipped, dated, volume, sent, bucket>>
    PROVE  CronInv'
<1> USE ScheduleAssumption, NoneAssumption DEF FailPod, Active
<1>1. job \in [state : {"none", "active", "complete", "failed"}, start : 0..clock,
               failures : 0..(BackoffLimit + 1)]
  BY DEF CronInv, TypeOK
<1>2. job.state = "active" /\ job.failures \in 0..BackoffLimit /\ job.start \in 0..clock
  BY <1>1 DEF CronInv, TypeOK
<1>3. /\ job'.start = job.start /\ job'.failures = job.failures + 1
      /\ job'.state = IF job.failures = BackoffLimit THEN "failed" ELSE "active"
  BY <1>1, <1>2
<1>4. job' \in [state : {"none", "active", "complete", "failed"}, start : 0..clock,
                failures : 0..(BackoffLimit + 1)]
  <2> DEFINE next == IF job.failures = BackoffLimit THEN "failed" ELSE job.state
  <2>1. next \in {"none", "active", "complete", "failed"}
    BY <1>2
  <2>2. job' = [job EXCEPT !.failures = job.failures + 1, !.state = next]
    OBVIOUS
  <2>3. job.failures + 1 \in 0..(BackoffLimit + 1)
    BY <1>2
  <2> HIDE DEF next
  <2> QED
    BY <1>1, <2>1, <2>2, <2>3
<1>5. TypeOK'
  BY <1>4 DEF CronInv, TypeOK
<1>6. Nights'
  BY <1>2, <1>3 DEF CronInv, Nights
<1>7. Stored'
  BY DEF CronInv, Stored
<1>8. InPod' /\ CompleteIsUploaded'
  BY <1>3 DEF InPod, CompleteIsUploaded, PodSteps
<1> QED
  BY <1>5, <1>6, <1>7, <1>8 DEF CronInv

LEMMA StepInv == CronInv /\ [Next]_vars => CronInv'
<1> SUFFICES ASSUME CronInv, [Next]_vars PROVE CronInv'
  OBVIOUS
<1> USE ScheduleAssumption, NoneAssumption
    DEF CronInv, TypeOK, Nights, Stored, InPod, CompleteIsUploaded, Active, Late, PodSteps
<1>1. CASE Render
  BY <1>1 DEF Render, Requests
<1>2. CASE Tick
  BY <1>2 DEF Tick
<1>3. CASE Schedule
  BY <1>3 DEF Schedule
<1>4. CASE StartPod
  <2> USE <1>4 DEF StartPod
  <2>1. TypeOK'
    OBVIOUS
  <2>2. Stored'
    <3>1. dated # None => dated \in Nat /\ clock \in Nat /\ dated <= clock
      OBVIOUS
    <3>2. \A d \in sent \cup bucket : d.name \in Nat
      BY DEF Dumps
    <3> QED
      BY <3>1, <3>2
  <2>3. InPod'
    OBVIOUS
  <2> QED
    BY <2>1, <2>2, <2>3
<1>5. CASE BeginDump
  <2> DEFINE dump == [name |-> Name, taken |-> clock, whole |-> FALSE]
  <2> USE <1>5 DEF BeginDump, Name
  <2>1. /\ volume' = {dump} /\ dump \in Dumps
        /\ dump.name = dated /\ dump.taken = clock /\ clock >= job.start
    BY DEF Dumps
  <2> HIDE DEF dump
  <2>2. TypeOK'
    BY <2>1
  <2>3. InPod'
    BY <2>1
  <2> QED
    BY <2>2, <2>3
<1>6. CASE EndDump
  <2> USE <1>6 DEF EndDump
  <2>1. PICK d \in volume : volume = {d} /\ d.name = dated /\ d.taken >= job.start
    OBVIOUS
  <2> DEFINE e == IF Own(d) THEN [d EXCEPT !.whole = TRUE] ELSE d
  <2>2. volume' = {e}
    BY <2>1
  <2>3. e \in Dumps /\ e.name = d.name /\ e.taken = d.taken /\ e.whole
    BY <2>1 DEF Own, Name, Dumps
  <2> HIDE DEF e
  <2>4. TypeOK'
    BY <2>2, <2>3
  <2>5. InPod'
    BY <2>1, <2>2, <2>3
  <2> QED
    BY <2>4, <2>5
<1>7. CASE DumpError
  BY <1>7, PodEnds DEF DumpError
<1>8. CASE Check
  BY <1>8 DEF Check
<1>9. CASE Upload
  BY <1>9 DEF Upload
<1>10. CASE StoreObject
  BY <1>10 DEF StoreObject
<1>11. CASE LoseUpload
  BY <1>11 DEF LoseUpload
<1>12. CASE Complete
  BY <1>12 DEF Complete
<1>13. CASE PodFails
  BY <1>13, PodEnds DEF PodFails
<1>14. CASE EndLate
  BY <1>14 DEF EndLate
<1>15. CASE UNCHANGED vars
  BY <1>15 DEF vars
<1> QED
  BY <1>1, <1>2, <1>3, <1>4, <1>5, <1>6, <1>7, <1>8, <1>9, <1>10, <1>11, <1>12, <1>13, <1>14, <1>15
     DEF Next

\* Every reachable state has the types that the module states: a pod belongs to an active
\* job that has not used up its backoff limit, and has read its date (k8s.rs:198, 220).
THEOREM TypeInvariant == Spec => []TypeOK
<1>1. CronInv => TypeOK
  BY DEF CronInv
<1> QED
  BY <1>1, InitInv, StepInv, PTL DEF Spec

\* No night is skipped (k8s.rs:215, 221): a job that is still active when the next night
\* begins has started `Period` ago, and so the deadline has ended it before.
THEOREM NoSkippedNights == Spec => []NoNightIsSkipped
<1>1. CronInv => NoNightIsSkipped
  BY DEF CronInv, Nights, NoNightIsSkipped
<1> QED
  BY <1>1, InitInv, StepInv, PTL DEF Spec

\* The bucket gets whole dumps only (k8s.rs:199-204), however often pods fail and however
\* late their uploads arrive.
THEOREM WholeDumps == Spec => []UploadsWholeDumps
<1>1. CronInv => UploadsWholeDumps
  BY DEF CronInv, Stored, UploadsWholeDumps
<1> QED
  BY <1>1, InitInv, StepInv, PTL DEF Spec

\* A complete job has a dump of its own night in the bucket (k8s.rs:218-266).
THEOREM CompleteJobs == Spec => []CompleteIsUploaded
<1>1. CronInv => CompleteIsUploaded
  BY DEF CronInv
<1> QED
  BY <1>1, InitInv, StepInv, PTL DEF Spec

\* Nothing in the bucket is overwritten (k8s.rs:198, 262): what is stored has a name that
\* no other dump has, because a name is the second in which its pod began.
THEOREM KeepsObjects == Spec => NeverOverwrites
<1>1. CronInv /\ [Next]_vars => [bucket \subseteq bucket']_bucket
  BY DEF CronInv, Stored, Next, vars, Render, Tick, Schedule, StartPod, BeginDump, EndDump,
         DumpError, Check, Upload, StoreObject, LoseUpload, Complete, PodFails, EndLate
<1> QED
  BY <1>1, InitInv, StepInv, PTL DEF Spec, NeverOverwrites
=====================================================================================
