--------------------------------- MODULE CronBackup ---------------------------------
(***********************************************************************************)
(* The nightly dump that `cloner k8s cronjob` renders (BackupCronJob::render in       *)
(* src/src/k8s.rs): a CronJob whose pod dumps the database into an emptyDir with an   *)
(* init container and uploads what is there with rclone.  Kubernetes runs it: it      *)
(* starts a job every night, a new pod for a failed one, and ends what runs too long. *)
(*                                                                                   *)
(* Time passes in ticks.  A tick is longer than a second, so pods that start in       *)
(* different ticks have different names for their dumps; Kubernetes waits for ten     *)
(* seconds and more before it replaces a failed pod.                                  *)
(***********************************************************************************)
EXTENDS Integers, FiniteSets

CONSTANTS
    Period,        \* ticks between two nights (schedule)
    Deadline,      \* ticks a job may take (activeDeadlineSeconds)
    BackoffLimit,  \* failed pods a job survives (backoffLimit)
    MaxClock,      \* bound of the model: the last tick
    None

ASSUME ScheduleAssumption ==
    /\ Period \in Nat /\ Deadline \in Nat \ {0} /\ Deadline < Period
    /\ BackoffLimit \in Nat /\ MaxClock \in Nat

PodSteps == {"dump", "writing", "check", "upload", "sent"}

ASSUME NoneAssumption == None \notin Nat \cup PodSteps

VARIABLES
    rendered,  \* has the manifest been rendered (and applied)?
    clock,     \* now
    night,     \* the next scheduled time
    skipped,   \* nights on which the job of another night was still running
    job,       \* the job: [state, start, failures]
    pod,       \* control state of its pod, None without one
    dated,     \* when the last pod read the date for the name of its dump
    volume,    \* the emptyDir of the pod: a set of dumps
    sent,      \* uploads on their way to the bucket
    bucket     \* the objects in the bucket

vars == <<rendered, clock, night, skipped, job, pod, dated, volume, sent, bucket>>

Dumps == [name : 0..MaxClock, taken : 0..MaxClock, whole : BOOLEAN]
Active == job.state = "active"

Init ==
    /\ rendered = FALSE
    /\ clock = 0 /\ night = 0 /\ skipped = 0
    /\ job = [state |-> "none", start |-> 0, failures |-> 0]
    /\ pod = None
    /\ dated = None
    /\ volume = {}
    /\ sent = {}
    /\ bucket = {}

\* Mutant: no activeDeadlineSeconds.
Late_never == FALSE

\* activeDeadlineSeconds is over.
Late == Active /\ clock - job.start >= Deadline
-------------------------------------------------------------------------------------
\* What k8s_cronjob has from dl.js and its options: the engine, whether the database, the
\* user and the bucket are named, and the file --out, with --force.
Requests == [engine : {"postgres", "mysql", "mongodb"}, database : BOOLEAN, user : BOOLEAN,
             bucket : BOOLEAN, exists : BOOLEAN, force : BOOLEAN]

\* k8s_cronjob and render; a refusal changes nothing.  The manifest is applied as it is.
Render ==
    /\ ~rendered
    /\ \E q \in Requests :
        rendered' = (q.engine = "postgres" /\ q.database /\ q.user /\ q.bucket
                     /\ (q.exists => q.force))
    /\ UNCHANGED <<clock, night, skipped, job, pod, dated, volume, sent, bucket>>

\* Kubernetes is not later than a tick: what is due happens before the clock moves on.
Tick ==
    /\ rendered /\ clock < MaxClock /\ clock < night /\ ~Late
    /\ clock' = clock + 1
    /\ UNCHANGED <<rendered, night, skipped, job, pod, dated, volume, sent, bucket>>

\* concurrencyPolicy Forbid: a night whose predecessor is still running is skipped.
Schedule ==
    /\ rendered /\ clock = night /\ ~Late
    /\ night' = night + Period
    /\ IF Active THEN skipped' = skipped + 1 /\ UNCHANGED job
       ELSE /\ job' = [state |-> "active", start |-> clock, failures |-> 0]
            /\ UNCHANGED skipped
    /\ UNCHANGED <<rendered, clock, pod, dated, volume, sent, bucket>>

\* A pod with an empty volume; its script reads the date first.
StartPod ==
    /\ Active /\ ~Late /\ pod = None /\ dated # clock
    /\ pod' = "dump"
    /\ dated' = clock
    /\ volume' = {}
    /\ UNCHANGED <<rendered, clock, night, skipped, job, sent, bucket>>

\* Mutant: the name has the day, and not the time of the day.
Name_byDay == dated \div Period

\* out="/backups/${PGDATABASE}-${ts}.dump", the date with its seconds.
Name == dated

\* pg_dump --file: takes its snapshot and begins to write.
BeginDump ==
    /\ pod = "dump"
    /\ volume' = volume \cup {[name |-> Name, taken |-> clock, whole |-> FALSE]}
    /\ pod' = "writing"
    /\ UNCHANGED <<rendered, clock, night, skipped, job, dated, sent, bucket>>

Own(d) == d.name = Name /\ ~d.whole

\* The whole dump is written.
EndDump ==
    /\ pod = "writing"
    /\ volume' = {IF Own(d) THEN [d EXCEPT !.whole = TRUE] ELSE d : d \in volume}
    /\ pod' = "check"
    /\ UNCHANGED <<rendered, clock, night, skipped, job, dated, sent, bucket>>

\* Mutant: `sh -c` without -e goes on after a command that fails.
DumpError_ignored ==
    /\ pod = "writing"
    /\ pod' = "upload"
    /\ UNCHANGED <<rendered, clock, night, skipped, job, dated, volume, sent, bucket>>

\* Mutant: no backoffLimit.
FailPod_always ==
    /\ pod' = None
    /\ job' = [job EXCEPT !.failures = @ + 1]

\* restartPolicy Never: the pod is not used again; one failure too many ends the job.
FailPod ==
    /\ pod' = None
    /\ job' = [job EXCEPT !.failures = @ + 1,
                          !.state = IF job.failures = BackoffLimit THEN "failed" ELSE @]

\* pg_dump breaks off; sh -e ends the script, and the init container fails.
DumpError ==
    /\ pod = "writing"
    /\ FailPod
    /\ UNCHANGED <<rendered, clock, night, skipped, dated, volume, sent, bucket>>

\* [ -s ] and pg_restore --list: neither reads the data, only that there is some.
Check ==
    /\ pod = "check"
    /\ pod' = "upload"
    /\ UNCHANGED <<rendered, clock, night, skipped, job, dated, volume, sent, bucket>>

\* Mutant: the upload is a container beside the dump instead of after it.
Upload_beside ==
    /\ pod \in {"dump", "writing", "upload"}
    /\ sent' = sent \cup volume
    /\ pod' = "sent"
    /\ UNCHANGED <<rendered, clock, night, skipped, job, dated, volume, bucket>>

\* rclone copy: every file of the volume, and no look at what is in the bucket already.
Upload ==
    /\ pod = "upload"
    /\ sent' = sent \cup volume
    /\ pod' = "sent"
    /\ UNCHANGED <<rendered, clock, night, skipped, job, dated, volume, bucket>>

\* The object storage stores an upload, also one whose pod has been ended meanwhile.
StoreObject ==
    /\ \E d \in sent :
        /\ sent' = sent \ {d}
        /\ bucket' = {o \in bucket : o.name # d.name} \cup {d}
    /\ UNCHANGED <<rendered, clock, night, skipped, job, pod, dated, volume>>

\* An upload is lost on its way when its pod is no longer there to repeat it.
LoseUpload ==
    /\ pod # "sent"
    /\ \E d \in sent : sent' = sent \ {d}
    /\ UNCHANGED <<rendered, clock, night, skipped, job, pod, dated, volume, bucket>>

\* rclone has the answer of the storage: the pod has succeeded, and the job with it.
Complete ==
    /\ pod = "sent" /\ volume \cap sent = {}
    /\ pod' = None
    /\ job' = [job EXCEPT !.state = "complete"]
    /\ UNCHANGED <<rendered, clock, night, skipped, dated, volume, sent, bucket>>

\* Image, node, sizeLimit, network, S3 keys: the pod fails at any moment, also when the
\* object is in the bucket and the answer is not.
PodFails ==
    /\ pod # None
    /\ FailPod
    /\ UNCHANGED <<rendered, clock, night, skipped, dated, volume, sent, bucket>>

\* activeDeadlineSeconds: the job fails and its pod is ended.
EndLate ==
    /\ Late
    /\ job' = [job EXCEPT !.state = "failed"]
    /\ pod' = None
    /\ UNCHANGED <<rendered, clock, night, skipped, dated, volume, sent, bucket>>

Next ==
    \/ Render \/ Tick \/ Schedule \/ StartPod \/ BeginDump \/ EndDump \/ DumpError \/ Check
    \/ Upload \/ StoreObject \/ LoseUpload \/ Complete \/ PodFails \/ EndLate

Spec == Init /\ [][Next]_vars
-------------------------------------------------------------------------------------
TypeOK ==
    /\ rendered \in BOOLEAN
    /\ clock \in 0..MaxClock
    /\ night \in Nat /\ clock <= night /\ skipped \in Nat
    /\ job \in [state : {"none", "active", "complete", "failed"}, start : 0..clock,
                failures : 0..(BackoffLimit + 1)]
    /\ pod \in PodSteps \cup {None}
    /\ pod # None => Active /\ job.failures <= BackoffLimit /\ dated # None
    /\ dated \in 0..clock \cup {None}
    /\ volume \subseteq Dumps /\ sent \subseteq Dumps /\ bucket \subseteq Dumps

\* What reaches the bucket is a whole dump, although pods fail while they write and
\* their uploads arrive late (k8s.rs:199-204).
UploadsWholeDumps == \A o \in bucket : o.whole

\* A job that Kubernetes shows as complete has put a dump into the bucket that was taken
\* in this job, and not one of a night before (docs/guides/cli.md:98).
CompleteIsUploaded ==
    job.state = "complete" => \E o \in bucket : o.whole /\ o.taken >= job.start

\* Nothing that is in the bucket is overwritten: neither by the retry after a pod that
\* had uploaded and failed then, nor by an upload that arrives after the next one
\* (--no-check-dest looks at nothing; retention is the bucket's, operations.md:57).
NeverOverwrites == [][bucket \subseteq bucket']_bucket

\* No night goes without its job because the job of another night hangs: the deadline
\* ends a pg_dump that waits for a lock before Forbid would skip the next one.
NoNightIsSkipped == skipped = 0
=====================================================================================
