------------------------------ MODULE DriveJobs ------------------------------
(***************************************************************************)
(* The jobs that rewrite a USB drive, VentoyInstaller (install, update)    *)
(* and the ISO writer, as threads of the app: started from their screens,  *)
(* asked to stop by the hook the notification runs on a thread of its own, *)
(* each with the stop flag it polls, on one drive that can fail, lie about *)
(* a write or be unplugged, in a process that can be killed.               *)
(***************************************************************************)
EXTENDS UsbDrive, WritePlans, FiniteSets

CONSTANTS
    JobKinds,   \* the kinds of job the user starts
    MaxMishaps  \* bound: failed or lying transfers, damaged sources, pulled
                \* plugs and deaths of the process, together
ASSUME BoundsAssumption == JobKinds \subseteq Kinds /\ MaxMishaps \in Nat

VARIABLES
    kind,       \* what each job is, "none" before it is started
    step,         \* next step of its plan, 0 when it has no thread
    outcome,    \* how it ended, "none" before
    limit,      \* cancelLimit of its installer
    cancelled,  \* installers whose cancelRequested is set
    isoCancel,  \* sCancelRequested, static, of the ISO writer
    active,     \* sActiveInstaller, 0: null
    entry,      \* the job each mode's entry in ModeService stands for, 0: none
    stopping,   \* jobs the user asked to stop
    hooks,      \* jobs whose stop hook is on its thread and has not run
    wrote,      \* history: areas each job has written to
    must,       \* history: jobs told to stop while they still look for it
    after,      \* history: areas such a job wrote to after that
    late,       \* history: jobs the hook of an earlier job told to stop
    lied,       \* history: writes the drive acknowledged and got wrong
    mishaps     \* history: how many there were

jobVars == <<kind, step, outcome, limit, cancelled, isoCancel, active, entry>>
stopVars == <<stopping, hooks, must, late>>
writes == <<wrote, after, lied>>
driveJobVars == <<driveVars, jobVars, stopVars, writes, mishaps>>

JobModes == {"ventoy", "iso"}
ModeOf(k) == IF k \in VentoyKinds THEN "ventoy" ELSE "iso"

JobsInit ==
    /\ DriveInit
    /\ kind = [g \in Jobs |-> "none"] /\ step = [g \in Jobs |-> 0]
    /\ outcome = [g \in Jobs |-> "none"] /\ limit = [g \in Jobs |-> 97]
    /\ cancelled = {} /\ isoCancel = FALSE /\ active = 0
    /\ entry = [m \in JobModes |-> 0]
    /\ stopping = {} /\ hooks = {} /\ must = {} /\ late = {}
    /\ wrote = [g \in Jobs |-> {}] /\ after = wrote /\ lied = {}
    /\ mishaps = 0

-----------------------------------------------------------------------------
(* The screens                                                             *)

\* VentoyDetector: the table is one that Ventoy, or an installer, wrote.
LooksVentoy == \/ cache["table"] \in {Ventoy, Torn}
               \/ cache["table"] \in Jobs /\ kind[cache["table"]] \in VentoyKinds

\* startVentoyInstallation: sActiveInstaller, begin, thread.
TapVentoy(g, k) ==
    /\ k \in VentoyKinds /\ (k = "update" => LooksVentoy)
    /\ active' = g /\ UNCHANGED isoCancel

\* Mutant: the static flag keeps what the last stop left in it.
TapIso_KeepsFlag(g, k) == k \notin VentoyKinds /\ UNCHANGED <<active, isoCancel>>

\* startIsoWrite: sCancelRequested = false, begin, thread.
TapIso(g, k) == k \notin VentoyKinds /\ isoCancel' = FALSE /\ UNCHANGED active

Tap(g, k) ==
    /\ kind[g] = "none" /\ (g > 1 => kind[g - 1] # "none")
    /\ plugged /\ entry[ModeOf(k)] = 0
    /\ TapVentoy(g, k) \/ TapIso(g, k)
    /\ kind' = [kind EXCEPT ![g] = k] /\ step' = [step EXCEPT ![g] = 1]
    /\ entry' = [entry EXCEPT ![ModeOf(k)] = g]
    /\ UNCHANGED <<driveVars, outcome, limit, cancelled, stopVars, writes, mishaps>>

-----------------------------------------------------------------------------
(* The thread of a job                                                     *)

Running(g) == kind[g] # "none" /\ outcome[g] = "none"
Here(g) == Plan[kind[g]][step[g]]
At(g, op) == Running(g) /\ step[g] <= Len(Plan[kind[g]]) /\ Here(g).op = op

Others == <<kind, isoCancel, active, entry, stopVars>>

Advance(g) == step' = [step EXCEPT ![g] = @ + 1] /\ UNCHANGED outcome
End(g, how) == outcome' = [outcome EXCEPT ![g] = how] /\ step' = [step EXCEPT ![g] = 0]

\* A step goes on, or ends the job: the finally block closes the connection.
Fine(g) == Advance(g) /\ UNCHANGED <<driveVars, mishaps>>
EndJob(g, how) ==
    /\ End(g, how) /\ Release(g)
    /\ UNCHANGED <<cache, media, plugged, mishaps>>
Mishap == mishaps < MaxMishaps /\ mishaps' = mishaps + 1
JobFails(g) ==
    /\ End(g, "failed") /\ Release(g) /\ UNCHANGED <<cache, media, plugged>>
    /\ IF plugged THEN Mishap ELSE UNCHANGED mishaps

\* An uncaught exception or the system takes the process down: its static
\* state, its threads and its connections are gone.
AppDies(how) ==
    /\ outcome' = [g \in Jobs |-> IF Running(g) THEN how[g] ELSE outcome[g]]
    /\ step' = [g \in Jobs |-> 0]
    /\ holder' = 0 /\ entry' = [m \in JobModes |-> 0] /\ active' = 0
    /\ isoCancel' = FALSE /\ hooks' = {}
    /\ UNCHANGED <<cache, media, plugged, kind, limit, cancelled, stopping,
                   must, late, writes>>

EnterStep(g) ==
    /\ At(g, "enter") /\ Fine(g)
    /\ cancelled' = cancelled \ {g} /\ limit' = [limit EXCEPT ![g] = Here(g).n]
    /\ UNCHANGED <<Others, writes>>

\* Mutant: the comparison with cancelLimit the wrong way round.
Heeds_Swapped(g) == g \in cancelled /\ Here(g).n > limit[g]

\* progress(): CancelledException, caught from open() on.
Heeds(g) == g \in cancelled /\ Here(g).n < limit[g]
ShowStep(g) ==
    /\ At(g, "show") /\ (Heeds(g) => holder = g)
    /\ IF Heeds(g) THEN EndJob(g, "cancelled") ELSE Fine(g)
    /\ UNCHANGED <<Others, limit, cancelled, writes>>
ShowThrows(g) ==
    /\ At(g, "show") /\ Heeds(g) /\ holder # g
    /\ AppDies([h \in Jobs |-> IF h = g THEN "threw" ELSE "died"])
    /\ UNCHANGED mishaps

CommitStep(g) ==
    /\ At(g, "commit") /\ Fine(g) /\ limit' = [limit EXCEPT ![g] = 0]
    /\ UNCHANGED <<Others, cancelled, writes>>

PollStep(g) ==
    /\ At(g, "poll")
    /\ IF isoCancel THEN EndJob(g, "cancelled") ELSE Fine(g)
    /\ UNCHANGED <<Others, limit, cancelled, writes>>

OpenStep(g) ==
    /\ At(g, "open")
    /\ \/ Claim(g) /\ Advance(g) /\ UNCHANGED mishaps
       \/ plugged /\ holder # 0 /\ EndJob(g, "failed")
       \/ (holder = 0 \/ ~plugged) /\ JobFails(g)
    /\ UNCHANGED <<Others, limit, cancelled, writes>>

LookStep(g) ==
    /\ At(g, "look") /\ (Fine(g) \/ JobFails(g))
    /\ UNCHANGED <<Others, limit, cancelled, writes>>

DetectStep(g) ==
    /\ At(g, "detect")
    /\ \/ plugged /\ LooksVentoy /\ Fine(g)
       \/ plugged /\ (LooksVentoy => cache["table"] = Torn) /\ EndJob(g, "failed")
       \/ JobFails(g)
    /\ UNCHANGED <<Others, limit, cancelled, writes>>

\* A write is taken, taken and stored wrong, or reported as failed with the
\* area unchanged, partly or wholly written.
WriteStep(g) ==
    LET a == Here(g).area
        c == IF Here(g).n = 1 /\ <<g, a>> \notin lied THEN g ELSE Torn IN
    /\ At(g, "write")
    /\ \/ plugged /\ Accept(a, c) /\ Advance(g) /\ UNCHANGED <<mishaps, lied>>
       \/ plugged /\ Accept(a, Torn) /\ Advance(g) /\ Mishap /\ lied' = lied \cup {<<g, a>>}
       \/ /\ plugged /\ End(g, "failed") /\ Release(g) /\ Mishap
          /\ \E d \in {cache[a], Torn, c} : cache' = [cache EXCEPT ![a] = d]
          /\ UNCHANGED <<media, plugged, lied>>
       \/ ~plugged /\ JobFails(g) /\ UNCHANGED lied
    /\ wrote' = [wrote EXCEPT ![g] = IF plugged THEN @ \cup {a} ELSE @]
    /\ after' = [after EXCEPT ![g] = IF plugged /\ g \in must THEN @ \cup {a} ELSE @]
    /\ UNCHANGED <<Others, limit, cancelled>>

SyncStep(g) ==
    /\ At(g, "sync")
    /\ \/ FlushCache /\ Advance(g) /\ UNCHANGED mishaps
       \/ JobFails(g)
    /\ UNCHANGED <<Others, limit, cancelled, writes>>

\* Mutant: only a read that fails counts, not what is read.
ReadStep_NoCompare(g) ==
    /\ At(g, "read")
    /\ \/ plugged /\ Fine(g)
       \/ JobFails(g)
    /\ UNCHANGED <<Others, limit, cancelled, writes>>

\* UsbVerifier.verify, one block: the digest of what was written against what
\* the drive gives back.
ReadStep(g) ==
    /\ At(g, "read")
    /\ \/ plugged /\ cache[Here(g).area] = g /\ Fine(g)
       \/ plugged /\ cache[Here(g).area] # g /\ EndJob(g, "failed")
       \/ JobFails(g)
    /\ UNCHANGED <<Others, limit, cancelled, writes>>

\* install, update, writeIsoToUsb return: the connection is closed.
Complete(g) ==
    /\ Running(g) /\ step[g] > Len(Plan[kind[g]]) /\ EndJob(g, "ok")
    /\ UNCHANGED <<Others, limit, cancelled, writes>>

\* The thread's last lines: sActiveInstaller = null, ModeService.end.
Report(g) ==
    /\ outcome[g] # "none" /\ entry[ModeOf(kind[g])] = g
    /\ entry' = [entry EXCEPT ![ModeOf(kind[g])] = 0]
    /\ active' = IF kind[g] \in VentoyKinds THEN 0 ELSE active
    /\ UNCHANGED <<driveVars, kind, step, outcome, limit, cancelled, isoCancel,
                   stopVars, writes, mishaps>>

Worker(g) == \/ EnterStep(g) \/ ShowStep(g) \/ ShowThrows(g) \/ CommitStep(g)
             \/ PollStep(g) \/ OpenStep(g) \/ LookStep(g) \/ DetectStep(g)
             \/ WriteStep(g) \/ SyncStep(g) \/ ReadStep(g)
             \/ Complete(g) \/ Report(g)

-----------------------------------------------------------------------------
(* Stop, and what the world does                                           *)

\* Mutant: the entry is not marked, so that every press runs the hook again.
PressStop_Unmarked(m) ==
    /\ entry[m] \in Jobs \ stopping
    /\ hooks' = hooks \cup {entry[m]}
    /\ UNCHANGED <<driveVars, jobVars, stopping, must, late, writes, mishaps>>

\* requestStop: once for each entry; the hook runs on a thread of its own.
PressStop(m) ==
    /\ entry[m] \in Jobs \ stopping
    /\ stopping' = stopping \cup {entry[m]} /\ hooks' = hooks \cup {entry[m]}
    /\ UNCHANGED <<driveVars, jobVars, must, late, writes, mishaps>>

\* The job still comes to a place where it looks at its stop flag.
StillLooks(g) ==
    LET k == kind[g] IN
    /\ Running(g)
    /\ \E i \in step[g]..Len(Plan[k]) :
          \/ Plan[k][i].op = "poll"
          \/ /\ Plan[k][i].op = "show" /\ Plan[k][i].n < limit[g]
             /\ \A j \in step[g]..i : Plan[k][j].op \notin {"enter", "commit"}

\* The job a hook of mode m reaches when it runs now.
Reached(m) == IF m = "ventoy" THEN {active} \ {0} ELSE {entry["iso"]} \ {0}

\* The stop hooks of startVentoyInstallation and startIsoWrite.
RunHook(g) ==
    LET m == ModeOf(kind[g]) IN
    /\ g \in hooks /\ hooks' = hooks \ {g}
    /\ cancelled' = cancelled \cup (IF m = "ventoy" THEN Reached(m) ELSE {})
    /\ isoCancel' = (isoCancel \/ m = "iso")
    /\ late' = late \cup (Reached(m) \ {g})
    /\ must' = must \cup {h \in Reached(m) : StillLooks(h)}
    /\ UNCHANGED <<driveVars, kind, step, outcome, limit, active, entry, stopping,
                   writes, mishaps>>

PullOut ==
    /\ Mishap /\ Unplug
    /\ UNCHANGED <<jobVars, stopVars, writes>>

\* A job already started holds the handle of the drive that went away.
PlugIn ==
    /\ \A g \in Jobs : ~Running(g)
    /\ Replug
    /\ UNCHANGED <<jobVars, stopVars, writes, mishaps>>

Killed ==
    /\ Mishap
    /\ AppDies([g \in Jobs |-> "died"])

JobsNext ==
    \/ \E g \in Jobs, k \in JobKinds : Tap(g, k)
    \/ \E g \in Jobs : Worker(g) \/ RunHook(g)
    \/ \E m \in JobModes : PressStop(m)
    \/ PullOut \/ PlugIn \/ Killed

JobsSpec == JobsInit /\ [][JobsNext]_driveJobVars
-----------------------------------------------------------------------------
(* Properties                                                              *)

\* The types of the variables.
JobsTypeOK ==
    /\ cache \in [Areas -> Contents] /\ media \in [Areas -> Contents]
    /\ plugged \in BOOLEAN /\ holder \in Jobs \cup {0}
    /\ kind \in [Jobs -> JobKinds \cup {"none"}] /\ step \in [Jobs -> Nat]
    /\ outcome \in [Jobs -> {"none", "ok", "failed", "cancelled", "threw", "died"}]
    /\ limit \in [Jobs -> {0, 11, 97}]
    /\ cancelled \subseteq Jobs /\ isoCancel \in BOOLEAN /\ active \in Jobs \cup {0}
    /\ entry \in [JobModes -> Jobs \cup {0}]
    /\ stopping \subseteq Jobs /\ hooks \subseteq stopping
    /\ must \subseteq Jobs /\ late \subseteq Jobs
    /\ wrote \in [Jobs -> SUBSET Areas] /\ after \in [Jobs -> SUBSET Areas]
    /\ lied \subseteq Jobs \X Areas
    /\ mishaps \in 0..MaxMishaps

Succeeds(g) == outcome[g] = "none" /\ outcome'[g] = "ok"

\* RESULT_OK and "written successfully" are told only of a drive that holds,
\* on its medium, every area the job writes as this job wrote it: no other
\* job came between, nothing waits in the cache, no failed or unplugged write
\* went unnoticed.  A drive that stores something else than it acknowledged
\* is beyond a job that does not read back.
SuccessIsWhole ==
    [][\A g \in Jobs : Succeeds(g) =>
         \A a \in AreasWritten(kind[g]) : media'[a] = g \/ <<g, a>> \in lied]_driveJobVars

\* With verification even a lying drive is found out, in every area the
\* chosen level reads back (UsbVerifier.verify, after the flush).
VerifiedIsWhole ==
    [][\A g \in Jobs : Succeeds(g) =>
         \A a \in Checked(kind[g]) : media'[a] = g]_driveJobVars

\* "The update was stopped before anything was written." is true: cancelLimit
\* closes the stop before the first write, whenever the stop comes.
UpdateStopUntouched ==
    \A g \in Jobs : kind[g] = "update" /\ outcome[g] = "cancelled" => wrote[g] = {}

\* An update writes the boot sector only when stage 1 and VTOYEFI are there
\* as the new version has them ("so the old boot code stays in place until
\* everything it needs has been replaced").
BootCodeLast ==
    [][\A g \in Jobs :
         kind[g] = "update" /\ "table" \in wrote'[g] \ wrote[g] =>
           \A a \in {"core", "efi"} : cache[a] = g \/ <<g, a>> \in lied]_driveJobVars

\* A job told to stop while it still looks at its flag does not end as done,
\* and writes at most the area it is at.
StopHeeded ==
    \A g \in must : outcome[g] # "ok" /\ Cardinality(after[g]) <= 1

\* A job ends as stopped only if the user stopped it: a stop meant for an
\* earlier job stays with that job, unless its hook had not run yet when the
\* next one began (the flags and sActiveInstaller are static).
CancelledOnlyIfAsked ==
    \A g \in Jobs : outcome[g] = "cancelled" => g \in stopping \cup late

\* Violated by the code.  VentoyInstaller.java:136 says that cancel "asks a
\* running install() to stop at the next progress step"; the first progress
\* step is outside the try that turns the exception into ERROR_CANCELLED, so
\* a stop that comes before it ends the whole app instead of the job.
StopNeverKills == \A g \in Jobs : outcome[g] # "threw"

\* A job told to stop stops, in time and alone (cancel of VentoyInstaller,
\* requestCancel of the ISO writer).
StopsHonoured == StopHeeded /\ UpdateStopUntouched /\ CancelledOnlyIfAsked

\* What a job reports as done is on the medium, as far as it can know.
DoneIsThere == SuccessIsWhole /\ VerifiedIsWhole
=============================================================================
