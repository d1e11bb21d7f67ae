-------------------------- MODULE ServiceLifecycle --------------------------
(***************************************************************************)
(* The service commands of internal/service/service.go: install, update,   *)
(* rollback, uninstall and start/stop/restart/enable/disable.              *)
(*                                                                         *)
(* A command decides once what it has to do and then does it step by step. *)
(* A step is a file operation (atomic: a temporary file that is renamed) or *)
(* a systemctl call; any step may fail, and the command may be killed       *)
(* between two of them. What a command does about a failure is its own list *)
(* of steps. Commands run one at a time.                                   *)
(*                                                                         *)
(* Executables and units are told apart by version. An executable outside  *)
(* Good starts and then exits.                                             *)
(***************************************************************************)
EXTENDS Integers, Sequences

CONSTANTS Version, Good, \* executables, and those that become healthy
          UnitFile,      \* contents of the unit file
          Crashes,       \* may a command be killed
          MaxFault,      \* bound: steps that fail, commands that are killed
          MaxCommand,    \* bound: commands
          None           \* no file

ASSUME VersionAssumption == Good \subseteq Version
ASSUME BoundsAssumption ==
    MaxFault \in Nat /\ MaxCommand \in Nat /\ Crashes \in BOOLEAN
ASSUME NoneAssumption ==
    None \notin Version \cup UnitFile \cup {"active", "inactive", "failed"}

Files == [bin : Version \cup {None},        \* BinaryPath
          rollback : Version \cup {None},   \* BinaryPath.rollback
          failed : Version \cup {None},     \* BinaryPath.failed
          preinstall : Version \cup {None}, \* BinaryPath.preinstall
          marker : {"active", "inactive", "failed", None},  \* .prior-active
          unit : UnitFile \cup {None},      \* UnitPath
          data : {"service", "root", None}] \* who owns the data directory

Unit == [enabled : {"enabled", "enabled-runtime", "disabled"},
         active : {"active", "inactive", "failed", "activating"},
         running : Version \cup {None},     \* what the process executes
         loaded : UnitFile \cup {None}]     \* what systemd has read

VARIABLES files,
          systemd,
          op,      \* the command: its steps to do, and what it found at first
          faults,  \* steps that failed and commands that were killed
          issued,  \* number of commands
          left     \* history: removals of this command that failed unnoticed

vars == <<files, systemd, op, faults, issued, left>>

Command == {"install", "update", "rollback", "uninstall", "start", "stop",
            "restart", "enable", "disable"}

\* What a command has found.
Prior == [bin : Version \cup {None}, unit : UnitFile \cup {None},
          enabled : {"enabled", "enabled-runtime", "disabled"},
          active : {"active", "inactive", "failed", "activating"},
          running : Version \cup {None}]

\* The steps of the commands.
StepName ==
    {"account", "make leaf", "own leaf", "chmod leaf", "preinstall", "binary",
     "unit", "daemon-reload", "enable", "enable --runtime", "disable",
     "disable --now", "disable new", "reset-failed", "start", "restart", "stop",
     "stop new", "drop preinstall", "restore binary", "remove binary",
     "restore unit", "remove unit", "save rollback", "save marker", "verify",
     "recover binary", "forget", "set aside", "take back"}

Operation == [cmd : Command, mode : {"prepare", "apply", "undo", "ok", "failed"},
              todo : Seq(StepName), version : Version \cup {None},
              unit : UnitFile \cup {None}, prior : Prior, errs : BOOLEAN]

Idle == [cmd |-> "none", mode |-> "ok", todo |-> <<>>, errs |-> FALSE]

TypeOK ==
    /\ files \in Files /\ systemd \in Unit /\ op \in Operation \cup {Idle}
    /\ faults \in 0..MaxFault /\ issued \in 0..MaxCommand /\ left \subseteq StepName

\* A machine without Watchpost, or an installed service in any state that
\* systemctl enable, disable, start and stop lead to.
Init ==
    /\ \E v \in Good, u \in UnitFile :
       \/ /\ files = [bin |-> None, rollback |-> None, failed |-> None,
                      preinstall |-> None, marker |-> None, unit |-> None,
                      data |-> None]
          /\ systemd = [enabled |-> "disabled", active |-> "inactive",
                        running |-> None, loaded |-> None]
       \/ /\ files = [bin |-> v, rollback |-> None, failed |-> None,
                      preinstall |-> None, marker |-> None, unit |-> u,
                      data |-> "service"]
          /\ systemd \in [enabled : {"enabled", "enabled-runtime", "disabled"},
                          active : {"active", "inactive"},
                          running : {v, None}, loaded : {u}]
          /\ systemd.active = "active" <=> systemd.running = v
    /\ op = Idle /\ faults = 0 /\ issued = 0 /\ left = {}

----------------------------------------------------------------------------
(* Which steps a command consists of                                       *)

\* enableRestoreSteps, and activeRestoreArgs with the reset-failed that goes
\* before a restart (Defect: start instead).
EnableSteps(word) ==
    CASE word = "enabled" -> <<"disable", "enable">>
      [] word = "enabled-runtime" -> <<"disable", "enable --runtime">>
      [] OTHER -> <<"disable">>
ActiveStepsDefect(word) ==
    IF word = "active" THEN <<"reset-failed", "start">> ELSE <<"stop">>
ActiveSteps(word) ==
    IF word = "active" THEN <<"reset-failed", "restart">> ELSE <<"stop">>

When(b, steps) == IF b THEN steps ELSE <<>>

\* restorableActiveWord: the state is known to be reproducible.
RestorableActiveWord(word) == word \in {"active", "inactive"}

\* inspectDataDir: an existing directory has to be the service's.
AcceptDataDir == files.data # "root"

\* establishDataDir, establishFreshLeaf: a new directory is made, then given to
\* the service.
DataDirSteps ==
    IF files.data = None THEN <<"make leaf", "own leaf">> ELSE <<"chmod leaf">>

\* InstallOptions up to the point from where a failure is undone.
PrepareSteps(v, u) ==
    LET same == files.unit = u /\ files.bin = v
    IN  When(~(same /\ files.data = "service"), <<"account">> \o DataDirSteps)
        \o When(~same /\ files.bin # None, <<"preinstall">>)

\* InstallOptions from there on: unitChanged or binaryChanged.
Changed == op.prior.unit # op.unit \/ op.prior.bin # op.version
ApplySteps ==
    When(Changed,
         <<"binary", "unit">>
         \o When(op.prior.unit # op.unit, <<"daemon-reload">>)
         \o (IF op.prior.unit = None THEN <<"enable", "reset-failed", "restart">>
             ELSE EnableSteps(op.prior.enabled) \o ActiveSteps(op.prior.active))
         \o <<"drop preinstall">>)

\* The closure restore of InstallOptions; what the install has started and
\* linked is stopped and disabled first (Defect: without the enablement).
RestoreStepsDefect ==
    <<"stop new", "disable new">>
    \o (IF op.prior.bin # None THEN <<"restore binary">> ELSE <<"remove binary">>)
    \o <<"drop preinstall">>
    \o (IF op.prior.unit # None THEN <<"restore unit">> ELSE <<"remove unit">>)
    \o <<"daemon-reload">>
    \o When(op.prior.unit # None, ActiveSteps(op.prior.active))
RestoreSteps ==
    <<"stop new", "disable new">>
    \o (IF op.prior.bin # None THEN <<"restore binary">> ELSE <<"remove binary">>)
    \o <<"drop preinstall">>
    \o (IF op.prior.unit # None THEN <<"restore unit">> ELSE <<"remove unit">>)
    \o <<"daemon-reload">>
    \o When(op.prior.unit # None,
            EnableSteps(op.prior.enabled) \o ActiveSteps(op.prior.active))

\* Update: the steps before a failure is undone, and those after (Defect: the
\* executable is saved after it is replaced).
SaveStepsDefect == <<"binary", "save rollback", "save marker">>
SaveSteps == When(files.bin # None, <<"save rollback", "save marker">>)
             \o <<"binary">>
RestartSteps(word) ==
    When(word = "active", <<"reset-failed", "restart", "verify">>)

\* restoreAfterFailedUpdate: it does what the marker says (Defect: in
\* the wrong order).
RecoveryStepsDefect ==
    <<"stop new">> \o RestartSteps(files.marker) \o <<"recover binary", "forget">>
RecoverySteps ==
    <<"stop new", "recover binary">> \o RestartSteps(files.marker) \o <<"forget">>

\* Rollback: it does what the marker says.
RollbackSteps ==
    When(files.marker = "active", <<"reset-failed">>)
    \o <<"set aside", "take back">>
    \o When(files.marker = "active", <<"restart", "verify">>) \o <<"forget">>

\* lifecycle and Uninstall.
LifecycleSteps(verb) ==
    CASE verb = "uninstall" -> <<"disable --now", "remove unit", "daemon-reload">>
      [] verb \in {"start", "restart"} -> <<"reset-failed", verb>>
      [] OTHER -> <<verb>>

----------------------------------------------------------------------------
(* What a step does                                                        *)

\* The service runs the executable on disk; a unit systemd has not read yet
\* is read.
Started == [systemd EXCEPT !.active = "active", !.running = files.bin,
                           !.loaded = IF @ = None THEN files.unit ELSE @]
Stopped == [systemd EXCEPT !.active = "inactive", !.running = None]

\* enable and disable end with a reload.
Linked(word) == [systemd EXCEPT !.enabled = word, !.loaded = files.unit]

\* The effect of a step on the files.
FileEffect(step) ==
    CASE step = "make leaf"       -> [files EXCEPT !.data = "root"]
      [] step = "own leaf"        -> [files EXCEPT !.data = "service"]
      [] step = "preinstall"      -> [files EXCEPT !.preinstall = files.bin]
      [] step = "binary"          -> [files EXCEPT !.bin = op.version]
      [] step = "unit"            -> [files EXCEPT !.unit = op.unit]
      [] step = "drop preinstall" -> [files EXCEPT !.preinstall = None]
      [] step = "restore binary"  -> [files EXCEPT !.bin = files.preinstall]
      [] step = "remove binary"   -> [files EXCEPT !.bin = None]
      [] step = "restore unit"    -> [files EXCEPT !.unit = op.prior.unit]
      [] step = "remove unit"     -> [files EXCEPT !.unit = None]
      [] step = "save rollback"   -> [files EXCEPT !.rollback = files.bin]
      [] step = "save marker"     -> [files EXCEPT !.marker = op.prior.active]
      [] step = "recover binary"  -> [files EXCEPT !.bin = files.rollback]
      [] step = "forget"          -> [files EXCEPT !.marker = None,
                                                   !.rollback = None]
      [] step = "set aside"       -> [files EXCEPT !.failed = files.bin,
                                                   !.bin = None]
      [] step = "take back"       -> [files EXCEPT !.bin = files.rollback,
                                                   !.rollback = None]
      [] OTHER                    -> files

\* The effect of a systemctl call (external: systemd).
SystemdEffect(step) ==
    CASE step = "daemon-reload"    -> [systemd EXCEPT !.loaded = files.unit]
      [] step = "enable"           -> Linked("enabled")
      [] step = "enable --runtime" -> Linked("enabled-runtime")
      [] step \in {"disable", "disable new"} -> Linked("disabled")
      [] step = "disable --now"    -> [Stopped EXCEPT !.enabled = "disabled"]
      [] step = "reset-failed" /\ systemd.active = "failed" -> Stopped
      [] step = "restart"          -> Started
      [] step = "start" /\ systemd.active # "active" -> Started
      [] step \in {"stop", "stop new"} -> Stopped
      [] OTHER                     -> systemd

\* Can the step succeed: a copy and a rename need their source, a systemctl
\* call the unit, a start the executable; verifyActiveAndHealthy an answer.
CanDo(step) ==
    CASE step = "restore binary" -> files.preinstall # None
      [] step = "recover binary" -> files.rollback # None
      [] step = "set aside" -> files.bin # None
      [] step \in {"start", "restart"} ->
            {systemd.loaded, files.unit} # {None} /\ files.bin # None
      [] step \in {"stop", "stop new"} -> {systemd.loaded, files.unit} # {None}
      [] step \in {"enable", "enable --runtime", "disable", "disable new",
                  "disable --now"} -> files.unit # None
      [] step = "verify" -> systemd.active = "active" /\ systemd.running \in Good
      [] OTHER -> TRUE

----------------------------------------------------------------------------
(* The commands                                                            *)

Found == [bin |-> files.bin, unit |-> files.unit, enabled |-> systemd.enabled,
          active |-> systemd.active, running |-> systemd.running]

Begin(cmd, todo, v, u) ==
    /\ op.mode \in {"ok", "failed"} /\ issued < MaxCommand
    /\ op' = [cmd |-> cmd, mode |-> "prepare", todo |-> todo,
              version |-> v, unit |-> u, prior |-> Found, errs |-> FALSE]
    /\ issued' = issued + 1 /\ left' = {}
    /\ UNCHANGED <<files, systemd, faults>>

\* InstallOptions.
Install(v, u) ==
    /\ files.unit # None => RestorableActiveWord(systemd.active)
    /\ AcceptDataDir
    /\ Begin("install", PrepareSteps(v, u), v, u)

\* Update.
Update(v) ==
    /\ files.unit # None /\ systemd.active \in {"active", "inactive", "failed"}
    /\ Begin("update", SaveSteps, v, files.unit)

\* Rollback.
Rollback ==
    /\ files.unit # None /\ files.rollback # None /\ files.marker # None
    /\ Begin("rollback", RollbackSteps, None, None)

\* lifecycle, Uninstall.
Lifecycle(verb) ==
    /\ files.unit # None
    /\ Begin(verb, LifecycleSteps(verb), None, None)

Doing == op.mode \in {"prepare", "apply", "undo"}
Step == Head(op.todo)

\* The next step succeeds.
StepDone ==
    /\ Doing /\ op.todo # <<>> /\ CanDo(Step)
    /\ files' = FileEffect(Step) /\ systemd' = SystemdEffect(Step)
    /\ op' = [op EXCEPT !.todo = Tail(@)]
    /\ UNCHANGED <<faults, issued, left>>

\* The steps that are left when one of restore's fails: the others, except
\* that an enablement that was not cleared is not set.
Remaining ==
    IF /\ Step = "disable" /\ Len(op.todo) > 1
       /\ op.todo[2] \in {"enable", "enable --runtime"}
    THEN Tail(Tail(op.todo)) ELSE Tail(op.todo)

\* Removals whose result the code ignores: the command goes on as if the file
\* were gone. Each of the two files to forget is removed by itself.
Removals == {"drop preinstall", "remove binary", "forget"}
            \cup IF op.cmd = "install" THEN {"remove unit"} ELSE {}
StepIgnored ==
    /\ Doing /\ op.todo # <<>> /\ Step \in Removals /\ faults < MaxFault
    /\ \/ files' = files
       \/ Step = "forget" /\ files' \in {[files EXCEPT !.marker = None],
                                        [files EXCEPT !.rollback = None]}
    /\ op' = [op EXCEPT !.todo = Tail(@)]
    /\ faults' = faults + 1 /\ left' = left \cup {Step}
    /\ UNCHANGED <<systemd, issued>>

\* What a failed step leaves behind: Rollback puts the executable back, Update
\* drops what it saved, cleanupLeafError removes the directory, and Rollback has
\* dropped an older failed executable; each of these may fail in its turn.
FailedFiles ==
    {files} \cup
    CASE Step = "take back" -> {[files EXCEPT !.bin = files.failed, !.failed = None]}
      [] Step = "save marker" -> {[files EXCEPT !.rollback = None]}
      [] Step = "own leaf" -> {[files EXCEPT !.data = None]}
      [] Step = "set aside" -> {[files EXCEPT !.failed = None]}
      [] OTHER -> {}

\* A restart that fails may leave the service down.
FailedSystemd ==
    {systemd} \cup IF Step \in {"start", "restart"}
                   THEN {[Stopped EXCEPT !.active = "failed"]}
                   ELSE {}

\* Where a command goes on after the failure of a step: install undoes what it
\* did and goes through with that whatever fails, update recovers and gives
\* that up at the first failure, the others report.
AfterFailure ==
    CASE op.mode = "apply" /\ op.cmd = "install" ->
            [op EXCEPT !.mode = "undo", !.todo = RestoreSteps]
      [] op.mode = "apply" /\ op.cmd = "update" /\ files.marker # None ->
            [op EXCEPT !.mode = "undo", !.todo = RecoverySteps]
      [] op.mode = "undo" /\ op.cmd = "install" ->
            [op EXCEPT !.todo = Remaining, !.errs = TRUE]
      [] OTHER -> [op EXCEPT !.mode = "failed", !.errs = op.mode # "prepare"]

StepFails ==
    /\ Doing /\ op.todo # <<>> /\ Step \notin Removals /\ faults < MaxFault
    /\ files' \in FailedFiles /\ systemd' \in FailedSystemd
    /\ op' = AfterFailure
    /\ faults' = faults + 1
    /\ UNCHANGED <<issued, left>>

\* A step that cannot succeed fails, without a fault of its own.
StepRefused ==
    /\ Doing /\ op.todo # <<>> /\ ~CanDo(Step)
    /\ files' \in FailedFiles /\ systemd' \in FailedSystemd
    /\ op' = AfterFailure
    /\ UNCHANGED <<faults, issued, left>>

\* What a command does after its preparation; Update restarts a service that
\* was active.
Then == CASE op.cmd = "install" -> ApplySteps
          [] op.cmd = "update" -> RestartSteps(op.prior.active)
          [] OTHER -> <<>>

\* The list is done. After restore or a recovery the command reports the
\* failure that led to it.
Advance ==
    /\ Doing /\ op.todo = <<>>
    /\ op' = IF op.mode = "prepare"
             THEN [op EXCEPT !.mode = "apply", !.todo = Then]
             ELSE [op EXCEPT !.mode = IF @ = "apply" THEN "ok" ELSE "failed"]
    /\ UNCHANGED <<files, systemd, faults, issued, left>>

\* The command is killed.
Killed ==
    /\ Crashes /\ Doing /\ faults < MaxFault
    /\ op' = Idle /\ faults' = faults + 1
    /\ UNCHANGED <<files, systemd, issued, left>>

\* An executable that is not good exits; systemd starts it again
\* (Restart=on-failure) until the start limit is hit.
ServiceExits ==
    /\ systemd.active = "active" /\ systemd.running \notin Good
    /\ systemd' = [Stopped EXCEPT !.active = "activating"]
    /\ UNCHANGED <<files, op, faults, issued, left>>
AutoRestart ==
    /\ systemd.active = "activating"
    /\ systemd' \in {[Stopped EXCEPT !.active = "failed"]}
                  \cup IF files.bin # None THEN {Started} ELSE {}
    /\ UNCHANGED <<files, op, faults, issued, left>>

\* runService of the CLI.
ServiceCommand ==
    \/ \E v \in Version, u \in UnitFile : Install(v, u)
    \/ \E v \in Version : Update(v)
    \/ Rollback
    \/ \E verb \in Command \ {"install", "update", "rollback"} : Lifecycle(verb)

Next ==
    \/ ServiceCommand
    \/ StepDone \/ StepIgnored \/ StepFails \/ StepRefused \/ Advance \/ Killed
    \/ ServiceExits \/ AutoRestart

Spec == Init /\ [][Next]_vars

----------------------------------------------------------------------------
(* Properties                                                              *)

\* The executable, or the unit, of a first install whose removal failed.
LeftBinary == "remove binary" \in left /\ op.prior.bin = None
LeftUnit == "remove unit" \in left /\ op.prior.unit = None

\* An install that fails and reports no incomplete rollback leaves what it
\* found: executable, unit, enablement, and activity if the executable it
\* found is one that keeps running (restore, in whatever step the failure was).
\* Two things are not so. The executable or the unit that the install has
\* written where there was none stays when its removal fails, which restore does
\* not report: the enablement is still the one found and the service is not
\* running, unless it ran without an executable on disk before and so is started
\* with the one that is left. And without a unit file the install does not look
\* at enablement and activity, which an earlier rollback may have left behind.
InstallRestores ==
    (op.cmd = "install" /\ op.mode = "failed" /\ ~op.errs)
    => /\ files.bin = op.prior.bin \/ LeftBinary
       /\ files.unit = op.prior.unit \/ LeftUnit
       /\ \/ systemd.enabled = op.prior.enabled
          \/ op.prior.unit = None /\ systemd.enabled = "disabled"
       /\ \/ systemd.active = op.prior.active
          \/ op.prior.unit = None /\ op.prior.active # "inactive"
          \/ LeftBinary /\ op.prior.active = "active"
          \/ ~({op.prior.bin, op.prior.running} \subseteq Good \cup {None})

\* An update of a healthy service ends with a healthy service unless it says
\* that the recovery failed: with the new executable when it succeeds,
\* otherwise with the one it found.
UpdateKeepsServing ==
    (/\ op.cmd = "update" /\ op.mode \in {"ok", "failed"} /\ ~op.errs
     /\ op.prior.active = "active" /\ op.prior.running = op.prior.bin
     /\ op.prior.bin \in Good)
    => /\ systemd.active = "active" /\ systemd.running = files.bin
       /\ files.bin \in Good
       /\ files.bin = IF op.mode = "ok" THEN op.version ELSE op.prior.bin

\* After an install that changed something, and after any update, a service
\* that runs executes what is on disk (restart, never start).
RunsWhatIsInstalled ==
    (/\ op.cmd \in {"install", "update"} /\ op.mode = "ok"
     /\ systemd.active = "active"
     /\ op.cmd = "install" =>
           op.prior.bin # op.version \/ op.prior.unit # op.unit)
    => /\ systemd.running = files.bin
       /\ op.cmd = "install" => systemd.loaded = files.unit

\* The executable a command found is still on disk wherever the command fails
\* or is killed: only an install that succeeds, or that says it could not
\* restore, gives it up (the order of copies, renames and removals).
VersionKept ==
    (/\ op.cmd # "none" /\ ~op.errs
     /\ ~(op.cmd = "install" /\ op.mode \in {"apply", "ok"} /\ op.todo = <<>>))
    => op.prior.bin \in {None, files.bin, files.rollback, files.failed,
                         files.preinstall}

----------------------------------------------------------------------------
(* Inductive invariants: what holds between two steps of a command          *)

\* The steps that are left, and the order of the steps of every list; a copy
\* made by an install is dropped last, in restore once it is put back.
Els(steps) == {steps[i] : i \in 1..Len(steps)}
Todo == Els(op.todo)
Rank(way, step) ==
    CASE step \in {"account", "save rollback", "stop new"} -> 1
      [] step \in {"make leaf", "chmod leaf", "save marker", "disable new"} -> 2
      [] step \in {"own leaf", "binary", "restore binary", "remove binary",
                   "recover binary"} -> 3
      [] step = "preinstall" -> 4
      [] step = "drop preinstall" -> IF way = "undo" THEN 4 ELSE 13
      [] step \in {"unit", "restore unit", "remove unit"} -> 5
      [] step = "daemon-reload" -> 6
      [] step = "disable" -> 7
      [] step \in {"enable", "enable --runtime"} -> 8
      [] step = "reset-failed" -> 9
      [] step = "set aside" -> 10
      [] step = "take back" -> 11
      [] step \in {"restart", "stop"} -> 12
      [] step = "verify" -> 13
      [] OTHER -> 14
InOrder(way, steps) ==
    \A i, j \in 1..Len(steps) : i < j => Rank(way, steps[i]) < Rank(way, steps[j])

\* A running service runs something; what each command has found.
Consistent ==
    /\ systemd.active = "active" => systemd.running # None
    /\ op.cmd = "install" => /\ op.version \in Version /\ op.unit \in UnitFile
                             /\ op.prior.unit # None =>
                                   op.prior.active \in {"active", "inactive"}
    /\ op.cmd = "update" => /\ op.version \in Version
                            /\ op.prior.active \in {"active", "inactive", "failed"}
    /\ op.cmd # "none" /\ op.prior.active = "active" => op.prior.running # None

\* A service that was stopped is; one that ran an executable that keeps running,
\* and has one to go back to, does, unless it was started with one left behind.
Kept ==
    /\ op.prior.active = "inactive" => systemd.active = "inactive"
    /\ op.prior.active = "active" /\ {op.prior.bin, op.prior.running} \subseteq Good \cup {None}
       => LeftBinary \/ (systemd.active = "active" /\ systemd.running \in Good)

InstallPreparing ==
    op.cmd = "install" /\ op.mode = "prepare" =>
    /\ Todo \subseteq {"account", "make leaf", "own leaf", "chmod leaf", "preinstall"}
    /\ InOrder("do", op.todo)
    /\ files.bin = op.prior.bin /\ files.unit = op.prior.unit
    /\ systemd.enabled = op.prior.enabled /\ Kept
    /\ Changed /\ op.prior.bin # None =>
          "preinstall" \in Todo \/ files.preinstall = op.prior.bin

\* The old executable is kept until the last step; the restart comes after the
\* executable, systemd reads the unit after it is written.
InstallApplying ==
    op.cmd = "install" /\ op.mode \in {"apply", "ok"} =>
    /\ Todo \subseteq {"binary", "unit", "daemon-reload", "disable", "enable",
                       "enable --runtime", "reset-failed", "restart", "stop",
                       "drop preinstall"}
    /\ InOrder("do", op.todo) /\ (op.mode = "ok" => Todo = {})
    /\ Todo # {} => /\ "drop preinstall" \in Todo
                    /\ op.prior.bin # None => files.preinstall = op.prior.bin
    /\ Changed =>
          /\ Todo \cap {"restart", "stop"} = {} =>
                /\ "binary" \notin Todo
                /\ systemd.active = "active" => systemd.running = files.bin
          /\ Todo \cap {"disable", "enable", "enable --runtime"} = {} =>
                /\ Todo \cap {"unit", "daemon-reload"} = {}
                /\ systemd.loaded = files.unit

\* The last step that sets the enablement, and the last that sets the activity.
LastEnable == IF op.prior.unit = None THEN "disable new"
              ELSE CASE op.prior.enabled = "enabled" -> "enable"
                     [] op.prior.enabled = "enabled-runtime" -> "enable --runtime"
                     [] OTHER -> "disable"
LastActive == IF op.prior.unit = None THEN "stop new"
              ELSE IF op.prior.active = "active" THEN "restart" ELSE "stop"

\* What restore leaves: with a unit file the enablement and the activity found.
EnableRestored ==
    systemd.enabled = IF op.prior.unit = None THEN "disabled" ELSE op.prior.enabled
ActiveRestored ==
    IF op.prior.unit = None THEN systemd.active = "inactive" ELSE Kept

InstallUndoing ==
    op.cmd = "install" /\ op.mode = "undo" =>
    /\ Todo \subseteq {"stop new", "disable new", "restore binary", "remove binary",
                       "drop preinstall", "restore unit", "remove unit",
                       "daemon-reload", "disable", "enable", "enable --runtime",
                       "reset-failed", "restart", "stop"}
    /\ InOrder("undo", op.todo)
    /\ op.prior.unit = None =>
          Todo \cap {"disable", "enable", "enable --runtime", "restart", "stop"} = {}
    /\ "enable" \in Todo => op.prior.enabled = "enabled"
    /\ "enable --runtime" \in Todo => op.prior.enabled = "enabled-runtime"
    /\ ~op.errs =>
          /\ "restore binary" \in Todo => files.preinstall = op.prior.bin
          /\ "remove binary" \in Todo => op.prior.bin = None
          /\ Todo \cap {"restore binary", "remove binary"} = {} =>
                files.bin = op.prior.bin \/ LeftBinary
          /\ "remove unit" \in Todo => op.prior.unit = None
          /\ Todo \cap {"restore unit", "remove unit"} = {} =>
                files.unit = op.prior.unit \/ LeftUnit
          /\ LastEnable \notin Todo =>
                /\ Todo \cap {"disable new", "disable", "enable", "enable --runtime"} = {}
                /\ EnableRestored
          /\ LastActive \notin Todo =>
                /\ Todo \cap {"stop new", "restart", "stop"} = {}
                /\ ActiveRestored

InstallFailed ==
    op.cmd = "install" /\ op.mode = "failed" /\ ~op.errs =>
    /\ files.bin = op.prior.bin \/ LeftBinary
    /\ files.unit = op.prior.unit \/ LeftUnit
    /\ systemd.enabled = op.prior.enabled \/ EnableRestored
    /\ Kept \/ ActiveRestored

\* The service was healthy when the update began.
Healthy == /\ op.prior.active = "active" /\ op.prior.running = op.prior.bin
           /\ op.prior.bin \in Good
Serving == /\ systemd.active = "active" /\ systemd.running = files.bin
           /\ files.bin \in Good

UpdatePreparing ==
    op.cmd = "update" /\ op.mode = "prepare" =>
    /\ Todo \subseteq {"save rollback", "save marker", "binary"}
    /\ InOrder("do", op.todo) /\ (Todo # {} => "binary" \in Todo)
    /\ files.bin = IF "binary" \in Todo THEN op.prior.bin ELSE op.version
    /\ op.prior.bin # None =>
          /\ "save rollback" \notin Todo => files.rollback = op.prior.bin
          /\ "save marker" \notin Todo => files.marker = op.prior.active
    /\ op.prior.active # "active" => systemd.active = op.prior.active
    /\ Healthy => systemd.active = "active" /\ systemd.running = op.prior.bin

UpdateApplying ==
    op.cmd = "update" /\ op.mode \in {"apply", "ok"} =>
    /\ Todo \subseteq {"reset-failed", "restart", "verify"}
    /\ InOrder("do", op.todo) /\ (op.mode = "ok" => Todo = {})
    /\ files.bin = op.version
    /\ op.prior.bin # None => /\ files.rollback = op.prior.bin
                              /\ files.marker = op.prior.active
    /\ op.prior.active # "active" => systemd.active = op.prior.active /\ Todo = {}
    /\ op.prior.active = "active" =>
          /\ "restart" \notin Todo /\ systemd.active = "active" =>
                systemd.running = files.bin
          /\ "verify" \notin Todo => Todo = {} /\ Serving

UpdateUndoing ==
    op.cmd = "update" /\ op.mode = "undo" =>
    /\ Todo \subseteq {"stop new", "recover binary", "reset-failed", "restart", "verify",
                       "forget"}
    /\ InOrder("undo", op.todo)
    /\ op.prior.bin # None =>
          /\ IF "recover binary" \in Todo THEN files.rollback = op.prior.bin
             ELSE files.bin = op.prior.bin
          /\ op.prior.active = "active" =>
                /\ "restart" \notin Todo =>
                      /\ "recover binary" \notin Todo /\ "stop new" \notin Todo
                      /\ systemd.active = "active" => systemd.running = files.bin
                /\ "verify" \notin Todo => Todo \subseteq {"forget"} /\ Serving

UpdateFailed ==
    op.cmd = "update" /\ op.mode = "failed" /\ ~op.errs =>
    /\ op.prior.bin # None => files.bin = op.prior.bin
    /\ Healthy => Serving

RollingBack ==
    op.cmd = "rollback" =>
    /\ op.mode \in {"prepare", "apply", "ok"} =>
          /\ Todo \subseteq {"reset-failed", "set aside", "take back", "restart", "verify",
                             "forget"}
          /\ InOrder("do", op.todo) /\ (op.mode # "prepare" => Todo = {})
          /\ IF "set aside" \in Todo THEN files.bin = op.prior.bin
             ELSE files.failed = op.prior.bin
    /\ op.mode = "failed" => op.prior.bin \in {files.bin, files.failed}
    /\ op.mode # "undo"

Managing ==
    op.cmd \notin {"none", "install", "update", "rollback"} =>
    /\ Todo \subseteq {"disable --now", "remove unit", "daemon-reload", "reset-failed",
                       "start", "restart", "stop", "enable", "disable"}
    /\ op.mode \in {"apply", "ok"} => op.todo = <<>>
    /\ files.bin = op.prior.bin /\ op.mode # "undo"

IInv ==
    /\ TypeOK /\ Consistent
    /\ InstallPreparing /\ InstallApplying /\ InstallUndoing /\ InstallFailed
    /\ UpdatePreparing /\ UpdateApplying /\ UpdateUndoing /\ UpdateFailed
    /\ RollingBack /\ Managing

=============================================================================
