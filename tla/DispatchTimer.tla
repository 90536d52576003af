--------------------------- MODULE DispatchTimer ---------------------------
(***************************************************************************)
(* The dispatch timer of a machine: flowgency/dispatch/install.py, with the *)
(* pages and commands that install, repair and remove it.  A user has one   *)
(* timer, and every Flowgency configuration may try to own it.              *)
(*                                                                         *)
(* The definition is what the files (or the scheduled task) say: service is *)
(* the configuration it starts, unit its interval.  loaded is what the      *)
(* platform really runs.  Nothing locks the timer: the operations of two    *)
(* administrators interleave at every file and every command.               *)
(***************************************************************************)
EXTENDS Naturals

CONSTANTS
  Admins,         \* processes that administer the timer (servers, commands)
  Configs,        \* configuration files
  Intervals,      \* dispatch intervals within 5 .. 120 minutes
  Default,        \* the interval of a configuration that sets none
  Absent,         \* no file, no timer
  Torn,           \* a property list that was only partly written
  Platforms,      \* the platforms explored: linux, macos, windows
  OverlapOn,      \* platforms on which two installations may overlap
  LateInterrupts, \* an update may stop between its files and their reload
  IgnoredErrors,  \* a stop command may fail; its exit code is not read
  MaxInterrupts   \* bound on operations that fail or die half way

ASSUME TimerAssumption ==
  /\ Platforms \subseteq {"linux", "macos", "windows"} /\ OverlapOn \subseteq Platforms
  /\ Default \in Intervals /\ Absent \notin Configs \cup Intervals
  /\ Torn \notin Configs \cup {Absent}
  /\ {LateInterrupts, IgnoredErrors} \subseteq BOOLEAN /\ MaxInterrupts \in Nat

VARIABLES
  platform,   \* detect_platform()
  service,    \* the configuration the definition names
  unit,       \* the interval the definition names
  loaded,     \* the timer that runs: [config, interval], or Absent
  interval,   \* interval[c]: the dispatch interval configuration c asks for
  ops,        \* ops[a]: the operation of administrator a
  interrupts  \* operations that failed or died half way

timerVars == <<platform, service, unit, loaded, interval, ops, interrupts>>

Idle ==
  [pc |-> "idle", kind |-> "none", config |-> Absent, interval |-> Absent,
   approved |-> FALSE]

Operation(kind, c, i, approved) ==
  [pc |-> "approve", kind |-> kind, config |-> c, interval |-> i,
   approved |-> approved]

(***************************************************************************)
(* Status, as read from the definition and from the platform's own state    *)
(***************************************************************************)
\* Either file alone is an installed timer.
LinuxStatus ==
  [installed |-> service # Absent \/ unit # Absent, config |-> service,
   interval |-> unit, active |-> loaded # Absent]

\* A property list that cannot be read names nothing.
MacStatus ==
  [installed |-> service # Absent,
   config |-> IF service = Torn THEN Absent ELSE service,
   interval |-> IF service = Torn THEN Absent ELSE unit,
   active |-> service # Torn /\ loaded # Absent]

\* The task is its own definition.
WindowsStatus ==
  [installed |-> service # Absent, config |-> service, interval |-> unit,
   active |-> loaded # Absent]

Status ==
  CASE platform = "linux"   -> LinuxStatus
    [] platform = "macos"   -> MacStatus
    [] platform = "windows" -> WindowsStatus

ConfigConflict(c) == Status.installed /\ Status.config \notin {Absent, c}

TimerState(c, i) ==
  IF Status.installed /\ (Status.config # c \/ Status.interval # i) THEN "misconfigured"
  ELSE IF Status.installed /\ Status.active THEN "active"
  ELSE "inactive"

-----------------------------------------------------------------------------
TimerInit ==
  /\ platform \in Platforms
  /\ service = Absent
  /\ unit = Absent
  /\ loaded = Absent
  /\ interval = [c \in Configs |-> Default]
  /\ ops = [a \in Admins |-> Idle]
  /\ interrupts = 0

\* Administrator a may begin: installations overlap where OverlapOn says so,
\* and a removal runs alone.
MayBegin(a, kind) ==
  \A b \in Admins \ {a} :
    ops[b].pc # "idle" =>
      platform \in OverlapOn /\ "remove" \notin {kind, ops[b].kind}

Begin(a, op) ==
  /\ ops[a].pc = "idle" /\ MayBegin(a, op.kind)
  /\ ops' = [ops EXCEPT ![a] = op]
  /\ UNCHANGED <<platform, service, unit, loaded, interrupts>>

\* The settings page writes the interval and repairs a timer that is there.
SaveSettings(a, c, i) ==
  /\ Begin(a, Operation("repair", c, i, FALSE))
  /\ interval' = [interval EXCEPT ![c] = i]

\* The dispatch page installs with the configured interval.
InstallDispatch(a, c, approved) ==
  /\ Begin(a, Operation("install", c, interval[c], approved))
  /\ UNCHANGED interval

\* `dispatch install --interval` writes the interval first.
CommandInstall(a, c, i, approved) ==
  /\ Begin(a, Operation("install", c, i, approved))
  /\ interval' = [interval EXCEPT ![c] = i]

CommandUninstall(a, c, approved) ==
  /\ Begin(a, Operation("remove", c, Default, approved))
  /\ UNCHANGED interval

\* The first and the following steps of an operation on this platform.
FirstStep(kind) ==
  CASE platform = "linux"   -> IF kind = "remove" THEN "disable" ELSE "service"
    [] platform = "macos"   -> IF service # Absent THEN "unload" ELSE "plist"
    [] platform = "windows" -> IF kind = "remove" THEN "delete" ELSE "register"

\* Mutant: an installation does not look whose timer it is.
RefusedNever(a) == ops[a].kind # "install" /\ ~Status.installed

\* Another configuration's timer is kept unless the caller approved; a repair
\* and a removal have nothing to do when there is no timer.
Refused(a) ==
  \/ ConfigConflict(ops[a].config) /\ ~ops[a].approved
  \/ ops[a].kind # "install" /\ ~Status.installed

Goto(a, pc) == ops' = [ops EXCEPT ![a] = IF pc = "idle" THEN Idle ELSE [@ EXCEPT !.pc = pc]]

\* install_timer and uninstall_timer up to the platform's own code.
Approve(a) ==
  /\ ops[a].pc = "approve"
  /\ Goto(a, IF Refused(a) THEN "idle" ELSE FirstStep(ops[a].kind))
  /\ UNCHANGED <<platform, service, unit, loaded, interval, interrupts>>

Definition(a) == [config |-> ops[a].config, interval |-> ops[a].interval]

OnDisk == [config |-> service, interval |-> unit]

(***************************************************************************)
(* systemd                                                                 *)
(***************************************************************************)
WriteService(a) ==
  /\ ops[a].pc = "service"
  /\ service' = ops[a].config
  /\ Goto(a, "timer")
  /\ UNCHANGED <<platform, unit, loaded, interval, interrupts>>

WriteTimer(a) ==
  /\ ops[a].pc = "timer"
  /\ unit' = ops[a].interval
  /\ Goto(a, "reload")
  /\ UNCHANGED <<platform, service, loaded, interval, interrupts>>

\* Mutant: the manager is not told about the new files.
DaemonReloadSkipped(a) ==
  /\ ops[a].pc = "reload"
  /\ Goto(a, "enable")
  /\ UNCHANGED <<platform, service, unit, loaded, interval, interrupts>>

\* A running timer follows the files from here on.
DaemonReload(a) ==
  /\ ops[a].pc = "reload"
  /\ loaded' = IF loaded = Absent THEN Absent ELSE OnDisk
  /\ Goto(a, "enable")
  /\ UNCHANGED <<platform, service, unit, interval, interrupts>>

\* enable --now starts a timer that does not run.
Enable(a) ==
  /\ ops[a].pc = "enable"
  /\ loaded' = IF loaded = Absent THEN OnDisk ELSE loaded
  /\ Goto(a, "idle")
  /\ UNCHANGED <<platform, service, unit, interval, interrupts>>

Disable(a) ==
  /\ ops[a].pc = "disable"
  /\ loaded' \in {Absent} \cup (IF IgnoredErrors THEN {loaded} ELSE {})
  /\ Goto(a, "no timer")
  /\ UNCHANGED <<platform, service, unit, interval, interrupts>>

RemoveTimer(a) ==
  /\ ops[a].pc = "no timer"
  /\ unit' = Absent
  /\ Goto(a, "no service")
  /\ UNCHANGED <<platform, service, loaded, interval, interrupts>>

RemoveService(a) ==
  /\ ops[a].pc = "no service"
  /\ service' = Absent
  /\ Goto(a, "idle")
  /\ UNCHANGED <<platform, unit, loaded, interval, interrupts>>

(***************************************************************************)
(* launchd and the Windows task scheduler                                  *)
(***************************************************************************)
Unload(a) ==
  /\ ops[a].pc = "unload"
  /\ loaded' \in {Absent} \cup (IF IgnoredErrors THEN {loaded} ELSE {})
  /\ Goto(a, IF ops[a].kind = "remove" THEN "no plist" ELSE "plist")
  /\ UNCHANGED <<platform, service, unit, interval, interrupts>>

WritePlist(a) ==
  /\ ops[a].pc = "plist"
  /\ service' = ops[a].config
  /\ unit' = ops[a].interval
  /\ Goto(a, "load")
  /\ UNCHANGED <<platform, loaded, interval, interrupts>>

\* A label that is loaded already is not loaded again.
Load(a) ==
  /\ ops[a].pc = "load"
  /\ loaded' = IF loaded = Absent THEN OnDisk ELSE loaded
  /\ Goto(a, "idle")
  /\ UNCHANGED <<platform, service, unit, interval, interrupts>>

RemovePlist(a) ==
  /\ ops[a].pc = "no plist"
  /\ service' = Absent
  /\ unit' = Absent
  /\ Goto(a, "idle")
  /\ UNCHANGED <<platform, loaded, interval, interrupts>>

\* One call replaces the task's action and its trigger.
RegisterTask(a) ==
  /\ ops[a].pc = "register"
  /\ service' = ops[a].config
  /\ unit' = ops[a].interval
  /\ loaded' = Definition(a)
  /\ Goto(a, "idle")
  /\ UNCHANGED <<platform, interval, interrupts>>

DeleteTask(a) ==
  /\ ops[a].pc = "delete"
  /\ service' = Absent
  /\ unit' = Absent
  /\ loaded' = Absent
  /\ Goto(a, "idle")
  /\ UNCHANGED <<platform, interval, interrupts>>

(***************************************************************************)
(* Failures.  A command that raises ends the operation as a death does: the *)
(* steps it made stay.                                                      *)
(***************************************************************************)
Interrupted(a) ==
  /\ ops[a].pc # "idle" /\ interrupts < MaxInterrupts
  /\ LateInterrupts \/ loaded = Absent \/ ops[a].pc \notin {"timer", "reload", "load"}
  /\ interrupts' = interrupts + 1
  /\ Goto(a, "idle")
  /\ UNCHANGED <<platform, unit, loaded, interval>>
  /\ \/ UNCHANGED service
     \/ ops[a].pc = "plist" /\ service' = Torn

TimerStep(a) ==
  \/ Approve(a) \/ WriteService(a) \/ WriteTimer(a) \/ DaemonReload(a) \/ Enable(a)
  \/ Disable(a) \/ RemoveTimer(a) \/ RemoveService(a)
  \/ Unload(a) \/ WritePlist(a) \/ Load(a) \/ RemovePlist(a)
  \/ RegisterTask(a) \/ DeleteTask(a)

TimerNext ==
  \E a \in Admins :
    \/ \E c \in Configs, i \in Intervals : SaveSettings(a, c, i)
    \/ \E c \in Configs, approved \in BOOLEAN :
         InstallDispatch(a, c, approved) \/ CommandUninstall(a, c, approved)
    \/ \E c \in Configs, i \in Intervals, approved \in BOOLEAN :
         CommandInstall(a, c, i, approved)
    \/ TimerStep(a)
    \/ Interrupted(a)

\* The platform starts cycles of configuration c.
TimerRuns(c) == loaded # Absent /\ loaded.config = c

-----------------------------------------------------------------------------
(***************************************************************************)
(* Properties                                                              *)
(***************************************************************************)
\* Between operations, a dispatcher that is shown active for a configuration
\* starts the cycles of that configuration at the interval it asks for: no
\* interleaving of two installations and no operation that failed or died half
\* way leaves files that say so while another timer runs.
StatusTellsTruth ==
  (\A a \in Admins : ops[a].pc = "idle") =>
    \A c \in Configs :
      TimerState(c, interval[c]) = "active" =>
        loaded = [config |-> c, interval |-> interval[c]]

\* An operation without approval goes ahead only while no other configuration's
\* timer runs, whatever earlier operations left behind in the definition it is
\* judged by (operations that overlap this one are left out: nothing locks the
\* timer, and their race can be lost).
NoSilentTakeover ==
  [][\A a \in Admins :
       (/\ ops[a].pc = "approve" /\ ~ops[a].approved
        /\ \A b \in Admins \ {a} : ops[b].pc = "idle"
        /\ ops'[a].pc \notin {"approve", "idle"})
       => \A c \in Configs \ {ops[a].config} : ~TimerRuns(c)]_timerVars
=============================================================================
