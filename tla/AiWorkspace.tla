----------------------------- MODULE AiWorkspace -----------------------------
(***************************************************************************)
(* lib/api/ai_workspace/service.dart and the page that drives it           *)
(* (screens/ai_workspace_screen.dart), for one tool: install, start, stop, *)
(* uninstall and the status probe, all asynchronous calls on one card.     *)
(* The page keeps its busy flag to itself and loses it when it is left; the*)
(* service only remembers that an install runs.  A call asks the workspace *)
(* in one step and writes its answer to the card in a later one.           *)
(***************************************************************************)
EXTENDS Naturals, FiniteSets

CONSTANTS
  Calls,   \* calls of the service that may be in progress together
  Gated,   \* the tool runs in a container with a health gate (Open WebUI)
  None

Statuses == {"notInstalled", "stopped", "starting", "running", "error"}

(* What is really there: nothing, a stopped tool, one still migrating, one *)
(* that serves.                                                            *)
Worlds == {"absent", "down", "migrating", "up"}

ASSUME WorkspaceAssumption ==
  /\ Gated \in BOOLEAN
  /\ None \notin Statuses

VARIABLES
  card,        \* ToolState: status, errorMessage, errorSticky, checked
  cache,       \* the persisted status, or None
  world,       \* the tool itself
  installing,  \* the tool is in _installing
  calls,       \* the calls in progress
  page         \* open, _busyTools, _busyAction, _checkingTools, the two timers

vars == <<card, cache, world, installing, calls, page>>

Free == [kind |-> "none", pc |-> "", seen |-> "-", own |-> FALSE, old |-> {}]
Closed == [open |-> FALSE, busy |-> FALSE, action |-> "", checking |-> FALSE,
           installWatch |-> FALSE, startingWatch |-> FALSE]

(* seedToolStates                                                          *)
Seeded(c) == [status |-> IF c = None THEN "notInstalled" ELSE c,
              err |-> "none", sticky |-> FALSE, checked |-> FALSE]

Init ==
  /\ cache \in {None, "notInstalled", "stopped", "starting", "running"}
  /\ card = Seeded(cache)
  /\ world \in IF Gated THEN Worlds ELSE Worlds \ {"migrating"}
  /\ installing = FALSE
  /\ calls = [c \in Calls |-> Free]
  /\ page = Closed
-----------------------------------------------------------------------------
(* clearError: a user action takes the card back from a sticky failure.    *)
Cleared ==
  [card EXCEPT !.err = "none", !.sticky = FALSE,
               !.status = IF @ # "error" THEN @
                          ELSE IF cache \in {None, "error"} THEN "notInstalled"
                          ELSE cache]

(* _recordActionFailure                                                    *)
Failed == [card EXCEPT !.status = "error", !.err = "action", !.sticky = TRUE]

(* A call gives way to its next step; `old` (history) notes what the others*)
(* have been out since before.                                             *)
Goes(c, pc, seen) == calls' = [calls EXCEPT ![c].pc = pc, ![c].seen = seen]
Ages(c, event, mine) ==
  calls' = [o \in Calls |->
              IF o = c THEN mine
              ELSE IF calls[o].kind = "none" THEN calls[o]
              ELSE [calls[o] EXCEPT !.old = @ \cup {event}]]
Begun(kind, pc, own) ==
  [kind |-> kind, pc |-> pc, seen |-> "-", own |-> own, old |-> {}]
Begins(c, kind, pc, own) ==
  /\ calls[c].kind = "none"
  /\ calls' = [calls EXCEPT ![c] = Begun(kind, pc, own)]

(* The handler's `finally`: only the page that pressed the button is told. *)
Released(c, action) ==
  IF calls[c].own THEN [page EXCEPT !.busy = FALSE, !.action = action] ELSE page

(* _syncStartingWatch                                                      *)
Synced(p, k) ==
  IF p.open THEN [p EXCEPT !.startingWatch = (k.status = "starting")] ELSE p

(* A call that ends in failure: it goes, the card says so until the user   *)
(* acts.  _handleStart forgets _busyAction.                                *)
FailureEnds(c) ==
  /\ card' = Failed
  /\ Ages(c, "failure", Free)
  /\ page' = LET a == IF calls[c].kind = "start" THEN page.action ELSE ""
             IN  Released(c, a)

(* Mutant: an install in flight does not keep the probe away.              *)
MayProbeAlways == ~card.sticky
(* Mutant: a failure the user has not read does not.                       *)
MayProbeFailed == ~installing

(* refreshStatus: what it asks itself before its first await.              *)
MayProbe == ~installing /\ ~card.sticky

(*************************** the page **************************************)
(* initState and _initService: whatever was not checked yet is probed.     *)
Open(c) ==
  /\ ~page.open
  /\ page' = Synced([Closed EXCEPT !.open = TRUE,
                       !.checking = (cache = None /\ ~card.checked),
                       !.installWatch = installing], card)
  /\ UNCHANGED <<cache, world, installing>>
  /\ IF card.checked \/ ~MayProbe
       THEN /\ card' = IF card.sticky THEN [card EXCEPT !.checked = TRUE] ELSE card
            /\ UNCHANGED calls
       ELSE Begins(c, "probe", "look", TRUE) /\ UNCHANGED card

LeavePage ==
  /\ page.open
  /\ page' = Closed
  /\ calls' = [c \in Calls |-> [calls[c] EXCEPT !.own = FALSE]]
  /\ UNCHANGED <<card, cache, world, installing>>

Enabled == page.open /\ ~page.busy /\ ~installing
Pressed(action) == [page EXCEPT !.busy = TRUE, !.action = action]

(* Mutant: the page alone knows that an install runs.                      *)
MarkNothing == installing' = FALSE
MarkInstalling == installing' = TRUE

PressInstall(c) ==
  /\ Enabled /\ ~page.checking
  /\ card.status \in {"notInstalled", "error"}
  /\ calls[c].kind = "none"
  /\ card' = Cleared
  /\ MarkInstalling
  /\ Ages(c, "install", Begun("install", "prepare", TRUE))
  /\ page' = [Pressed("install") EXCEPT !.installWatch = TRUE]
  /\ UNCHANGED <<cache, world>>

PressStart(c) ==
  /\ Enabled /\ ~page.checking
  /\ card.status = "stopped"
  /\ Begins(c, "start", IF Gated THEN "prepare" ELSE "ask", TRUE)
  /\ card' = Cleared
  /\ page' = Pressed("start")
  /\ UNCHANGED <<cache, world, installing>>

PressStop(c) ==
  /\ Enabled
  /\ card.status \in {"running", "starting"}
  /\ Begins(c, "stop", "ask", TRUE)
  /\ card' = Cleared
  /\ page' = Pressed("stop")
  /\ UNCHANGED <<cache, world, installing>>

(* uninstall() stops a running tool first.                                 *)
PressUninstall(c) ==
  /\ Enabled /\ ~page.checking
  /\ card.status # "notInstalled"
  /\ Begins(c, "uninstall", IF card.status = "running" THEN "askStop" ELSE "ask", TRUE)
  /\ card' = Cleared
  /\ page' = Pressed("uninstall")
  /\ UNCHANGED <<cache, world, installing>>

(* The dismiss button of a failed card: clear, then ask.                   *)
PressDismiss(c) ==
  /\ page.open /\ card.err # "none"
  /\ card' = Cleared
  /\ IF installing
       THEN UNCHANGED <<calls, page>>
       ELSE /\ Begins(c, "probe", "look", TRUE)
            /\ page' = [page EXCEPT !.checking = TRUE]
  /\ UNCHANGED <<cache, world, installing>>

(* cancelInstall: the child is killed the way a timeout kills it.          *)
PressCancel(c) ==
  /\ page.open
  /\ calls[c].kind = "install"
  /\ calls[c].pc \in {"run", "killed", "exited"}
  /\ calls[c].seen # "cancelled"
  /\ Goes(c, IF calls[c].pc = "run" THEN "killed" ELSE calls[c].pc, "cancelled")
  /\ UNCHANGED <<card, cache, world, installing, page>>

(* The timer of _syncInstallWatch: an install that ended is looked at.     *)
InstallWatchTick(c) ==
  /\ page.open /\ page.installWatch /\ ~installing
  /\ IF ~MayProbe
       THEN /\ card' = [card EXCEPT !.checked = TRUE]
            /\ page' = Synced([page EXCEPT !.installWatch = FALSE], card)
            /\ UNCHANGED calls
       ELSE /\ Begins(c, "watch", "look", TRUE)
            /\ page' = [page EXCEPT !.installWatch = FALSE]
            /\ UNCHANGED card
  /\ UNCHANGED <<cache, world, installing>>

(* The timer of _syncStartingWatch.                                        *)
StartingTick(c) ==
  /\ page.open /\ page.startingWatch
  /\ IF card.status = "starting"
       THEN MayProbe /\ Begins(c, "watch", "look", TRUE) /\ UNCHANGED page
       ELSE page' = [page EXCEPT !.startingWatch = FALSE] /\ UNCHANGED calls
  /\ UNCHANGED <<card, cache, world, installing>>
-----------------------------------------------------------------------------
(***************************** the probe ***********************************)
(* _runInitialCheck, at startup, with no page to tell.                     *)
StartupProbe(c) ==
  /\ ~card.checked
  /\ MayProbe
  /\ Begins(c, "watch", "look", FALSE)
  /\ UNCHANGED <<card, cache, world, installing, page>>

Truth == CASE world = "absent" -> "notInstalled"
           [] world = "down" -> "stopped"
           [] world = "migrating" -> "starting"
           [] world = "up" -> "running"

(* The workspace answers the combined check ...                            *)
Look(c) ==
  /\ calls[c].pc = "look"
  /\ Goes(c, "seen", Truth)
  /\ UNCHANGED <<card, cache, world, installing, page>>

(* ... or fails to: an error, a timeout, a docker daemon that is down.  An *)
(* error that speaks of a missing distribution counts as an answer.        *)
LooksInVain(c) ==
  /\ calls[c].pc = "look"
  /\ \E e \in {"error", "lost", "notInstalled"}: Goes(c, "seen", e)
  /\ UNCHANGED <<card, cache, world, installing, page>>

(* What a probe writes, however long ago it asked.                         *)
Tell(c) ==
  /\ calls[c].pc = "seen"
  /\ LET s == calls[c].seen
     IN  IF s = "lost"
           THEN /\ card' = [card EXCEPT !.err = "plain", !.checked = TRUE]
                /\ UNCHANGED cache
           ELSE IF s = "error"
           THEN /\ card' = [card EXCEPT !.status = "error", !.err = "plain", !.checked = TRUE]
                /\ UNCHANGED cache
           ELSE /\ card' = [card EXCEPT !.status = s, !.err = "none", !.checked = TRUE]
                /\ cache' = s
  /\ calls' = [calls EXCEPT ![c] = Free]
  /\ page' = IF ~calls[c].own THEN page
             ELSE CASE calls[c].kind = "probe" -> Synced([page EXCEPT !.checking = FALSE], card')
                    [] calls[c].kind = "watch" -> Synced(page, card')
                    [] calls[c].kind = "start" -> Synced(Released(c, page.action), card')
                    [] calls[c].kind = "uninstall" -> Released(c, "")
  /\ UNCHANGED <<world, installing>>
-----------------------------------------------------------------------------
(********************* start, stop and uninstall ***************************)
(* _ensureDockerReady                                                      *)
Prepare(c) ==
  /\ calls[c].pc = "prepare"
  /\ \/ /\ Goes(c, IF calls[c].kind = "install" THEN "run" ELSE "ask", "-")
        /\ UNCHANGED <<card, installing, page>>
     \/ /\ FailureEnds(c)
        /\ installing' = (installing /\ calls[c].kind # "install")
  /\ UNCHANGED <<cache, world>>

(* The command has its effect, or not.                                     *)
Ask(c) ==
  /\ calls[c].pc \in {"ask", "askStop"}
  /\ LET stops == calls[c].kind = "stop" \/ calls[c].pc = "askStop"
         next == IF calls[c].pc = "ask" THEN "answer" ELSE "answerStop"
     IN  \/ /\ calls[c].kind = "start"
            /\ Gated \/ world # "absent"
            /\ world' = IF world = "up" THEN "up"
                        ELSE IF Gated THEN "migrating" ELSE "up"
            /\ Goes(c, next, "ok")
         \/ /\ stops
            /\ world' = IF world = "absent" THEN "absent" ELSE "down"
            /\ Goes(c, next, "ok")
         \/ /\ calls[c].kind = "uninstall" /\ ~stops
            /\ world' = "absent"
            /\ Goes(c, next, "ok")
         \/ Goes(c, next, "fail") /\ UNCHANGED world
  /\ UNCHANGED <<card, cache, installing, page>>

StartAnswers(c) ==
  /\ calls[c].kind = "start" /\ calls[c].pc = "answer" /\ calls[c].seen = "ok"
  /\ card' = [card EXCEPT !.status = "running", !.err = "none", !.sticky = FALSE,
                          !.checked = TRUE]
  /\ cache' = "running"
  /\ IF Gated /\ ~installing
       THEN Goes(c, "look", "-") /\ UNCHANGED page
       ELSE /\ calls' = [calls EXCEPT ![c] = Free]
            /\ page' = IF calls[c].own
                       THEN Synced(Released(c, page.action), card') ELSE page
  /\ UNCHANGED <<world, installing>>

Stopped == [card EXCEPT !.status = "stopped", !.err = "none", !.checked = TRUE]

StopAnswers(c) ==
  /\ calls[c].kind = "stop" /\ calls[c].pc = "answer" /\ calls[c].seen = "ok"
  /\ card' = Stopped
  /\ cache' = "stopped"
  /\ calls' = [calls EXCEPT ![c] = Free]
  /\ page' = Released(c, "")
  /\ UNCHANGED <<world, installing>>

(* start and stop end the same way when they fail.                         *)
Refused(c) ==
  /\ calls[c].kind \in {"start", "stop"} /\ calls[c].pc = "answer" /\ calls[c].seen = "fail"
  /\ FailureEnds(c)
  /\ UNCHANGED <<cache, world, installing>>

(* uninstall: the stop it began with is over, well or not; clearError.     *)
UninstallStopped(c) ==
  /\ calls[c].pc = "answerStop"
  /\ IF calls[c].seen = "ok"
       THEN card' = [Stopped EXCEPT !.sticky = FALSE] /\ cache' = "stopped"
       ELSE /\ card' = [card EXCEPT !.err = "none", !.sticky = FALSE,
                          !.status = IF cache \in {None, "error"} THEN "notInstalled" ELSE cache]
            /\ UNCHANGED cache
  /\ Goes(c, "ask", "-")
  /\ UNCHANGED <<world, installing, page>>

UninstallAnswers(c) ==
  /\ calls[c].kind = "uninstall" /\ calls[c].pc = "answer"
  /\ IF calls[c].seen = "ok"
       THEN /\ card' = [card EXCEPT !.status = "notInstalled",
                          !.checked = @ \/ (card.sticky /\ ~installing)]
            /\ IF MayProbe THEN Goes(c, "look", "-") /\ UNCHANGED page
               ELSE /\ calls' = [calls EXCEPT ![c] = Free]
                    /\ page' = Released(c, "")
       ELSE /\ card' = [card EXCEPT !.err = "plain"]
            /\ calls' = [calls EXCEPT ![c] = Free]
            /\ page' = Released(c, "")
  /\ UNCHANGED <<cache, world, installing>>
-----------------------------------------------------------------------------
(***************************** install *************************************)
(* Mutant: no ceiling, and an installer that prints is never abandoned.    *)
NeverAbandon(c) == FALSE /\ UNCHANGED vars

(* The silence timer or the ceiling: abandon() kills the child.            *)
Abandon(c) ==
  /\ calls[c].kind = "install" /\ calls[c].pc = "run"
  /\ Goes(c, "killed", "late")
  /\ UNCHANGED <<card, cache, world, installing, page>>

(* The child is gone, of itself or killed, done or not.                    *)
InstallerExits(c) ==
  /\ calls[c].kind = "install" /\ calls[c].pc \in {"run", "killed"}
  /\ \E done \in BOOLEAN:
       /\ Goes(c, "exited", IF calls[c].seen # "-" THEN calls[c].seen
                            ELSE IF done THEN "ok" ELSE "fail")
       /\ world' = IF ~done THEN world
                   ELSE IF Gated THEN "migrating"
                   ELSE IF world = "absent" THEN "down" ELSE world
  /\ UNCHANGED <<card, cache, installing, page>>

(* A cancelled install leaves the card on "not installed".                 *)
InstallCancelled(c) ==
  /\ calls[c].pc = "exited" /\ calls[c].seen = "cancelled"
  /\ card' = [Cleared EXCEPT !.status = "notInstalled"]
  /\ installing' = FALSE
  /\ calls' = [calls EXCEPT ![c] = Free]
  /\ page' = Released(c, "")
  /\ UNCHANGED <<cache, world>>

InstallFails(c) ==
  /\ calls[c].pc = "exited" /\ calls[c].seen \in {"fail", "late"}
  /\ FailureEnds(c)
  /\ installing' = FALSE
  /\ UNCHANGED <<cache, world>>

InstallSucceeds(c) ==
  /\ calls[c].pc = "exited" /\ calls[c].seen = "ok"
  /\ card' = [card EXCEPT !.status = "stopped", !.err = "none", !.sticky = FALSE,
                          !.checked = TRUE]
  /\ cache' = "stopped"
  /\ Goes(c, "hook", "ok")
  /\ UNCHANGED <<world, installing, page>>

(* onInstalled returns or throws; either way the install is over.          *)
HookReturns(c) ==
  /\ calls[c].pc = "hook"
  /\ installing' = FALSE
  /\ calls' = [calls EXCEPT ![c] = Free]
  /\ page' = Released(c, "")
  /\ UNCHANGED <<card, cache, world>>
-----------------------------------------------------------------------------
(* The tool by itself: it comes up, or it dies.                            *)
Migrated ==
  /\ world = "migrating" /\ world' = "up"
  /\ UNCHANGED <<card, cache, installing, calls, page>>
ToolDies ==
  /\ world \in {"migrating", "up"} /\ world' = "down"
  /\ UNCHANGED <<card, cache, installing, calls, page>>

(* The application is closed and started again.                            *)
Restart ==
  /\ card' = Seeded(cache)
  /\ installing' = FALSE
  /\ calls' = [c \in Calls |-> Free]
  /\ page' = Closed
  /\ UNCHANGED <<cache, world>>

User(c) ==
  \/ Open(c) \/ PressInstall(c) \/ PressStart(c) \/ PressStop(c)
  \/ PressUninstall(c) \/ PressDismiss(c) \/ PressCancel(c)
Timers(c) == InstallWatchTick(c) \/ StartingTick(c) \/ StartupProbe(c) \/ Abandon(c)
Progress(c) ==
  \/ Tell(c) \/ Prepare(c) \/ Ask(c) \/ StartAnswers(c) \/ StopAnswers(c)
  \/ Refused(c) \/ UninstallStopped(c) \/ UninstallAnswers(c)
  \/ InstallCancelled(c) \/ InstallFails(c) \/ InstallSucceeds(c) \/ HookReturns(c)

Next ==
  \/ \E c \in Calls: User(c) \/ Timers(c) \/ Progress(c) \/ Look(c) \/ LooksInVain(c)
                     \/ InstallerExits(c)
  \/ LeavePage \/ Migrated \/ ToolDies \/ Restart

Spec == Init /\ [][Next]_vars

Killed(c) == calls[c].pc = "killed" /\ InstallerExits(c)

(* Calls answer, timers fire, a killed child dies.                         *)
CallFairness ==
  \A c \in Calls: WF_vars(Progress(c) \/ Abandon(c) \/ Killed(c))

CallsSpec == Spec /\ CallFairness
-----------------------------------------------------------------------------
Kinds == {"none", "install", "start", "stop", "uninstall", "probe", "watch"}
Seen == {"-", "ok", "fail", "late", "cancelled", "lost"} \cup Statuses
Pcs == {"", "look", "seen", "prepare", "ask", "askStop", "answer", "answerStop",
        "run", "killed", "exited", "hook"}

TypeOK ==
  /\ card \in [status: Statuses, err: {"none", "plain", "action"},
               sticky: BOOLEAN, checked: BOOLEAN]
  /\ cache \in (Statuses \ {"error"}) \cup {None}
  /\ world \in Worlds
  /\ installing \in BOOLEAN
  /\ calls \in [Calls -> [kind: Kinds, pc: Pcs, seen: Seen, own: BOOLEAN,
                          old: SUBSET {"failure", "install"}]]
  /\ page \in [open: BOOLEAN, busy: BOOLEAN,
               action: {"", "install", "start", "stop", "uninstall"},
               checking: BOOLEAN, installWatch: BOOLEAN, startingWatch: BOOLEAN]

Before(c, event) == event \in calls[c].old

(* A failed action stays on the card until the user acts again: only a call*)
(* that was out when it failed can still write over it (service.dart:525). *)
FailureKept ==
  [][card.sticky /\ card'.sticky =>
       \/ card'.status = card.status /\ card'.err = card.err
       \/ \E c \in Calls: Before(c, "failure") /\ calls'[c] # calls[c]]_vars

(* While an install runs it alone writes status and cache, but for calls   *)
(* that were out when it began (service.dart:1459), the dismissal of a     *)
(* failure one of those reported, and a restart.                           *)
InstallKept ==
  [][installing /\ (card'.status # card.status \/ cache' # cache) =>
       \/ \E c \in Calls: /\ calls'[c] # calls[c]
                          /\ calls[c].kind = "install" \/ Before(c, "install")
       \/ card.err # "none" /\ card'.err = "none" /\ cache' = cache
       \/ calls' = [c \in Calls |-> Free]]_vars

(* Two installers of one tool never run beside each other, however the page*)
(* is left and entered again (service.dart:617).                           *)
OneInstaller ==
  Cardinality({c \in Calls: calls[c].kind = "install" /\ calls[c].pc \in {"run", "killed"}}) < 2

(* However the installer hangs, install() returns (service.dart:159, 168). *)
InstallsEnd == installing ~> ~installing
=============================================================================
