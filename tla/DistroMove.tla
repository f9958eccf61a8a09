----------------------------- MODULE DistroMove -----------------------------
(***************************************************************************)
(* lib/api/wsl.dart, move(): relocating an instance.  WSL 2.5 has a verb   *)
(* for it; on anything older the instance is exported, unregistered and    *)
(* imported again, and in between it exists only as a tar file.  A pair of *)
(* preferences, the recovery marker, is what a start after a crash shows   *)
(* the user (lib/nav/init.dart).                                           *)
(*                                                                         *)
(* A locally exported file is called export.ext4 and lies in the folder    *)
(* the user picked; a remote one lies in a staging folder of the distro's  *)
(* own.  Contents are the distro they came from, sizes are three grades.   *)
(***************************************************************************)
EXTENDS Naturals, FiniteSets

CONSTANTS
  Distros,   \* instances
  Folders,   \* folders the user may pick
  Home,      \* [Distros -> Folders]: where each instance starts out
  Moves,     \* calls of move() that may be in progress together
  MaxMoves,  \* bound: calls of move() in all
  Hosts,     \* WSL hosts: with `--manage --move` or not, local or over ssh
  Careless,  \* the user may aim a move at a file another one still needs
  None

(* An export: "writing" while wsl.exe writes it and after it failed,       *)
(* "small" when it succeeded below the floor, "good" otherwise.            *)
Exports == [of: Distros, grade: {"writing", "small", "good"}]

ASSUME MoveAssumption ==
  /\ Home \in [Distros -> Folders]
  /\ \A d, e \in Distros: Home[d] = Home[e] => d = e
  /\ MaxMoves \in Nat
  /\ Careless \in BOOLEAN
  /\ Hosts \subseteq [native: BOOLEAN, remote: BOOLEAN]
  /\ None \notin Distros \cup Folders \cup Exports

(* Export files: one per distro on a remote host, one per folder locally.  *)
Files == Distros \cup Folders

VARIABLES
  host,     \* the WSL host, one of Hosts
  place,    \* [Distros -> Folders or None]: where it is registered
  holds,    \* [Distros -> Distros]: whose contents its disk has
  tar,      \* [Files -> an export or None]
  markD, markP,  \* MoveOp_Distro, MoveOp_BackupPath
  op,       \* the calls of move() in progress
  started,  \* calls of move() so far
  up,       \* the application is running
  dialog,   \* the recovery dialog is open
  told      \* history: distros whose backup file the user was told of

vars == <<host, place, holds, tar, markD, markP, op, started, up, dialog, told>>

Idle == [pc |-> "idle", distro |-> None, folder |-> None]
Steps == {"begin", "export", "check", "markD", "markP", "unregister", "import",
          "delete", "clearD", "clearP"}
Busy(m) == op[m].pc # "idle"

(* Mutant: one export file serves every move.                              *)
SharedFile(m) == CHOOSE f \in Files: TRUE

(* The export file of a move: path.file('export.ext4'), _remoteStagingPath.*)
FileOf(m) == IF host.remote THEN op[m].distro ELSE op[m].folder

Init ==
  /\ host \in Hosts
  /\ place = Home
  /\ holds = [d \in Distros |-> d]
  /\ tar = [f \in Files |-> None]
  /\ markD = None /\ markP = None
  /\ op = [m \in Moves |-> Idle]
  /\ started = 0
  /\ up = TRUE /\ dialog = FALSE
  /\ told = {}

Goto(m, pc) == op' = [op EXCEPT ![m].pc = pc]

(* move() returns or throws.                                               *)
Ends(m) == op' = [op EXCEPT ![m] = Idle]

(* The move button of the settings dialog: a listed instance, any folder.  *)
(* A careful user leaves alone what another move still works on or left.   *)
Move(m, d, f) ==
  /\ up /\ ~dialog
  /\ ~Busy(m)
  /\ started < MaxMoves
  /\ place[d] # None
  /\ place[d] # f
  /\ LET file == IF host.remote THEN d ELSE f
     IN  ~Careless => /\ tar[file] # None => tar[file].of = d
                      /\ \A n \in Moves: Busy(n) => op[n].distro # d /\ FileOf(n) # file
  /\ started' = started + 1
  /\ op' = [op EXCEPT ![m] = [pc |-> "begin", distro |-> d, folder |-> f]]
  /\ UNCHANGED <<host, place, holds, tar, markD, markP, up, dialog, told>>

(* A folder that has another instance's disk in it takes no second one.    *)
Free(f, d) == \A e \in Distros \ {d}: place[e] # f

ReportFailure(m) == Ends(m)

(* `wsl --manage --move`: one operation, and a failure is only reported.   *)
NativeMove(m) ==
  /\ host.native
  /\ op[m].pc = "begin"
  /\ \/ /\ place[op[m].distro] # None
        /\ Free(op[m].folder, op[m].distro)
        /\ place' = [place EXCEPT ![op[m].distro] = op[m].folder]
        /\ Ends(m)
     \/ ReportFailure(m) /\ UNCHANGED place
  /\ UNCHANGED <<host, holds, tar, markD, markP, started, up, dialog, told>>

(* `wsl --export` opens its file, whatever was in it.                      *)
ExportBegins(m) ==
  /\ ~host.native
  /\ op[m].pc = "begin"
  /\ IF place[op[m].distro] = None
       THEN Ends(m) /\ UNCHANGED tar
       ELSE /\ Goto(m, "export")
            /\ tar' = [tar EXCEPT ![FileOf(m)] =
                         [of |-> holds[op[m].distro], grade |-> "writing"]]
  /\ UNCHANGED <<host, place, holds, markD, markP, started, up, dialog, told>>

(* It ends: with an error, which move() lets through, or with a file.      *)
ExportEnds(m) ==
  /\ op[m].pc = "export"
  /\ \/ Ends(m) /\ UNCHANGED tar
     \/ /\ place[op[m].distro] # None
        /\ \E g \in {"small", "good"}:
             tar' = [tar EXCEPT ![FileOf(m)] =
                       [of |-> holds[op[m].distro], grade |-> g]]
        /\ Goto(m, "check")
  /\ UNCHANGED <<host, place, holds, markD, markP, started, up, dialog, told>>

(* Mutant: the size is not looked at.                                      *)
AnyExport(file) == {"good", "small", "writing"}

(* What passes for an export: a file still being written may be big enough.*)
LargeEnough(file) == {"good", "writing"}

Deleted(m) == [tar EXCEPT ![FileOf(m)] = None]

(* The size of a remote file may not be found out; deleteSync() may throw. *)
CheckExport(m) ==
  /\ op[m].pc = "check"
  /\ \/ /\ tar[FileOf(m)] # None
        /\ tar[FileOf(m)].grade \in LargeEnough(FileOf(m))
        /\ Goto(m, "markD")
        /\ UNCHANGED tar
     \/ /\ tar[FileOf(m)] # None /\ ~host.remote => tar[FileOf(m)].grade # "good"
        /\ tar' = tar \/ (~host.remote /\ tar' = Deleted(m))
        /\ Ends(m)
  /\ UNCHANGED <<host, place, holds, markD, markP, started, up, dialog, told>>

(* Mutant: the marker is written once the instance is gone.                *)
MarkLate(m) ==
  /\ op[m].pc = "markD"
  /\ Goto(m, "unregister")
  /\ UNCHANGED <<host, place, holds, tar, markD, markP, started, up, dialog, told>>

MarkDistro(m) ==
  /\ op[m].pc = "markD"
  /\ markD' = op[m].distro
  /\ Goto(m, "markP")
  /\ UNCHANGED <<host, place, holds, tar, markP, started, up, dialog, told>>

MarkPath(m) ==
  /\ op[m].pc = "markP"
  /\ markP' = FileOf(m)
  /\ Goto(m, "unregister")
  /\ UNCHANGED <<host, place, holds, tar, markD, started, up, dialog, told>>

(* `wsl --unregister`.  Killed by its 30 s timer it may have done its work.*)
Unregister(m) ==
  /\ op[m].pc = "unregister"
  /\ \/ /\ place[op[m].distro] # None
        /\ place' = [place EXCEPT ![op[m].distro] = None]
        /\ Goto(m, "import") \/ Ends(m)
     \/ Ends(m) /\ UNCHANGED place
  /\ UNCHANGED <<host, holds, tar, markD, markP, started, up, dialog, told>>

(* `wsl --import`; when it fails the message names the file.               *)
Import(m) ==
  /\ op[m].pc = "import"
  /\ \/ /\ place[op[m].distro] = None
        /\ Free(op[m].folder, op[m].distro)
        /\ tar[FileOf(m)] # None
        /\ tar[FileOf(m)].grade = "good"
        /\ place' = [place EXCEPT ![op[m].distro] = op[m].folder]
        /\ holds' = [holds EXCEPT ![op[m].distro] = tar[FileOf(m)].of]
        /\ Goto(m, "delete")
        /\ UNCHANGED told
     \/ /\ Ends(m)
        /\ told' = told \cup {op[m].distro}
        /\ UNCHANGED <<place, holds>>
  /\ UNCHANGED <<host, tar, markD, markP, started, up, dialog>>

(* exportFile.delete() that throws, on a file in use or one somebody else  *)
(* deleted, is reported as a failed import and leaves the marker.  A remote*)
(* `del` that fails throws or not, as ssh is run.                          *)
DeleteExport(m) ==
  /\ op[m].pc = "delete"
  /\ \/ /\ host.remote \/ tar[FileOf(m)] # None
        /\ tar' = Deleted(m) \/ (host.remote /\ tar' = tar)
        /\ Goto(m, "clearD")
        /\ UNCHANGED told
     \/ /\ tar' = tar \/ (host.remote /\ tar' = Deleted(m))
        /\ Ends(m)
        /\ told' = told \cup {op[m].distro}
  /\ UNCHANGED <<host, place, holds, markD, markP, started, up, dialog>>

(* The marker goes in two awaited steps, whoever it speaks of by now.      *)
ClearDistro(m) ==
  /\ op[m].pc = "clearD"
  /\ markD' = None
  /\ Goto(m, "clearP")
  /\ UNCHANGED <<host, place, holds, tar, markP, started, up, dialog, told>>

ClearPath(m) ==
  /\ op[m].pc = "clearP"
  /\ markP' = None
  /\ Ends(m)
  /\ UNCHANGED <<host, place, holds, tar, markD, started, up, dialog, told>>

(* The application dies, and every wsl.exe it started with it.             *)
Crash ==
  /\ up
  /\ up' = FALSE /\ dialog' = FALSE
  /\ op' = [m \in Moves |-> Idle]
  /\ UNCHANGED <<host, place, holds, tar, markD, markP, started, told>>

Start ==
  /\ ~up
  /\ up' = TRUE
  /\ dialog' = (markD # None /\ markP # None)
  /\ UNCHANGED <<host, place, holds, tar, markD, markP, op, started, told>>

(* OK on the recovery dialog: the user has read it, the marker goes.       *)
Dismiss ==
  /\ dialog
  /\ dialog' = FALSE
  /\ told' = told \cup {markD}
  /\ markD' = None /\ markP' = None
  /\ UNCHANGED <<host, place, holds, tar, op, started, up>>

Next ==
  \/ \E m \in Moves, d \in Distros, f \in Folders: Move(m, d, f)
  \/ \E m \in Moves:
       \/ NativeMove(m) \/ ExportBegins(m) \/ ExportEnds(m) \/ CheckExport(m)
       \/ MarkDistro(m) \/ MarkPath(m) \/ Unregister(m) \/ Import(m)
       \/ DeleteExport(m) \/ ClearDistro(m) \/ ClearPath(m)
  \/ Crash
  \/ Start
  \/ Dismiss

Spec == Init /\ [][Next]_vars
-----------------------------------------------------------------------------
TypeOK ==
  /\ host \in Hosts
  /\ place \in [Distros -> Folders \cup {None}]
  /\ holds \in [Distros -> Distros]
  /\ tar \in [Files -> Exports \cup {None}]
  /\ markD \in Distros \cup {None}
  /\ markP \in Files \cup {None}
  /\ op \in [Moves -> {Idle} \cup [pc: Steps, distro: Distros, folder: Folders]]
  /\ started \in 0..MaxMoves
  /\ up \in BOOLEAN /\ dialog \in BOOLEAN
  /\ told \subseteq Distros

Installed(d) == \E e \in Distros: place[e] # None /\ holds[e] = d
Backup(d, f) == tar[f] # None /\ tar[f].of = d /\ tar[f].grade = "good"

(* Whatever fails or crashes, the contents of every instance are either on *)
(* a registered disk or in a complete export (wsl.dart:2479 and :2506 say  *)
(* what the checks are for).                                               *)
NoContentsLost == \A d \in Distros: Installed(d) \/ \E f \in Files: Backup(d, f)

(* After a first move that failed or crashed anywhere, an instance whose    *)
(* contents exist only as a file is one the user has been told about, or   *)
(* the marker names that file and a start will tell (wsl.dart:2410).  There*)
(* is one marker: a second move overwrites what is left of the first.      *)
ToldOrMarked ==
  \A d \in Distros:
    ~Installed(d) /\ started = 1
      => \/ d \in told
         \/ markD = d /\ markP # None /\ Backup(d, markP)

(* Nobody's disk ends up with somebody else's contents.                    *)
OwnContents == \A d \in Distros: place[d] # None => holds[d] = d
=============================================================================
