------------------------------- MODULE Backups -------------------------------
(***************************************************************************)
(* Backing instances up to a folder and restoring them from it:            *)
(* lib/api/backup_service.dart, driven by lib/dialogs/backup_dialog.dart.  *)
(*                                                                         *)
(* An archive is written to a file named after its instance, cleaned of    *)
(* what a file system may refuse; two names may clean to one, and a suffix *)
(* keeps them apart within one run.  Only the manifest, written when a run *)
(* ends, knows whose archive a file is.  Escape closes the dialog and not  *)
(* its run, so a second run may start beside the first.                    *)
(*                                                                         *)
(* Left out: which instances were running when the run began (a turn may   *)
(* stop its instance or not), progress reports, sizes, the extension of an *)
(* archive and the warning about the other backend's.  An instance that    *)
(* was restored under a file's own name and suffix is not backed up again. *)
(* That a name is taken when a restore begins, or when it imports, is the  *)
(* same to it: nothing is done for it.                                     *)
(***************************************************************************)
EXTENDS Naturals, FiniteSets

CONSTANTS
  Instances,
  Stem,   \* the name of an instance, cleaned
  Runs,   \* backups and restores that may be out at the same time (a bound)
  MaxRuns,  \* how many are begun in all (a bound)
  None,
  Torn    \* the data of half an archive, and of an instance made from one

ASSUME BackupAssumption ==
  /\ IsFiniteSet(Instances)
  /\ MaxRuns \in Nat
  /\ Stem \in [Instances -> Instances]
  /\ \A i \in Instances: Stem[Stem[i]] = Stem[i]
  /\ None \notin Instances /\ Torn \notin Instances /\ None # Torn

Suffixes == 1..Cardinality(Instances)
Files == {Stem[i]: i \in Instances} \X Suffixes
NoFile == <<None, 0>>

(* The instance a bare file stands for.                                    *)
NameOf(f) == IF f[2] = 1 THEN f[1] ELSE f
Names == Instances \cup {NameOf(f): f \in Files}
Data == Instances \cup {Torn}

VARIABLES
  world,    \* [Names -> whose data the registered instance holds, or None]
  folder,   \* [Files -> the data of the archive, or None]
  listing,  \* whether there is a manifest, and whether it can be read
  entry,    \* [Files -> the instance the manifest names for it, or None]
  run,      \* [Runs -> the backup or restore that is out]
  begun,    \* how many were begun
  taken,    \* history: [Runs -> files other runs have turned to since it began, or
            \* that it could not delete]
  claims,   \* history: what ended runs have promised, as archives
  unlisted  \* history: files a run has turned to and not listed since

disk == <<folder, listing, entry>>
history == <<taken, claims, unlisted>>
vars == <<world, disk, run, begun, history>>

(* What a turn of a backup made, and what the user was told of it.         *)
Claims == [file: Files, name: Instances, data: Data]

Stages == {"idle", "next", "stopping", "exporting", "restoring", "importing"}

(* left, used, made: of a backup.  wanted: of a restore, the names it read *)
(* for the files when it began; sure (history): those then listed for good.*)
Idle == [at |-> "idle", left |-> {}, used |-> {}, made |-> {},
         name |-> None, file |-> NoFile,
         wanted |-> [f \in Files |-> None], sure |-> {}]
RunStates ==
  [at: Stages, left: SUBSET Instances, used: SUBSET Files, made: SUBSET Claims,
   name: Names \cup {None}, file: Files \cup {NoFile},
   wanted: [Files -> Names \cup {None}], sure: SUBSET Files]

TypeOK ==
  /\ world \in [Names -> Data \cup {None}]
  /\ folder \in [Files -> Data \cup {None}]
  /\ listing \in {"absent", "good", "torn"}
  /\ entry \in [Files -> Instances \cup {None}]
  /\ run \in [Runs -> RunStates] /\ begun \in 0..MaxRuns
  /\ taken \in [Runs -> SUBSET Files]
  /\ claims \in SUBSET Claims
  /\ unlisted \in SUBSET Files

Init ==
  /\ world = [n \in Names |-> IF n \in Instances THEN n ELSE None]
  /\ folder = [f \in Files |-> None]
  /\ listing = "absent" /\ entry = [f \in Files |-> None]
  /\ run = [r \in Runs |-> Idle] /\ begun = 0
  /\ taken = [r \in Runs |-> {}]
  /\ claims = {} /\ unlisted = {}

----------------------------------------------------------------------------
At(r, s) == run[r].at = s
InTurn(r, f) == run[r].at \in {"stopping", "exporting"} /\ run[r].file = f
Others(r) == Runs \ {r}
Shared(r) == run[r].file \in taken[r]

(* By other hands, or because this is another machine.                     *)
Unregister(n) ==
  /\ world[n] # None
  /\ world' = [world EXCEPT ![n] = None]
  /\ UNCHANGED <<disk, run, begun, history>>

Begin(r, state) ==
  /\ At(r, "idle") /\ begun < MaxRuns
  /\ run' = [run EXCEPT ![r] = state]
  /\ begun' = begun + 1
  /\ UNCHANGED <<world, disk, history>>

----------------------------------------------------------------------------
(* Backing up                                                              *)

BeginBackup(r) ==
  \E is \in SUBSET {i \in Instances: world[i] # None}:
    is # {} /\ Begin(r, [Idle EXCEPT !.at = "next", !.left = is])

(* _archiveFileName: the first of stem, stem-2, ... this run has not used. *)
(* Mutants: the names of a run are not kept apart.                         *)
FirstAlways(f, used) == f[2] = 1
FirstFree(f, used) ==
  f \notin used /\ \A n \in 1..(f[2] - 1): <<f[1], n>> \in used
IsFileOf(f, i, used) == f[1] = Stem[i] /\ FirstFree(f, used)

(* wsl --export truncates the file it writes to.                           *)
Truncate(f) == folder' = [folder EXCEPT ![f] = Torn]

(* History: whoever else is out, or has promised something, loses the file *)
TurnTo(r, f) ==
  /\ taken' = [q \in Runs |->
       IF q # r THEN IF At(q, "idle") THEN {} ELSE taken[q] \cup {f}
       ELSE IF \E o \in Others(r): InTurn(o, f) THEN taken[r] \cup {f} ELSE taken[r]]
  /\ claims' = {c \in claims: c.file # f}
  /\ unlisted' = unlisted \cup {f}

(* The next instance; stopped first if it was running when the run began.  *)
Turn(r) ==
  \E i \in run[r].left, f \in Files, s \in {"stopping", "exporting"}:
    /\ At(r, "next") /\ IsFileOf(f, i, run[r].used)
    /\ run' = [run EXCEPT ![r].at = s, ![r].name = i, ![r].file = f,
                          ![r].left = @ \ {i}, ![r].used = @ \cup {f}]
    /\ TurnTo(r, f)
    /\ IF s = "exporting" /\ world[i] # None THEN Truncate(f) ELSE UNCHANGED folder
    /\ UNCHANGED <<world, listing, entry, begun>>

Stopped(r) ==
  /\ At(r, "stopping")
  /\ run' = [run EXCEPT ![r].at = "exporting"]
  /\ IF world[run[r].name] # None THEN Truncate(run[r].file) ELSE UNCHANGED folder
  /\ UNCHANGED <<world, listing, entry, history, begun>>

(* The archive is there and not empty.  Two runs that wrote to one file    *)
(* may have left any mixture.                                              *)
Exported(r) ==
  LET i == run[r].name
      f == run[r].file IN
  /\ At(r, "exporting") /\ world[i] # None /\ folder[f] # None
  /\ \E d \in {world[i]} \cup (IF Shared(r) THEN {Torn} ELSE {}):
       /\ folder' = [folder EXCEPT ![f] = d]
       /\ run' = [run EXCEPT ![r].at = "next", ![r].name = None, ![r].file = NoFile,
                    ![r].made = @ \cup {[file |-> f, name |-> i, data |-> d]}]
  /\ UNCHANGED <<world, listing, entry, history, begun>>

(* The stop or the export failed, or wrote nothing.  The file is deleted,  *)
(* if it can be.  Mutants: it is left.                                     *)
NoDelete(r) == UNCHANGED <<folder, taken>>
Delete(r) ==
  \/ folder' = [folder EXCEPT ![run[r].file] = None] /\ UNCHANGED taken
  \/ taken' = [taken EXCEPT ![r] = @ \cup {run[r].file}] /\ UNCHANGED folder
Failed(r) ==
  /\ run[r].at \in {"stopping", "exporting"}
  /\ Delete(r)
  /\ run' = [run EXCEPT ![r].at = "next", ![r].name = None, ![r].file = NoFile]
  /\ UNCHANGED <<world, listing, entry, begun, claims, unlisted>>

(* _writeManifest: what the manifest in the folder names and the folder    *)
(* still holds, overlaid with what this run made.                          *)
Held(f) == IF listing = "good" /\ folder[f] # None THEN entry[f] ELSE None
Merged(made) ==
  [f \in Files |-> IF \E c \in made: c.file = f
                   THEN (CHOOSE c \in made: c.file = f).name ELSE Held(f)]

(* History: a run promises what it made unless another run has turned to   *)
(* that file meanwhile; its manifest then names the wrong one of the two.  *)
MadeFiles(r) == {c.file: c \in run[r].made}
Promise(r) == claims' = claims \cup {c \in run[r].made: c.file \notin taken[r]}

(* The run is over, or was stopped.  A manifest that cannot be written is  *)
(* passed over, and may be left in pieces.                                 *)
EndBackup(r) ==
  /\ At(r, "next")
  /\ run' = [run EXCEPT ![r] = Idle]
  /\ Promise(r)
  /\ \/ /\ listing' = "good" /\ entry' = Merged(run[r].made)
        /\ unlisted' = (unlisted \ (run[r].used \ taken[r])) \cup (MadeFiles(r) \cap taken[r])
     \/ UNCHANGED <<listing, entry, unlisted>>
     \/ listing' = "torn" /\ entry' = [f \in Files |-> None] /\ unlisted' = Files
  /\ taken' = [taken EXCEPT ![r] = {}]
  /\ UNCHANGED <<world, folder, begun>>

----------------------------------------------------------------------------
(* Restoring                                                               *)

(* inspect: the manifest, or else the files.  Mutants: always the files.   *)
InspectedFiles ==
  [f \in Files |-> IF folder[f] # None THEN NameOf(f) ELSE None]
Inspected ==
  [f \in Files |-> IF listing = "good" THEN entry[f]
                   ELSE IF folder[f] # None THEN NameOf(f) ELSE None]

(* The ticked names that are not known to be taken.                        *)
BeginRestore(r) ==
  \E w \in [Files -> Names \cup {None}]:
    /\ \A f \in Files: w[f] \in {Inspected[f], None}
    /\ \E f \in Files: w[f] # None
    /\ Begin(r, [Idle EXCEPT !.at = "restoring", !.wanted = w,
                             !.sure = IF listing = "good" THEN Files \ unlisted ELSE {}])

(* Failed if its archive is gone.                                          *)
NextArchive(r) ==
  \E f \in Files:
    LET n == run[r].wanted[f] IN
    /\ At(r, "restoring") /\ n # None
    /\ run' = IF folder[f] = None
              THEN [run EXCEPT ![r].wanted[f] = None]
              ELSE [run EXCEPT ![r].wanted[f] = None, ![r].at = "importing",
                               ![r].name = n, ![r].file = f]
    /\ UNCHANGED <<world, disk, history, begun>>

(* wsl --import and vmctl import refuse a name that is registered.  What   *)
(* was imported is skipped when it comes up again.                         *)
Imported(r) ==
  LET n == run[r].name
      f == run[r].file IN
  /\ At(r, "importing") /\ world[n] = None /\ folder[f] # None
  /\ world' = [world EXCEPT ![n] = folder[f]]
  /\ run' = [run EXCEPT ![r].at = "restoring", ![r].name = None, ![r].file = NoFile,
                        ![r].wanted = [g \in Files |-> IF @[g] = n THEN None ELSE @[g]]]
  /\ UNCHANGED <<disk, history, begun>>

ImportFails(r) ==
  /\ At(r, "importing")
  /\ run' = [run EXCEPT ![r].at = "restoring", ![r].name = None, ![r].file = NoFile]
  /\ UNCHANGED <<world, disk, history, begun>>

EndRestore(r) ==
  /\ At(r, "restoring")
  /\ run' = [run EXCEPT ![r] = Idle]
  /\ taken' = [taken EXCEPT ![r] = {}]
  /\ UNCHANGED <<world, disk, claims, unlisted, begun>>

----------------------------------------------------------------------------
(* The application is killed; an export that was out may be finished by    *)
(* wsl.exe on its own.                                                     *)
Kill ==
  /\ \E r \in Runs: ~At(r, "idle")
  /\ run' = [r \in Runs |-> Idle]
  /\ \E whole \in SUBSET {r \in Runs: At(r, "exporting") /\ ~Shared(r)}:
       folder' = [f \in Files |->
         IF \E r \in whole: run[r].file = f /\ world[run[r].name] # None
         THEN world[run[CHOOSE r \in whole: run[r].file = f].name] ELSE folder[f]]
  /\ taken' = [r \in Runs |-> {}]
  /\ UNCHANGED <<world, listing, entry, claims, unlisted, begun>>

Next ==
  \/ Kill
  \/ \E n \in Names: Unregister(n)
  \/ \E r \in Runs:
       \/ BeginBackup(r) \/ Turn(r) \/ Stopped(r) \/ Exported(r) \/ Failed(r) \/ EndBackup(r)
       \/ BeginRestore(r) \/ NextArchive(r) \/ Imported(r) \/ ImportFails(r) \/ EndRestore(r)

Spec == Init /\ [][Next]_vars

----------------------------------------------------------------------------
(* Properties                                                              *)

(* An archive a run reported as made stays in the folder whole, holding    *)
(* what its instance held, and the manifest names it: whatever other runs, *)
(* failures and kills follow, until a run turns to the same file; or, for  *)
(* the name, a manifest could not be written (_archiveFileName, the catch  *)
(* of backup(), _writeManifest).                                           *)
PromisesHold ==
  \A c \in claims:
    /\ folder[c.file] = c.data
    /\ c.file \notin unlisted => listing = "good" /\ entry[c.file] = c.name

(* The manifest names no file that is not a finished archive of the        *)
(* instance it names, other than files some run turned to without having   *)
(* listed them since.                                                      *)
ListedIsKept ==
  \A f \in Files:
    listing = "good" /\ entry[f] # None /\ f \notin unlisted =>
      \E c \in claims: c.file = f /\ c.name = entry[f]

(* What a restore makes from a manifest is what was backed up under that   *)
(* name, although the manifest was read long before the import and an      *)
(* archive has no name of its own, unless a run turned to the file.        *)
RestoredIsKept ==
  [][\A r \in Runs:
       LET n == run[r].name
           f == run[r].file IN
       /\ At(r, "importing") /\ f \in run[r].sure \ taken[r]
       /\ run'[r].at = "restoring" /\ world' # world
       => [file |-> f, name |-> n, data |-> world'[n]] \in claims]_vars
=============================================================================
