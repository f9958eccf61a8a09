---------------------------- MODULE Backups_proofs ----------------------------
(***************************************************************************)
(* What is proved of Backups, for any instances, however their names clean,*)
(* and any number of runs: the types, and the three properties the run     *)
(* `backup` checks.                                                        *)
(*                                                                         *)
(* The key is which files are a run's own: those it has used and nobody    *)
(* else has turned to since.                                               *)
(***************************************************************************)
EXTENDS Backups, TLAPS

InAnyTurn(r) == run[r].at \in {"stopping", "exporting"}
Own(r) == run[r].used \ taken[r]

(* What a run has on hand fits where it stands; it uses a file once.       *)
RunFits(r) ==
  /\ run[r].at \notin {"next", "stopping", "exporting"} =>
       run[r].used = {} /\ run[r].made = {}
  /\ run[r].at \notin {"restoring", "importing"} => run[r].sure = {}
  /\ InAnyTurn(r) =>
       /\ run[r].name \in Instances /\ run[r].file \in run[r].used
       /\ \A c \in run[r].made: c.file # run[r].file
  /\ At(r, "importing") => run[r].name \in Names /\ run[r].file \in Files
  /\ \A c \in run[r].made: c.file \in run[r].used
  /\ \A c, d \in run[r].made: c.file = d.file => c = d

(* A run's own file is nobody else's, is promised by nobody yet, and holds *)
(* what the run made, or nothing if it failed.                             *)
OwnFits(r, f) ==
  /\ f \in unlisted
  /\ \A q \in Others(r): ~InTurn(q, f) /\ f \notin Own(q)
  /\ \A c \in claims: c.file # f
  /\ \A c \in run[r].made: c.file = f => folder[f] = c.data
  /\ ~InTurn(r, f) /\ f \notin MadeFiles(r) => folder[f] = None

OwnInv == \A r \in Runs: \A f \in Own(r): OwnFits(r, f)

(* A file is not promised while a run is at it.                            *)
TurnInv == \A r \in Runs, c \in claims: InAnyTurn(r) => c.file # run[r].file

(* What a restore still wants, or is importing, is promised: as far as it  *)
(* was listed for good, and nobody has turned to its file since.           *)
Promised(f, n) == \E c \in claims: c.file = f /\ c.name = n
RestoreFits(r) ==
  \A f \in run[r].sure \ taken[r]:
    /\ run[r].wanted[f] # None => Promised(f, run[r].wanted[f])
    /\ At(r, "importing") /\ run[r].file = f => Promised(f, run[r].name)

RunInv == \A r \in Runs: RunFits(r)
RestoreInv == \A r \in Runs: RestoreFits(r)

IInv ==
  /\ TypeOK /\ RunInv /\ OwnInv /\ TurnInv
  /\ PromisesHold /\ ListedIsKept /\ RestoreInv

----------------------------------------------------------------------------
(* Types                                                                   *)

(* What the constants give: archives are of instances' data, names cover   *)
(* both instances and files, and None is no data.                          *)
LEMMA Constants ==
  /\ Instances \subseteq Names /\ Instances \subseteq Data
  /\ None \notin Instances /\ None \notin Data
  /\ \A f \in Files: NameOf(f) \in Names
BY BackupAssumption DEF Names, Data

(* The idle run has its type.                                              *)
LEMMA IdleType == Idle \in RunStates
BY DEF Idle, RunStates, Stages

(* Turning to a file keeps the types of the history.                       *)
LEMMA TurnToTypes ==
  ASSUME TypeOK, NEW r \in Runs, NEW f \in Files, TurnTo(r, f)
  PROVE  /\ taken' \in [Runs -> SUBSET Files]
         /\ claims' \in SUBSET Claims /\ unlisted' \in SUBSET Files
<1>1. taken' \in [Runs -> SUBSET Files]
  BY DEF TypeOK, TurnTo
<1>. QED
  BY <1>1 DEF TypeOK, TurnTo

(* A step of one run: what becomes of it, field by field; the others stay. *)
OthersStay(r) == \A q \in Others(r): run'[q] = run[q]
Becomes(r, s) ==
  run' \in [Runs -> RunStates] /\ run'[r] = s /\ OthersStay(r)
Moves(r) == run' \in [Runs -> RunStates] /\ OthersStay(r)

LEMMA Update ==
  ASSUME TypeOK, NEW r \in Runs, NEW s \in RunStates, run' = [run EXCEPT ![r] = s]
  PROVE  Becomes(r, s) /\ Moves(r)
BY DEF TypeOK, Becomes, Moves, OthersStay, Others

LEMMA TurnEffect ==
  ASSUME TypeOK, NEW r \in Runs, Turn(r)
  PROVE  \E i \in Instances, f \in Files, s \in {"stopping", "exporting"}:
           /\ At(r, "next") /\ f \notin run[r].used
           /\ Moves(r)
           /\ run'[r].at = s /\ run'[r].name = i /\ run'[r].file = f
           /\ run'[r].used = run[r].used \cup {f} /\ run'[r].made = run[r].made
           /\ run'[r].sure = run[r].sure
           /\ TurnTo(r, f)
           /\ folder' = folder \/ Truncate(f)
<1>1. PICK i \in run[r].left, f \in Files, s \in {"stopping", "exporting"}:
        /\ At(r, "next") /\ IsFileOf(f, i, run[r].used)
        /\ run' = [run EXCEPT ![r].at = s, ![r].name = i, ![r].file = f,
                              ![r].left = @ \ {i}, ![r].used = @ \cup {f}]
        /\ TurnTo(r, f)
        /\ IF s = "exporting" /\ world[i] # None THEN Truncate(f) ELSE UNCHANGED folder
        /\ UNCHANGED <<world, listing, entry, begun>>
  BY DEF Turn
<1>. DEFINE new == [run[r] EXCEPT !.at = s, !.name = i, !.file = f,
                                  !.left = @ \ {i}, !.used = @ \cup {f}]
<1>2. run \in [Runs -> RunStates] /\ i \in Instances
  BY DEF TypeOK, RunStates
<1>3. run' = [run EXCEPT ![r] = new]
  BY <1>1, <1>2 DEF RunStates
<1>4. new \in RunStates
  BY <1>2, Constants DEF RunStates, Stages
<1>5. /\ new.at = s /\ new.name = i /\ new.file = f /\ new.used = run[r].used \cup {f}
      /\ new.made = run[r].made /\ new.sure = run[r].sure
  BY <1>2 DEF RunStates
<1>6. Becomes(r, new) /\ Moves(r)
  BY <1>3, <1>4, Update
<1>. HIDE DEF new
<1>. QED
  BY <1>1, <1>2, <1>5, <1>6 DEF IsFileOf, FirstFree, Becomes

LEMMA StoppedEffect ==
  ASSUME TypeOK, NEW r \in Runs, Stopped(r)
  PROVE  /\ Moves(r)
         /\ run'[r].at = "exporting" /\ run'[r].name = run[r].name
         /\ run'[r].file = run[r].file /\ run'[r].used = run[r].used
         /\ run'[r].made = run[r].made /\ run'[r].sure = run[r].sure
<1>. DEFINE new == [run[r] EXCEPT !.at = "exporting"]
<1>1. run \in [Runs -> RunStates] /\ run' = [run EXCEPT ![r] = new]
  BY DEF TypeOK, Stopped, RunStates
<1>2. new \in RunStates
  BY <1>1 DEF RunStates, Stages
<1>. QED
  BY <1>1, <1>2, Update DEF Becomes, RunStates

(* The claim of an export that made d.                                     *)
Made(r, d) == [file |-> run[r].file, name |-> run[r].name, data |-> d]
LEMMA ExportedEffect ==
  ASSUME TypeOK, RunInv, NEW r \in Runs, Exported(r)
  PROVE  \E d \in Data:
           /\ Made(r, d) \in Claims
           /\ folder' = [folder EXCEPT ![run[r].file] = d]
           /\ Moves(r)
           /\ run'[r].at = "next" /\ run'[r].used = run[r].used
           /\ run'[r].made = run[r].made \cup {Made(r, d)}
           /\ run'[r].sure = run[r].sure
<1>1. PICK d \in {world[run[r].name]} \cup {Torn}:
        /\ folder' = [folder EXCEPT ![run[r].file] = d]
        /\ run' = [run EXCEPT ![r].at = "next", ![r].name = None, ![r].file = NoFile,
                     ![r].made = @ \cup {[file |-> run[r].file, name |-> run[r].name,
                                          data |-> d]}]
  BY DEF Exported
<1>. DEFINE new == [run[r] EXCEPT !.at = "next", !.name = None, !.file = NoFile,
                                  !.made = @ \cup {Made(r, d)}]
<1>2. run \in [Runs -> RunStates] /\ run[r].name \in Instances /\ run[r].file \in Files
  BY DEF TypeOK, RunInv, RunFits, InAnyTurn, Exported, At, RunStates
<1>3. d \in Data
  BY <1>1, <1>2, Constants DEF TypeOK, Exported, Data
<1>4. Made(r, d) \in Claims
  BY <1>2, <1>3 DEF Made, Claims
<1>5. run' = [run EXCEPT ![r] = new]
  BY <1>1, <1>2 DEF RunStates, Made
<1>6. new \in RunStates
  BY <1>2, <1>4 DEF RunStates, Stages
<1>7. /\ new.at = "next" /\ new.used = run[r].used
      /\ new.made = run[r].made \cup {Made(r, d)} /\ new.sure = run[r].sure
  BY <1>2 DEF RunStates
<1>8. Becomes(r, new) /\ Moves(r)
  BY <1>5, <1>6, Update
<1>. HIDE DEF new
<1>. QED
  BY <1>1, <1>3, <1>4, <1>7, <1>8 DEF Becomes

LEMMA FailedEffect ==
  ASSUME TypeOK, NEW r \in Runs, Failed(r)
  PROVE  /\ Moves(r)
         /\ run'[r].at = "next" /\ run'[r].used = run[r].used
         /\ run'[r].made = run[r].made /\ run'[r].sure = run[r].sure
<1>. DEFINE new == [run[r] EXCEPT !.at = "next", !.name = None, !.file = NoFile]
<1>1. run \in [Runs -> RunStates]
  BY DEF TypeOK
<1>2. run' = [run EXCEPT ![r] = new]
  BY <1>1 DEF Failed, RunStates
<1>3. new \in RunStates
  BY <1>1 DEF RunStates, Stages
<1>4. /\ new.at = "next" /\ new.used = run[r].used
      /\ new.made = run[r].made /\ new.sure = run[r].sure
  BY <1>1 DEF RunStates
<1>. QED
  BY <1>2, <1>3, <1>4, Update DEF Becomes

LEMMA IdleEffect ==
  ASSUME TypeOK, NEW r \in Runs, EndBackup(r) \/ EndRestore(r)
  PROVE  Moves(r) /\ run'[r] = Idle
BY IdleType, Update DEF EndBackup, EndRestore, Becomes

LEMMA BeginBackupEffect ==
  ASSUME TypeOK, NEW r \in Runs, BeginBackup(r)
  PROVE  /\ Moves(r)
         /\ run'[r].at = "next" /\ run'[r].used = {} /\ run'[r].made = {}
         /\ run'[r].sure = {}
<1>1. PICK is \in SUBSET Instances: Begin(r, [Idle EXCEPT !.at = "next", !.left = is])
  BY DEF BeginBackup
<1>. DEFINE new == [Idle EXCEPT !.at = "next", !.left = is]
<1>2. new \in RunStates
  BY IdleType DEF RunStates, Stages
<1>3. new.at = "next" /\ new.used = {} /\ new.made = {} /\ new.sure = {}
  BY DEF Idle
<1>. QED
  BY <1>1, <1>2, <1>3, Update DEF Begin, Becomes

LEMMA BeginRestoreEffect ==
  ASSUME TypeOK, NEW r \in Runs, BeginRestore(r)
  PROVE  /\ Moves(r)
         /\ run'[r].at = "restoring" /\ run'[r].used = {} /\ run'[r].made = {}
         /\ run'[r].sure = IF listing = "good" THEN Files \ unlisted ELSE {}
         /\ \A f \in Files: run'[r].wanted[f] \in {Inspected[f], None}
<1>. DEFINE sure == IF listing = "good" THEN Files \ unlisted ELSE {}
            New(w) == [Idle EXCEPT !.at = "restoring", !.wanted = w, !.sure = sure]
<1>1. PICK w \in [Files -> Names \cup {None}]:
        /\ \A f \in Files: w[f] \in {Inspected[f], None}
        /\ Begin(r, New(w))
  BY DEF BeginRestore
<1>2. New(w) \in RunStates
  BY IdleType DEF RunStates, Stages
<1>3. /\ New(w).at = "restoring" /\ New(w).used = {} /\ New(w).made = {}
      /\ New(w).sure = sure /\ New(w).wanted = w
  BY DEF Idle
<1>4. Becomes(r, New(w)) /\ Moves(r)
  BY <1>1, <1>2, Update DEF Begin
<1>. HIDE DEF New
<1>. QED
  BY <1>1, <1>3, <1>4 DEF Becomes

LEMMA NextArchiveEffect ==
  ASSUME TypeOK, NEW r \in Runs, NextArchive(r)
  PROVE  /\ Moves(r)
         /\ run'[r].used = run[r].used /\ run'[r].made = run[r].made
         /\ run'[r].sure = run[r].sure
         /\ \A f \in Files: run'[r].wanted[f] \in {run[r].wanted[f], None}
         /\ \/ run'[r].at = "restoring"
            \/ /\ run'[r].at = "importing" /\ run'[r].file \in Files
               /\ run'[r].name = run[r].wanted[run'[r].file] /\ run'[r].name # None
<1>1. PICK f \in Files:
        /\ At(r, "restoring") /\ run[r].wanted[f] # None
        /\ \/ run' = [run EXCEPT ![r].wanted[f] = None]
           \/ run' = [run EXCEPT ![r].wanted[f] = None, ![r].at = "importing",
                                 ![r].name = run[r].wanted[f], ![r].file = f]
  BY DEF NextArchive
<1>2. run \in [Runs -> RunStates] /\ run[r].wanted[f] \in Names \cup {None}
  BY DEF TypeOK, RunStates
<1>3. CASE run' = [run EXCEPT ![r].wanted[f] = None]
  <2>. DEFINE new == [run[r] EXCEPT !.wanted[f] = None]
  <2>1. new \in RunStates
    BY <1>2 DEF RunStates, Stages
  <2>2. /\ new.at = run[r].at /\ new.used = run[r].used /\ new.made = run[r].made
        /\ new.sure = run[r].sure /\ new.wanted = [run[r].wanted EXCEPT ![f] = None]
    BY <1>2 DEF RunStates
  <2>3. Becomes(r, new) /\ Moves(r)
    BY <1>3, <2>1, Update
  <2>. HIDE DEF new
  <2>. QED
    BY <1>1, <1>2, <2>2, <2>3 DEF At, Becomes, RunStates
<1>4. CASE run' = [run EXCEPT ![r].wanted[f] = None, ![r].at = "importing",
                              ![r].name = run[r].wanted[f], ![r].file = f]
  <2>. DEFINE new == [run[r] EXCEPT !.wanted[f] = None, !.at = "importing",
                                    !.name = run[r].wanted[f], !.file = f]
  <2>1. new \in RunStates
    BY <1>2 DEF RunStates, Stages
  <2>2. /\ new.at = "importing" /\ new.used = run[r].used /\ new.made = run[r].made
        /\ new.sure = run[r].sure /\ new.wanted = [run[r].wanted EXCEPT ![f] = None]
        /\ new.name = run[r].wanted[f] /\ new.file = f
    BY <1>2 DEF RunStates
  <2>3. run' = [run EXCEPT ![r] = new]
    BY <1>2, <1>4 DEF RunStates
  <2>4. Becomes(r, new) /\ Moves(r)
    BY <2>1, <2>3, Update
  <2>. HIDE DEF new
  <2>. QED
    BY <1>1, <1>2, <2>2, <2>4 DEF Becomes, RunStates
<1>. QED
  BY <1>1, <1>3, <1>4

(* An import that is over, well or not.                                    *)
LEMMA ImportEffect ==
  ASSUME TypeOK, NEW r \in Runs, Imported(r) \/ ImportFails(r)
  PROVE  /\ Moves(r)
         /\ run'[r].at = "restoring"
         /\ run'[r].used = run[r].used /\ run'[r].made = run[r].made
         /\ run'[r].sure = run[r].sure
         /\ \A f \in Files: run'[r].wanted[f] \in {run[r].wanted[f], None}
<1>. DEFINE w == [g \in Files |-> IF run[r].wanted[g] = run[r].name THEN None
                                   ELSE run[r].wanted[g]]
            New(v) == [run[r] EXCEPT !.at = "restoring", !.name = None, !.file = NoFile,
                                     !.wanted = v]
<1>1. run \in [Runs -> RunStates]
  BY DEF TypeOK
<1>2. run' = [run EXCEPT ![r] = New(w)] \/ run' = [run EXCEPT ![r] = New(run[r].wanted)]
  BY <1>1 DEF Imported, ImportFails, RunStates
<1>3. w \in [Files -> Names \cup {None}] /\ run[r].wanted \in [Files -> Names \cup {None}]
  BY <1>1 DEF RunStates
<1>4. ASSUME NEW v \in [Files -> Names \cup {None}]
      PROVE  /\ New(v) \in RunStates
             /\ New(v).at = "restoring" /\ New(v).used = run[r].used
             /\ New(v).made = run[r].made /\ New(v).sure = run[r].sure /\ New(v).wanted = v
  BY <1>1 DEF RunStates, Stages
<1>5. \A f \in Files: w[f] \in {run[r].wanted[f], None}
  OBVIOUS
<1>. HIDE DEF New, w
<1>. QED
  BY <1>2, <1>3, <1>4, <1>5, Update DEF Becomes

LEMMA TypeStep == ASSUME TypeOK, RunInv, [Next]_vars PROVE TypeOK'
<1>1. CASE Kill
  <2>1. folder' \in [Files -> Data \cup {None}]
    <3>1. PICK whole \in SUBSET {r \in Runs: At(r, "exporting") /\ ~Shared(r)}:
            folder' = [f \in Files |->
              IF \E r \in whole: run[r].file = f /\ world[run[r].name] # None
              THEN world[run[CHOOSE r \in whole: run[r].file = f].name] ELSE folder[f]]
      BY <1>1 DEF Kill
    <3>2. ASSUME NEW f \in Files, NEW r \in whole, run[r].file = f
          PROVE  world[run[CHOOSE q \in whole: run[q].file = f].name] \in Data \cup {None}
      <4>1. \E q \in whole: run[q].file = f
        BY <3>2
      <4>2. PICK o \in whole: o = CHOOSE q \in whole: run[q].file = f
        BY <4>1
      <4>3. run[o].name \in Instances
        BY DEF RunInv, RunFits, InAnyTurn, At
      <4>. QED
        BY <4>2, <4>3, Constants DEF TypeOK
    <3>. QED
      BY <3>1, <3>2 DEF TypeOK
  <2>. QED
    BY <1>1, <2>1, IdleType DEF Kill, TypeOK
<1>2. ASSUME NEW n \in Names, Unregister(n) PROVE TypeOK'
  BY <1>2 DEF Unregister, disk, history, TypeOK
<1>3. ASSUME NEW r \in Runs, BeginBackup(r) PROVE TypeOK'
  <2>1. begun < MaxRuns /\ begun' = begun + 1 /\ UNCHANGED <<world, disk, history>>
    BY <1>3 DEF BeginBackup, Begin
  <2>. QED
    BY <1>3, <2>1, BeginBackupEffect, BackupAssumption DEF Moves, disk, history, TypeOK
<1>4. ASSUME NEW r \in Runs, Turn(r) PROVE TypeOK'
  <2>1. PICK f \in Files: TurnTo(r, f) /\ (folder' = folder \/ Truncate(f))
    BY <1>4, TurnEffect
  <2>2. folder' \in [Files -> Data \cup {None}]
    BY <2>1 DEF Truncate, TypeOK, Data
  <2>3. run' \in [Runs -> RunStates]
    BY <1>4, TurnEffect DEF Moves
  <2>4. UNCHANGED <<world, listing, entry, begun>>
    BY <1>4 DEF Turn
  <2>. QED
    BY <2>1, <2>2, <2>3, <2>4, TurnToTypes DEF TypeOK
<1>5. ASSUME NEW r \in Runs, Stopped(r) PROVE TypeOK'
  BY <1>5, StoppedEffect DEF Stopped, Truncate, Moves, Data, history, TypeOK
<1>6. ASSUME NEW r \in Runs, Exported(r) PROVE TypeOK'
  BY <1>6, ExportedEffect DEF Exported, Moves, history, TypeOK
<1>7. ASSUME NEW r \in Runs, Failed(r) PROVE TypeOK'
  <2>1. run[r].file \in Files
    BY <1>7 DEF Failed, RunInv, RunFits, InAnyTurn, TypeOK, RunStates
  <2>2. folder' \in [Files -> Data \cup {None}] /\ taken' \in [Runs -> SUBSET Files]
    BY <1>7, <2>1 DEF Failed, Delete, TypeOK
  <2>. QED
    BY <1>7, <2>2, FailedEffect DEF Failed, Moves, TypeOK
<1>8. ASSUME NEW r \in Runs, EndBackup(r) PROVE TypeOK'
  <2>1. run[r].made \in SUBSET Claims
    BY DEF TypeOK, RunStates
  <2>2. Merged(run[r].made) \in [Files -> Instances \cup {None}]
    BY <2>1 DEF Merged, Held, Claims, TypeOK
  <2>3. claims' \in SUBSET Claims
    BY <1>8, <2>1 DEF EndBackup, Promise, TypeOK
  <2>4. unlisted' \in SUBSET Files
    BY <1>8, <2>1 DEF EndBackup, MadeFiles, Claims, TypeOK
  <2>5. taken' \in [Runs -> SUBSET Files]
    BY <1>8 DEF EndBackup, TypeOK
  <2>6. entry' \in [Files -> Instances \cup {None}] /\ listing' \in {"absent", "good", "torn"}
    BY <1>8, <2>2 DEF EndBackup, TypeOK
  <2>. QED
    BY <1>8, <2>3, <2>4, <2>5, <2>6, IdleEffect DEF EndBackup, Moves, TypeOK
<1>9. ASSUME NEW r \in Runs, BeginRestore(r) PROVE TypeOK'
  <2>1. begun < MaxRuns /\ begun' = begun + 1 /\ UNCHANGED <<world, disk, history>>
    BY <1>9 DEF BeginRestore, Begin
  <2>. QED
    BY <1>9, <2>1, BeginRestoreEffect, BackupAssumption DEF Moves, disk, history, TypeOK
<1>10. ASSUME NEW r \in Runs, NextArchive(r) PROVE TypeOK'
  BY <1>10, NextArchiveEffect DEF NextArchive, Moves, disk, history, TypeOK
<1>11. ASSUME NEW r \in Runs, Imported(r) PROVE TypeOK'
  <2>1. run[r].file \in Files /\ run[r].name \in Names
    BY <1>11 DEF Imported, RunInv, RunFits
  <2>. QED
    BY <1>11, <2>1, ImportEffect DEF Imported, Moves, disk, history, TypeOK
<1>12. ASSUME NEW r \in Runs, ImportFails(r) PROVE TypeOK'
  BY <1>12, ImportEffect DEF ImportFails, Moves, disk, history, TypeOK
<1>13. ASSUME NEW r \in Runs, EndRestore(r) PROVE TypeOK'
  BY <1>13, IdleEffect DEF EndRestore, Moves, disk, TypeOK
<1>14. CASE UNCHANGED vars
  BY <1>14 DEF vars, disk, history, TypeOK
<1>. QED
  BY <1>1, <1>2, <1>3, <1>4, <1>5, <1>6, <1>7, <1>8, <1>9, <1>10, <1>11, <1>12,
     <1>13, <1>14 DEF Next

----------------------------------------------------------------------------
(* What a run has on hand                                                  *)

LEMMA FitsSuffices ==
  ASSUME RunInv, NEW r \in Runs, Moves(r), RunFits(r)'
  PROVE  RunInv'
BY DEF RunInv, RunFits, InAnyTurn, At, Moves, OthersStay, Others

LEMMA IdleFits == ASSUME NEW r \in Runs, run'[r] = Idle PROVE RunFits(r)'
BY DEF RunFits, InAnyTurn, At, Idle

LEMMA RunStep == ASSUME TypeOK, RunInv, [Next]_vars PROVE RunInv'
<1>. USE DEF RunFits, InAnyTurn, At
<1>1. CASE Kill
  BY <1>1, IdleFits DEF Kill, RunInv
<1>2. ASSUME NEW n \in Names, Unregister(n) PROVE RunInv'
  BY <1>2 DEF Unregister, RunInv
<1>3. ASSUME NEW r \in Runs, BeginBackup(r) PROVE RunInv'
  BY <1>3, BeginBackupEffect, FitsSuffices
<1>4. ASSUME NEW r \in Runs, Turn(r) PROVE RunInv'
  <2>1. PICK i \in Instances, f \in Files, s \in {"stopping", "exporting"}:
          /\ At(r, "next") /\ f \notin run[r].used
          /\ run'[r].at = s /\ run'[r].name = i /\ run'[r].file = f
          /\ run'[r].used = run[r].used \cup {f} /\ run'[r].made = run[r].made
          /\ run'[r].sure = run[r].sure
    BY <1>4, TurnEffect
  <2>2. RunFits(r)'
    BY <2>1 DEF RunInv
  <2>. QED
    BY <1>4, <2>2, TurnEffect, FitsSuffices
<1>5. ASSUME NEW r \in Runs, Stopped(r) PROVE RunInv'
  BY <1>5, StoppedEffect, FitsSuffices DEF Stopped, RunInv
<1>6. ASSUME NEW r \in Runs, Exported(r) PROVE RunInv'
  <2>1. PICK d \in Data:
          /\ run'[r].at = "next" /\ run'[r].used = run[r].used
          /\ run'[r].made = run[r].made \cup {Made(r, d)}
          /\ run'[r].sure = run[r].sure
    BY <1>6, ExportedEffect
  <2>2. Made(r, d).file = run[r].file /\ run[r].at = "exporting"
    BY <1>6 DEF Exported, Made
  <2>3. RunFits(r)'
    BY <2>1, <2>2 DEF RunInv
  <2>. QED
    BY <1>6, <2>3, ExportedEffect, FitsSuffices
<1>7. ASSUME NEW r \in Runs, Failed(r) PROVE RunInv'
  BY <1>7, FailedEffect, FitsSuffices DEF Failed, RunInv
<1>8. ASSUME NEW r \in Runs, EndBackup(r) \/ EndRestore(r) PROVE RunInv'
  BY <1>8, IdleEffect, IdleFits, FitsSuffices
<1>9. ASSUME NEW r \in Runs, BeginRestore(r) PROVE RunInv'
  BY <1>9, BeginRestoreEffect, FitsSuffices
<1>10. ASSUME NEW r \in Runs, NextArchive(r) PROVE RunInv'
  <2>1. run[r].wanted \in [Files -> Names \cup {None}]
    BY DEF TypeOK, RunStates
  <2>2. /\ run'[r].used = {} /\ run'[r].made = {}
        /\ run'[r].at \in {"restoring", "importing"}
    BY <1>10, NextArchiveEffect DEF NextArchive, RunInv
  <2>3. ASSUME run'[r].at = "importing"
        PROVE  run'[r].file \in Files /\ run'[r].name \in Names
    BY <1>10, <2>1, <2>3, NextArchiveEffect
  <2>4. RunFits(r)'
    BY <2>2, <2>3
  <2>. QED
    BY <1>10, <2>4, NextArchiveEffect, FitsSuffices
<1>11. ASSUME NEW r \in Runs, Imported(r) \/ ImportFails(r) PROVE RunInv'
  BY <1>11, ImportEffect, FitsSuffices DEF Imported, ImportFails, RunInv
<1>12. CASE UNCHANGED vars
  BY <1>12 DEF vars, RunInv
<1>. QED
  BY <1>1, <1>2, <1>3, <1>4, <1>5, <1>6, <1>7, <1>8, <1>9, <1>10, <1>11, <1>12 DEF Next

----------------------------------------------------------------------------
(* Whose a file is                                                         *)

(* A step of a run that is no backup, or one that has just begun: nothing  *)
(* of the folder, the manifest or what is promised moves.                  *)
Quiet(r) ==
  /\ Moves(r)
  /\ run'[r].used = {} /\ run'[r].at \notin {"stopping", "exporting"}
  /\ UNCHANGED <<disk, claims, unlisted>>
  /\ \A q \in Others(r): taken'[q] = taken[q]

LEMMA QuietSteps ==
  ASSUME TypeOK, RunInv, NEW r \in Runs,
         \/ BeginBackup(r) \/ BeginRestore(r) \/ NextArchive(r)
         \/ Imported(r) \/ ImportFails(r) \/ EndRestore(r)
  PROVE  Quiet(r)
<1>. USE DEF Quiet, history
<1>1. CASE BeginBackup(r) \/ BeginRestore(r)
  BY <1>1, BeginBackupEffect, BeginRestoreEffect DEF BeginBackup, BeginRestore, Begin
<1>2. CASE NextArchive(r)
  BY <1>2, NextArchiveEffect DEF NextArchive, RunInv, RunFits, At
<1>3. CASE Imported(r) \/ ImportFails(r)
  BY <1>3, ImportEffect DEF Imported, ImportFails, RunInv, RunFits, At
<1>4. CASE EndRestore(r)
  BY <1>4, IdleEffect DEF EndRestore, Idle, TypeOK, Others
<1>. QED
  BY <1>1, <1>2, <1>3, <1>4

LEMMA OwnStep == ASSUME TypeOK, RunInv, OwnInv, TurnInv, [Next]_vars PROVE OwnInv'
<1>. USE DEF OwnInv, OwnFits, Own, InTurn, MadeFiles
<1>1. CASE Kill
  BY <1>1 DEF Kill, Idle
<1>2. ASSUME NEW n \in Names, Unregister(n) PROVE OwnInv'
  BY <1>2 DEF Unregister, disk, history, Others
<1>3. ASSUME NEW r \in Runs, Quiet(r) PROVE OwnInv'
  BY <1>3 DEF Quiet, Moves, OthersStay, Others, disk
<1>4. ASSUME NEW r \in Runs, Turn(r) PROVE OwnInv'
  <2>1. PICK i \in Instances, f \in Files, s \in {"stopping", "exporting"}:
          /\ At(r, "next") /\ f \notin run[r].used
          /\ Moves(r)
          /\ run'[r].at = s /\ run'[r].file = f
          /\ run'[r].used = run[r].used \cup {f} /\ run'[r].made = run[r].made
          /\ TurnTo(r, f)
          /\ folder' = folder \/ Truncate(f)
    BY <1>4, TurnEffect
  <2>2. \A g \in Files: g # f => folder'[g] = folder[g]
    BY <2>1 DEF Truncate, TypeOK
  <2>3. /\ \A q \in Others(r): run[q].used # {} => taken'[q] = taken[q] \cup {f}
        /\ taken'[r] = IF \E o \in Others(r): InTurn(o, f) THEN taken[r] \cup {f}
                       ELSE taken[r]
        /\ claims' = {c \in claims: c.file # f} /\ unlisted' = unlisted \cup {f}
    BY <2>1 DEF TurnTo, TypeOK, RunInv, RunFits, At, Others
  <2>4. ASSUME NEW q \in Others(r), NEW g \in Own(q)' PROVE OwnFits(q, g)'
    <3>1. g # f /\ g \in Own(q) /\ g \in Files
      BY <2>1, <2>3, <2>4 DEF Moves, OthersStay, Others, TypeOK, RunStates
    <3>. QED
      BY <2>1, <2>2, <2>3, <2>4, <3>1 DEF Moves, OthersStay, Others
  <2>5. ASSUME NEW g \in Own(r)' PROVE OwnFits(r, g)'
    <3>1. CASE g # f
      <4>1. g \in Own(r) /\ g \in Files /\ ~InTurn(r, g)
        BY <2>1, <2>3, <2>5, <3>1 DEF At, TypeOK, RunStates
      <4>2. \A q \in Others(r): g \notin Own(q)'
        BY <2>1, <2>3, <4>1 DEF Moves, OthersStay, Others
      <4>. QED
        BY <2>1, <2>2, <2>3, <3>1, <4>1, <4>2 DEF Moves, OthersStay, Others
    <3>2. CASE g = f
      <4>1. \A q \in Others(r): ~InTurn(q, f)
        BY <2>3, <2>5, <3>2
      <4>2. \A c \in run[r].made: c.file # f
        BY <2>1 DEF RunInv, RunFits
      <4>. QED
        BY <2>1, <2>3, <2>5, <3>2, <4>1, <4>2 DEF Moves, OthersStay, Others
    <3>. QED
      BY <3>1, <3>2
  <2>. QED
    BY <2>4, <2>5 DEF Others
<1>5. ASSUME NEW r \in Runs, Stopped(r) PROVE OwnInv'
  <2>1. \A g \in Files: g # run[r].file => folder'[g] = folder[g]
    BY <1>5 DEF Stopped, Truncate, TypeOK
  <2>. QED
    BY <1>5, <2>1, StoppedEffect
       DEF Stopped, Moves, OthersStay, Others, RunInv, RunFits, InAnyTurn, At, TypeOK,
           RunStates, history
<1>6. ASSUME NEW r \in Runs, Exported(r) PROVE OwnInv'
  <2>1. PICK d \in Data:
          /\ folder' = [folder EXCEPT ![run[r].file] = d]
          /\ Moves(r)
          /\ run'[r].at = "next" /\ run'[r].used = run[r].used
          /\ run'[r].made = run[r].made \cup {Made(r, d)}
    BY <1>6, ExportedEffect
  <2>2. /\ InAnyTurn(r) /\ run[r].file \in Files
        /\ Made(r, d).file = run[r].file /\ Made(r, d).data = d
        /\ \A c \in run[r].made: c.file # run[r].file
    BY <1>6 DEF Exported, Made, RunInv, RunFits, InAnyTurn, At, TypeOK, RunStates
  <2>3. folder'[run[r].file] = d /\ \A g \in Files: g # run[r].file => folder'[g] = folder[g]
    BY <2>1, <2>2 DEF TypeOK
  <2>4. UNCHANGED <<taken, claims, unlisted>>
    BY <1>6 DEF Exported, history
  <2>5. ASSUME NEW q \in Others(r), NEW g \in Own(q)' PROVE OwnFits(q, g)'
    <3>1. g \in Own(q) /\ g \in Files /\ g # run[r].file
      BY <2>1, <2>2, <2>4, <2>5
         DEF Moves, OthersStay, Others, TypeOK, RunStates, InAnyTurn
    <3>. QED
      BY <2>1, <2>3, <2>4, <2>5, <3>1 DEF Moves, OthersStay, Others
  <2>6. ASSUME NEW g \in Own(r)' PROVE OwnFits(r, g)'
    <3>1. g \in Own(r) /\ g \in Files
      BY <2>1, <2>4, <2>6 DEF TypeOK, RunStates
    <3>2. CASE g = run[r].file
      BY <2>1, <2>2, <2>3, <2>4, <3>1, <3>2 DEF Moves, OthersStay, Others
    <3>3. CASE g # run[r].file
      BY <2>1, <2>2, <2>3, <2>4, <3>1, <3>3 DEF Moves, OthersStay, Others
    <3>. QED
      BY <3>2, <3>3
  <2>. QED
    BY <2>5, <2>6 DEF Others
<1>7. ASSUME NEW r \in Runs, Failed(r) PROVE OwnInv'
  <2>1. /\ Moves(r) /\ run'[r].at = "next" /\ run'[r].used = run[r].used
        /\ run'[r].made = run[r].made
    BY <1>7, FailedEffect
  <2>2. /\ InAnyTurn(r) /\ run[r].file \in Files
        /\ \A c \in run[r].made: c.file # run[r].file
    BY <1>7 DEF Failed, RunInv, RunFits, InAnyTurn, At, TypeOK, RunStates
  <2>3. UNCHANGED <<claims, unlisted>> /\ \A q \in Others(r): taken'[q] = taken[q]
    BY <1>7 DEF Failed, Delete, TypeOK, Others
  <2>4. /\ \A g \in Files: g # run[r].file => folder'[g] = folder[g]
        /\ \/ folder'[run[r].file] = None /\ taken'[r] = taken[r]
           \/ run[r].file \in taken'[r] /\ taken[r] \subseteq taken'[r]
    BY <1>7, <2>2 DEF Failed, Delete, TypeOK
  <2>5. ASSUME NEW q \in Others(r), NEW g \in Own(q)' PROVE OwnFits(q, g)'
    <3>1. g \in Own(q) /\ g \in Files /\ g # run[r].file
      BY <2>1, <2>2, <2>3, <2>5
         DEF Moves, OthersStay, Others, TypeOK, RunStates, InAnyTurn
    <3>2. \A o \in Others(q): g \notin Own(o)'
      BY <2>1, <2>3, <2>4, <2>5, <3>1 DEF Moves, OthersStay, Others
    <3>. QED
      BY <2>1, <2>3, <2>4, <2>5, <3>1, <3>2 DEF Moves, OthersStay, Others
  <2>6. ASSUME NEW g \in Own(r)' PROVE OwnFits(r, g)'
    <3>1. g \in Own(r) /\ g \in Files
      BY <2>1, <2>4, <2>6 DEF TypeOK, RunStates
    <3>2. CASE g = run[r].file
      BY <2>1, <2>2, <2>3, <2>4, <2>6, <3>1, <3>2 DEF Moves, OthersStay, Others
    <3>3. CASE g # run[r].file
      BY <2>1, <2>2, <2>3, <2>4, <3>1, <3>3 DEF Moves, OthersStay, Others
    <3>. QED
      BY <3>2, <3>3
  <2>. QED
    BY <2>5, <2>6 DEF Others
<1>8. ASSUME NEW r \in Runs, EndBackup(r) PROVE OwnInv'
  <2>1. Moves(r) /\ run'[r].used = {} /\ run'[r].at = "idle"
    BY <1>8, IdleEffect DEF Idle
  <2>2. \A q \in Others(r): taken'[q] = taken[q]
    BY <1>8 DEF EndBackup, TypeOK, Others
  <2>3. /\ UNCHANGED folder
        /\ claims' = claims \cup {c \in run[r].made: c.file \notin taken[r]}
        /\ unlisted \ Own(r) \subseteq unlisted'
    BY <1>8 DEF EndBackup, Promise, TypeOK
  <2>4. \A c \in run[r].made: c.file \notin taken[r] => c.file \in Own(r)
    BY DEF RunInv, RunFits
  <2>5. ASSUME NEW q \in Others(r), NEW g \in Own(q)' PROVE OwnFits(q, g)'
    <3>1. g \in Own(q) /\ g \notin Own(r)
      BY <2>1, <2>2, <2>5 DEF Moves, OthersStay, Others
    <3>. QED
      BY <2>1, <2>2, <2>3, <2>4, <2>5, <3>1 DEF Moves, OthersStay, Others
  <2>. QED
    BY <2>1, <2>5 DEF Others
<1>9. CASE UNCHANGED vars
  BY <1>9 DEF vars, disk, history, Others
<1>. QED
  BY <1>1, <1>2, <1>3, <1>4, <1>5, <1>6, <1>7, <1>8, <1>9, QuietSteps DEF Next

LEMMA TurnStep == ASSUME TypeOK, RunInv, OwnInv, TurnInv, [Next]_vars PROVE TurnInv'
<1>. USE DEF TurnInv, InAnyTurn
<1>1. CASE Kill
  BY <1>1 DEF Kill, Idle
<1>2. ASSUME NEW n \in Names, Unregister(n) PROVE TurnInv'
  BY <1>2 DEF Unregister, history
<1>3. ASSUME NEW r \in Runs, Quiet(r) PROVE TurnInv'
  BY <1>3 DEF Quiet, Moves, OthersStay, Others
<1>4. ASSUME NEW r \in Runs, Turn(r) PROVE TurnInv'
  <2>1. PICK f \in Files: Moves(r) /\ run'[r].file = f /\ TurnTo(r, f)
    BY <1>4, TurnEffect
  <2>. QED
    BY <2>1 DEF TurnTo, Moves, OthersStay, Others
<1>5. ASSUME NEW r \in Runs, Stopped(r) PROVE TurnInv'
  BY <1>5, StoppedEffect DEF Stopped, history, Moves, OthersStay, Others, At
<1>6. ASSUME NEW r \in Runs, Exported(r) PROVE TurnInv'
  <2>1. Moves(r) /\ run'[r].at = "next"
    BY <1>6, ExportedEffect
  <2>. QED
    BY <1>6, <2>1 DEF Exported, history, Moves, OthersStay, Others
<1>7. ASSUME NEW r \in Runs, Failed(r) PROVE TurnInv'
  BY <1>7, FailedEffect DEF Failed, Moves, OthersStay, Others
<1>8. ASSUME NEW r \in Runs, EndBackup(r) PROVE TurnInv'
  <2>1. Moves(r) /\ run'[r].at = "idle"
    BY <1>8, IdleEffect DEF Idle
  <2>2. claims' = claims \cup {c \in run[r].made: c.file \notin taken[r]}
    BY <1>8 DEF EndBackup, Promise
  <2>3. ASSUME NEW c \in run[r].made, c.file \notin taken[r], NEW q \in Others(r)
        PROVE  ~InTurn(q, c.file)
    BY <2>3 DEF RunInv, RunFits, OwnInv, OwnFits, Own
  <2>. QED
    BY <2>1, <2>2, <2>3 DEF Moves, OthersStay, Others, InTurn
<1>9. CASE UNCHANGED vars
  BY <1>9 DEF vars, history
<1>. QED
  BY <1>1, <1>2, <1>3, <1>4, <1>5, <1>6, <1>7, <1>8, <1>9, QuietSteps DEF Next

----------------------------------------------------------------------------
(* What was promised, and what is listed                                   *)

(* What the manifest of a run that ends names: of the files it made those  *)
(* it made them of, of the others what the folder still holds.             *)
LEMMA MergedNames ==
  ASSUME TypeOK, RunInv, NEW r \in Runs, NEW f \in Files
  PROVE  /\ \A c \in run[r].made: c.file = f => Merged(run[r].made)[f] = c.name
         /\ f \notin MadeFiles(r) => Merged(run[r].made)[f] = Held(f)
<1>1. ASSUME NEW c \in run[r].made, c.file = f
      PROVE  (CHOOSE d \in run[r].made: d.file = f) = c
  BY <1>1 DEF RunInv, RunFits
<1>. QED
  BY <1>1 DEF Merged, MadeFiles

LEMMA PromisesStep ==
  ASSUME TypeOK, RunInv, OwnInv, TurnInv, PromisesHold, [Next]_vars
  PROVE  PromisesHold'
<1>. USE DEF PromisesHold
<1>1. CASE Kill
  <2>1. ASSUME NEW c \in claims PROVE folder'[c.file] = folder[c.file]
    <3>1. c.file \in Files /\ \A r \in Runs: InAnyTurn(r) => c.file # run[r].file
      BY DEF TypeOK, Claims, TurnInv
    <3>. QED
      BY <1>1, <3>1 DEF Kill, InAnyTurn, At
  <2>. QED
    BY <1>1, <2>1 DEF Kill
<1>2. ASSUME NEW n \in Names, Unregister(n) PROVE PromisesHold'
  BY <1>2 DEF Unregister, disk, history
<1>3. ASSUME NEW r \in Runs, Quiet(r) PROVE PromisesHold'
  BY <1>3 DEF Quiet, disk
<1>4. ASSUME NEW r \in Runs, Turn(r) PROVE PromisesHold'
  <2>1. PICK f \in Files: TurnTo(r, f) /\ (folder' = folder \/ Truncate(f))
    BY <1>4, TurnEffect
  <2>2. UNCHANGED <<listing, entry>>
    BY <1>4 DEF Turn
  <2>. QED
    BY <2>1, <2>2 DEF TurnTo, Truncate, TypeOK, Claims
<1>5. ASSUME NEW r \in Runs, Stopped(r) \/ Exported(r) \/ Failed(r) PROVE PromisesHold'
  <2>1. /\ UNCHANGED <<listing, entry, claims, unlisted>>
        /\ \A g \in Files: g # run[r].file => folder'[g] = folder[g]
    BY <1>5 DEF Stopped, Truncate, Exported, Failed, Delete, history, TypeOK
  <2>2. \A c \in claims: c.file \in Files /\ c.file # run[r].file
    BY <1>5 DEF TypeOK, Claims, TurnInv, InAnyTurn, At, Stopped, Exported, Failed
  <2>. QED
    BY <2>1, <2>2
<1>6. ASSUME NEW r \in Runs, EndBackup(r) PROVE PromisesHold'
  <2>1. UNCHANGED folder /\ claims' = claims \cup {c \in run[r].made: c.file \notin taken[r]}
    BY <1>6 DEF EndBackup, Promise
  <2>2. ASSUME NEW c \in run[r].made, c.file \notin taken[r]
        PROVE  c.file \in Files /\ c.file \in unlisted /\ folder[c.file] = c.data
    BY <2>2 DEF RunInv, RunFits, OwnInv, OwnFits, Own, TypeOK, RunStates
  <2>3. CASE UNCHANGED <<listing, entry, unlisted>>
    BY <2>1, <2>2, <2>3
  <2>4. CASE unlisted' = Files
    BY <2>1, <2>2, <2>4 DEF TypeOK, Claims
  <2>5. CASE /\ listing' = "good" /\ entry' = Merged(run[r].made)
             /\ unlisted' = (unlisted \ Own(r)) \cup (MadeFiles(r) \cap taken[r])
    <3>1. ASSUME NEW c \in run[r].made, c.file \notin taken[r]
          PROVE  entry'[c.file] = c.name
      BY <2>2, <2>5, <3>1, MergedNames
    <3>2. ASSUME NEW c \in claims, c.file \notin unlisted' PROVE entry'[c.file] = c.name
      <4>1. c.file \in Files /\ c.file \notin Own(r) /\ c.data # None
        BY Constants DEF TypeOK, Claims, OwnInv, OwnFits
      <4>2. c.file \notin unlisted /\ c.file \notin MadeFiles(r)
        BY <2>5, <3>2, <4>1 DEF Own, MadeFiles, RunInv, RunFits
      <4>. QED
        BY <2>5, <4>1, <4>2, MergedNames DEF Held
    <3>. QED
      BY <2>1, <2>2, <2>5, <3>1, <3>2
  <2>. QED
    BY <1>6, <2>3, <2>4, <2>5 DEF EndBackup, Own
<1>7. CASE UNCHANGED vars
  BY <1>7 DEF vars, disk, history
<1>. QED
  BY <1>1, <1>2, <1>3, <1>4, <1>5, <1>6, <1>7, QuietSteps DEF Next

LEMMA ListedStep ==
  ASSUME TypeOK, RunInv, OwnInv, ListedIsKept, [Next]_vars
  PROVE  ListedIsKept'
<1>. USE DEF ListedIsKept
<1>1. CASE Kill
  BY <1>1 DEF Kill
<1>2. ASSUME NEW n \in Names, Unregister(n) PROVE ListedIsKept'
  BY <1>2 DEF Unregister, disk, history
<1>3. ASSUME NEW r \in Runs, Quiet(r) PROVE ListedIsKept'
  BY <1>3 DEF Quiet, disk
<1>4. ASSUME NEW r \in Runs, Turn(r) PROVE ListedIsKept'
  <2>1. PICK f \in Files: TurnTo(r, f)
    BY <1>4, TurnEffect
  <2>2. UNCHANGED <<listing, entry>>
    BY <1>4 DEF Turn
  <2>. QED
    BY <2>1, <2>2 DEF TurnTo
<1>5. ASSUME NEW r \in Runs, Stopped(r) \/ Exported(r) \/ Failed(r) PROVE ListedIsKept'
  BY <1>5 DEF Stopped, Exported, Failed, history
<1>6. ASSUME NEW r \in Runs, EndBackup(r) PROVE ListedIsKept'
  <2>1. claims' = claims \cup {c \in run[r].made: c.file \notin taken[r]}
    BY <1>6 DEF EndBackup, Promise
  <2>2. CASE UNCHANGED <<listing, entry, unlisted>>
    BY <2>1, <2>2
  <2>3. CASE listing' = "torn"
    BY <2>3
  <2>4. CASE /\ listing' = "good" /\ entry' = Merged(run[r].made)
             /\ unlisted' = (unlisted \ Own(r)) \cup (MadeFiles(r) \cap taken[r])
    <3>1. SUFFICES ASSUME NEW f \in Files, entry'[f] # None, f \notin unlisted'
                   PROVE  \E c \in claims': c.file = f /\ c.name = entry'[f]
      OBVIOUS
    <3>2. CASE f \in MadeFiles(r)
      <4>1. PICK c \in run[r].made: c.file = f
        BY <3>2 DEF MadeFiles
      <4>2. c.file \notin taken[r] /\ entry'[f] = c.name
        BY <2>4, <3>1, <3>2, <4>1, MergedNames
      <4>. QED
        BY <2>1, <4>1, <4>2
    <3>3. CASE f \notin MadeFiles(r)
      <4>1. entry'[f] = Held(f)
        BY <2>4, <3>3, MergedNames
      <4>2. listing = "good" /\ folder[f] # None /\ entry'[f] = entry[f]
        BY <3>1, <4>1 DEF Held
      <4>3. f \notin Own(r)
        BY <1>6, <3>3, <4>2 DEF OwnInv, OwnFits, EndBackup, At, InTurn
      <4>. QED
        BY <2>1, <2>4, <3>1, <4>2, <4>3
    <3>. QED
      BY <3>2, <3>3
  <2>. QED
    BY <1>6, <2>2, <2>3, <2>4 DEF EndBackup, Own
<1>7. CASE UNCHANGED vars
  BY <1>7 DEF vars, disk, history
<1>. QED
  BY <1>1, <1>2, <1>3, <1>4, <1>5, <1>6, <1>7, QuietSteps DEF Next

----------------------------------------------------------------------------
(* Restores                                                                *)

(* Another run's step leaves a restore alone, if it takes back what was    *)
(* promised only of the files it enters as taken.                          *)
LEMMA OthersRestore ==
  ASSUME TypeOK, RestoreInv, NEW r \in Runs, Moves(r),
         NEW q \in Others(r), taken[q] \subseteq taken'[q],
         \A c \in claims: c \in claims' \/ c.file \in taken'[q]
  PROVE  RestoreFits(q)'
BY DEF RestoreInv, RestoreFits, Promised, Moves, OthersStay, Others, At

LEMMA RestoreStep ==
  ASSUME TypeOK, RunInv, ListedIsKept, RestoreInv, [Next]_vars
  PROVE  RestoreInv'
<1>. USE DEF RestoreInv
<1>. DEFINE NoRestore(r) == run'[r].sure = {}
<1>1. ASSUME NEW r \in Runs, NoRestore(r) PROVE RestoreFits(r)'
  BY <1>1 DEF RestoreFits
<1>2. CASE Kill
  BY <1>1, <1>2 DEF Kill, Idle
<1>3. ASSUME NEW n \in Names, Unregister(n) PROVE RestoreInv'
  BY <1>3 DEF Unregister, history, RestoreFits, Promised, At
<1>4. ASSUME NEW r \in Runs, Quiet(r), RestoreFits(r)' PROVE RestoreInv'
  BY <1>4, OthersRestore DEF Quiet, Others
<1>5. ASSUME NEW r \in Runs, BeginBackup(r) PROVE RestoreInv'
  BY <1>1, <1>4, <1>5, BeginBackupEffect, QuietSteps
<1>6. ASSUME NEW r \in Runs, BeginRestore(r) PROVE RestoreInv'
  <2>1. UNCHANGED <<claims, taken>>
    BY <1>6 DEF BeginRestore, Begin, history
  <2>2. ASSUME NEW f \in run'[r].sure PROVE run'[r].wanted[f] # None =>
                                              Promised(f, run'[r].wanted[f])
    <3>1. listing = "good" /\ f \in Files /\ f \notin unlisted
      BY <1>6, <2>2, BeginRestoreEffect
    <3>2. run'[r].wanted[f] \in {entry[f], None}
      BY <1>6, <3>1, BeginRestoreEffect DEF Inspected
    <3>. QED
      BY <3>1, <3>2 DEF ListedIsKept, Promised
  <2>3. RestoreFits(r)'
    BY <1>6, <2>1, <2>2, BeginRestoreEffect DEF RestoreFits, Promised, At
  <2>. QED
    BY <1>4, <1>6, <2>3, QuietSteps
<1>7. ASSUME NEW r \in Runs, NextArchive(r) \/ Imported(r) \/ ImportFails(r)
      PROVE  RestoreInv'
  <2>1. UNCHANGED <<claims, taken>>
    BY <1>7 DEF NextArchive, Imported, ImportFails, history
  <2>2. run'[r].sure = run[r].sure /\ run[r].sure \subseteq Files
    BY <1>7, NextArchiveEffect, ImportEffect DEF TypeOK, RunStates
  <2>3. \A f \in Files: run'[r].wanted[f] \in {run[r].wanted[f], None}
    BY <1>7, NextArchiveEffect, ImportEffect
  <2>4. run'[r].at = "importing" => /\ run'[r].name = run[r].wanted[run'[r].file]
                                    /\ run'[r].name # None
    BY <1>7, NextArchiveEffect, ImportEffect
  <2>5. RestoreFits(r)'
    BY <2>1, <2>2, <2>3, <2>4 DEF RestoreFits, Promised, At
  <2>. QED
    BY <1>4, <1>7, <2>5, QuietSteps
<1>8. ASSUME NEW r \in Runs, Turn(r) PROVE RestoreInv'
  <2>1. PICK f \in Files: /\ At(r, "next") /\ Moves(r) /\ run'[r].sure = run[r].sure
                          /\ TurnTo(r, f)
    BY <1>8, TurnEffect
  <2>2. NoRestore(r)
    BY <2>1 DEF RunInv, RunFits, At
  <2>3. ASSUME NEW q \in Others(r) PROVE RestoreFits(q)'
    <3>1. CASE At(q, "idle")
      BY <2>1, <2>3, <3>1, <1>1 DEF RunInv, RunFits, At, Moves, OthersStay, Others
    <3>2. CASE ~At(q, "idle")
      BY <2>1, <2>3, <3>2, OthersRestore DEF TurnTo, Others, TypeOK
    <3>. QED
      BY <3>1, <3>2
  <2>. QED
    BY <1>1, <2>2, <2>3 DEF Others
<1>9. ASSUME NEW r \in Runs, Stopped(r) \/ Exported(r) \/ Failed(r) PROVE RestoreInv'
  <2>1. Moves(r) /\ run'[r].sure = run[r].sure /\ InAnyTurn(r)
    BY <1>9, StoppedEffect, ExportedEffect, FailedEffect
       DEF Stopped, Exported, Failed, InAnyTurn, At
  <2>2. NoRestore(r)
    BY <2>1 DEF RunInv, RunFits, InAnyTurn
  <2>3. UNCHANGED claims /\ \A q \in Others(r): taken'[q] = taken[q]
    BY <1>9 DEF Stopped, Exported, Failed, Delete, history, TypeOK, Others
  <2>. QED
    BY <1>1, <2>1, <2>2, <2>3, OthersRestore DEF Others
<1>10. ASSUME NEW r \in Runs, EndBackup(r) \/ EndRestore(r) PROVE RestoreInv'
  <2>1. Moves(r) /\ NoRestore(r)
    BY <1>10, IdleEffect DEF Idle
  <2>2. claims \subseteq claims' /\ \A q \in Others(r): taken'[q] = taken[q]
    BY <1>10 DEF EndBackup, EndRestore, Promise, TypeOK, Others
  <2>. QED
    BY <1>1, <2>1, <2>2, OthersRestore DEF Others
<1>11. CASE UNCHANGED vars
  BY <1>11 DEF vars, history, RestoreFits, Promised, At
<1>. QED
  BY <1>2, <1>3, <1>5, <1>6, <1>7, <1>8, <1>9, <1>10, <1>11 DEF Next

----------------------------------------------------------------------------
(* The theorems                                                            *)

LEMMA Inductive ==
  /\ Init => IInv
  /\ IInv /\ [Next]_vars => IInv'
<1>1. Init => IInv
  <2>1. Init => TypeOK
    BY IdleType, Constants, BackupAssumption DEF Init, TypeOK
  <2>2. Init => RunInv /\ OwnInv /\ TurnInv /\ RestoreInv
    BY DEF Init, RunInv, RunFits, OwnInv, Own, TurnInv, RestoreInv, RestoreFits, Idle,
           InAnyTurn, At
  <2>3. Init => PromisesHold /\ ListedIsKept
    BY DEF Init, PromisesHold, ListedIsKept
  <2>. QED
    BY <2>1, <2>2, <2>3 DEF IInv
<1>2. IInv /\ [Next]_vars => IInv'
  BY TypeStep, RunStep, OwnStep, TurnStep, PromisesStep, ListedStep, RestoreStep DEF IInv
<1>. QED
  BY <1>1, <1>2

LEMMA Invariant == Spec => []IInv
BY Inductive, PTL DEF Spec

(* The state keeps its types, for any instances and runs.                  *)
THEOREM TypeCorrect == Spec => []TypeOK
BY Invariant, PTL DEF IInv

(* An archive a run reported as made stays whole, and listed for its       *)
(* instance, until a run turns to its file (_archiveFileName,              *)
(* _writeManifest).                                                        *)
THEOREM PromisesKept == Spec => []PromisesHold
BY Invariant, PTL DEF IInv

(* The manifest names finished archives of the right instance only         *)
(* (_writeManifest, the catch of backup()).                                *)
THEOREM ListedKept == Spec => []ListedIsKept
BY Invariant, PTL DEF IInv

(* A restore makes of a file what was backed up under the name it gives it *)
(* (inspect, restore).                                                     *)
THEOREM RestoredKept == Spec => RestoredIsKept
<1>. DEFINE Kept(r) ==
       /\ At(r, "importing") /\ run[r].file \in run[r].sure \ taken[r]
       /\ run'[r].at = "restoring" /\ world' # world
       => [file |-> run[r].file, name |-> run[r].name, data |-> world'[run[r].name]]
            \in claims
<1>1. ASSUME IInv, [Next]_vars, NEW r \in Runs PROVE Kept(r)
  <2>1. SUFFICES ASSUME At(r, "importing"), run[r].file \in run[r].sure \ taken[r],
                        run'[r].at = "restoring", world' # world
                 PROVE  [file |-> run[r].file, name |-> run[r].name,
                         data |-> world'[run[r].name]] \in claims
    OBVIOUS
  <2>2. PICK c \in claims: c.file = run[r].file /\ c.name = run[r].name
    BY <1>1, <2>1 DEF IInv, RestoreInv, RestoreFits, Promised
  <2>3. Imported(r)
    <3>1. ASSUME NEW n \in Names, Unregister(n) PROVE FALSE
      BY <2>1, <3>1 DEF Unregister, At
    <3>2. ASSUME NEW q \in Runs, Imported(q) PROVE q = r
      <4>1. Moves(q)
        BY <1>1, <3>2, ImportEffect DEF IInv
      <4>. QED
        BY <2>1, <4>1 DEF Moves, OthersStay, Others, At
    <3>3. ASSUME NEW q \in Runs,
                 \/ BeginBackup(q) \/ Turn(q) \/ Stopped(q) \/ Exported(q) \/ Failed(q)
                 \/ EndBackup(q) \/ BeginRestore(q) \/ NextArchive(q) \/ ImportFails(q)
                 \/ EndRestore(q)
          PROVE  FALSE
      <4>1. UNCHANGED world
        BY <3>3 DEF BeginBackup, BeginRestore, Begin, Turn, Stopped, Exported, Failed,
                    EndBackup, NextArchive, ImportFails, EndRestore
      <4>. QED
        BY <2>1, <4>1
    <3>4. ~Kill /\ ~UNCHANGED vars
      BY <2>1 DEF Kill, vars
    <3>. QED
      BY <1>1, <3>1, <3>2, <3>3, <3>4 DEF Next
  <2>4. world'[run[r].name] = folder[run[r].file]
    BY <1>1, <2>3 DEF Imported, IInv, TypeOK, RunInv, RunFits
  <2>5. c \in Claims /\ folder[c.file] = c.data
    BY <1>1 DEF IInv, TypeOK, PromisesHold
  <2>6. c = [file |-> run[r].file, name |-> run[r].name, data |-> world'[run[r].name]]
    BY <2>2, <2>4, <2>5 DEF Claims
  <2>. QED
    BY <2>2, <2>6
<1>2. IInv /\ [Next]_vars => \A r \in Runs: Kept(r)
  BY <1>1
<1>3. (\A r \in Runs: Kept(r)) <=>
        \A r \in Runs:
          LET n == run[r].name
              f == run[r].file IN
          /\ At(r, "importing") /\ f \in run[r].sure \ taken[r]
          /\ run'[r].at = "restoring" /\ world' # world
          => [file |-> f, name |-> n, data |-> world'[n]] \in claims
  OBVIOUS
<1>. HIDE DEF Kept
<1>. QED
  BY <1>2, <1>3, Invariant, PTL DEF Spec, RestoredIsKept
=============================================================================
