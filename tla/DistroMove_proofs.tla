-------------------------- MODULE DistroMove_proofs --------------------------
(***************************************************************************)
(* Moving an instance by export, unregister and import loses no contents,  *)
(* for any number of instances, folders and concurrent moves, crashes      *)
(* included, as long as no move is aimed at a file another one needs.      *)
(***************************************************************************)
EXTENDS DistroMove, TLAPS

Ops == {Idle} \cup [pc: Steps, distro: Distros, folder: Folders]

(* What a busy move's record is made of, and where its file is.            *)
LEMMA BusyTyped ==
  ASSUME TypeOK, NEW m \in Moves, op[m].pc \in Steps
  PROVE  /\ Busy(m)
         /\ op[m] \in [pc: Steps, distro: Distros, folder: Folders]
         /\ op[m].distro \in Distros /\ op[m].folder \in Folders
         /\ FileOf(m) \in Files
BY DEF TypeOK, Busy, Steps, Idle, FileOf, Files

(* The host is the same throughout.                                        *)
LEMMA HostFixed == [Next]_vars => host' = host
BY DEF Next, vars, Move, NativeMove, ExportBegins, ExportEnds, CheckExport,
       MarkDistro, MarkPath, Unregister, Import, DeleteExport, ClearDistro,
       ClearPath, Crash, Start, Dismiss

(* A busy move going on or ending.                                         *)
LEMMA GotoTyped ==
  ASSUME TypeOK, NEW m \in Moves, op[m].pc \in Steps, NEW pc \in Steps, Goto(m, pc)
  PROVE  /\ op' \in [Moves -> Ops]
         /\ op'[m] = [pc |-> pc, distro |-> op[m].distro, folder |-> op[m].folder]
         /\ \A n \in Moves: n # m => op'[n] = op[n]
BY BusyTyped DEF TypeOK, Goto, Ops

LEMMA EndsTyped ==
  ASSUME TypeOK, NEW m \in Moves, Ends(m)
  PROVE  /\ op' \in [Moves -> Ops]
         /\ op'[m] = Idle
         /\ \A n \in Moves: n # m => op'[n] = op[n]
BY DEF TypeOK, Ends, Ops
-----------------------------------------------------------------------------
(* The recovery dialog opens on a marker and before any move begins.       *)
DialogInv ==
  /\ dialog => up /\ markD # None
  /\ dialog \/ ~up => \A m \in Moves: op[m] = Idle

LEMMA TypeStep == TypeOK /\ DialogInv /\ [Next]_vars => TypeOK'
<1> SUFFICES ASSUME TypeOK, DialogInv, [Next]_vars PROVE TypeOK'
  OBVIOUS
<1>1. ASSUME NEW m \in Moves, NEW d \in Distros, NEW f \in Folders, Move(m, d, f)
      PROVE  TypeOK'
  BY <1>1, MoveAssumption DEF Move, TypeOK, Steps
<1>2. ASSUME NEW m \in Moves, NativeMove(m) PROVE TypeOK'
  <2>1. op[m].pc \in Steps
    BY <1>2 DEF NativeMove, Steps
  <2> QED BY <1>2, <2>1, BusyTyped, EndsTyped DEF NativeMove, ReportFailure, TypeOK, Ops
<1>3. ASSUME NEW m \in Moves, ExportBegins(m) PROVE TypeOK'
  <2>1. op[m].pc \in Steps /\ "export" \in Steps
    BY <1>3 DEF ExportBegins, Steps
  <2>2. [of |-> holds[op[m].distro], grade |-> "writing"] \in Exports
    BY <2>1, BusyTyped DEF TypeOK, Exports
  <2> QED BY <1>3, <2>1, <2>2, BusyTyped, EndsTyped, GotoTyped DEF ExportBegins, TypeOK, Ops
<1>4. ASSUME NEW m \in Moves, ExportEnds(m) PROVE TypeOK'
  <2>1. op[m].pc \in Steps /\ "check" \in Steps
    BY <1>4 DEF ExportEnds, Steps
  <2>2. \A g \in {"small", "good"}: [of |-> holds[op[m].distro], grade |-> g] \in Exports
    BY <2>1, BusyTyped DEF TypeOK, Exports
  <2> QED BY <1>4, <2>1, <2>2, BusyTyped, EndsTyped, GotoTyped DEF ExportEnds, TypeOK, Ops
<1>5. ASSUME NEW m \in Moves, CheckExport(m) PROVE TypeOK'
  <2>1. op[m].pc \in Steps /\ "markD" \in Steps
    BY <1>5 DEF CheckExport, Steps
  <2>2. Deleted(m) \in [Files -> Exports \cup {None}]
    BY DEF Deleted, TypeOK
  <2> QED BY <1>5, <2>1, <2>2, BusyTyped, EndsTyped, GotoTyped DEF CheckExport, TypeOK, Ops
<1>6. ASSUME NEW m \in Moves, MarkDistro(m) \/ MarkPath(m) PROVE TypeOK'
  <2>1. op[m].pc \in Steps /\ "markP" \in Steps /\ "unregister" \in Steps
    BY <1>6 DEF MarkDistro, MarkPath, Steps
  <2> QED BY <1>6, <2>1, BusyTyped, GotoTyped DEF MarkDistro, MarkPath, TypeOK, Ops
<1>7. ASSUME NEW m \in Moves, Unregister(m) PROVE TypeOK'
  <2>1. op[m].pc \in Steps /\ "import" \in Steps
    BY <1>7 DEF Unregister, Steps
  <2> QED BY <1>7, <2>1, BusyTyped, EndsTyped, GotoTyped DEF Unregister, TypeOK, Ops
<1>8. ASSUME NEW m \in Moves, Import(m) PROVE TypeOK'
  <2>1. op[m].pc \in Steps /\ "delete" \in Steps
    BY <1>8 DEF Import, Steps
  <2>2. tar[FileOf(m)] # None => tar[FileOf(m)].of \in Distros
    BY <2>1, BusyTyped DEF TypeOK, Exports
  <2>3. op' \in [Moves -> Ops]
    BY <1>8, <2>1, EndsTyped, GotoTyped DEF Import
  <2>4. /\ place' \in [Distros -> Folders \cup {None}]
        /\ holds' \in [Distros -> Distros]
        /\ told' \subseteq Distros
    BY <1>8, <2>1, <2>2, BusyTyped DEF Import, TypeOK
  <2> QED BY <1>8, <2>3, <2>4 DEF Import, TypeOK, Ops
<1>9. ASSUME NEW m \in Moves, DeleteExport(m) PROVE TypeOK'
  <2>1. op[m].pc \in Steps /\ "clearD" \in Steps
    BY <1>9 DEF DeleteExport, Steps
  <2>2. op' \in [Moves -> Ops]
    BY <1>9, <2>1, EndsTyped, GotoTyped DEF DeleteExport
  <2>3. told' \subseteq Distros /\ tar' \in [Files -> Exports \cup {None}]
    <3>1. Deleted(m) \in [Files -> Exports \cup {None}]
      BY DEF Deleted, TypeOK
    <3> QED BY <1>9, <2>1, <3>1, BusyTyped DEF DeleteExport, TypeOK
  <2> QED BY <1>9, <2>2, <2>3 DEF DeleteExport, TypeOK, Ops
<1>10. ASSUME NEW m \in Moves, ClearDistro(m) \/ ClearPath(m) PROVE TypeOK'
  <2>1. op[m].pc \in Steps /\ "clearP" \in Steps
    BY <1>10 DEF ClearDistro, ClearPath, Steps
  <2> QED BY <1>10, <2>1, EndsTyped, GotoTyped DEF ClearDistro, ClearPath, TypeOK, Ops
<1>11. CASE Crash \/ Start
  BY <1>11 DEF Crash, Start, TypeOK
<1>12. CASE Dismiss
  BY <1>12 DEF Dismiss, DialogInv, TypeOK
<1>13. CASE UNCHANGED vars
  BY <1>13 DEF vars, TypeOK
<1> QED
  BY <1>1, <1>2, <1>3, <1>4, <1>5, <1>6, <1>7, <1>8, <1>9, <1>10, <1>11, <1>12, <1>13
     DEF Next

LEMMA DialogStep == TypeOK /\ DialogInv /\ [Next]_vars => DialogInv'
<1> SUFFICES ASSUME TypeOK, DialogInv, [Next]_vars PROVE DialogInv'
  OBVIOUS
<1>1. CASE Crash \/ Dismiss
  BY <1>1 DEF DialogInv, Crash, Dismiss, TypeOK
<1>2. CASE Start
  <2>1. dialog' => markD # None
    BY <1>2 DEF Start
  <2> QED BY <1>2, <2>1 DEF DialogInv, Start
<1>3. CASE UNCHANGED vars
  BY <1>3 DEF vars, DialogInv
<1>4. ASSUME NEW m \in Moves, NEW d \in Distros, NEW f \in Folders, Move(m, d, f)
      PROVE  DialogInv'
  BY <1>4 DEF Move, DialogInv, TypeOK
<1>5. ASSUME NEW m \in Moves, op[m].pc # "idle", up' = up, dialog' = dialog PROVE DialogInv'
  <2>1. op[m] # Idle
    BY <1>5 DEF Idle
  <2> QED BY <1>5, <2>1 DEF DialogInv
<1> QED
  BY <1>1, <1>2, <1>3, <1>4, <1>5 DEF Next, NativeMove, ExportBegins, ExportEnds, CheckExport,
     MarkDistro, MarkPath, Unregister, Import, DeleteExport, ClearDistro, ClearPath

LEMMA InitTyped == Init => TypeOK /\ DialogInv
<1> SUFFICES ASSUME Init PROVE TypeOK /\ DialogInv
  OBVIOUS
<1>1. place \in [Distros -> Folders \cup {None}] /\ holds \in [Distros -> Distros]
  BY MoveAssumption DEF Init
<1>2. op \in [Moves -> {Idle} \cup [pc: Steps, distro: Distros, folder: Folders]]
  BY DEF Init
<1>3. started \in 0..MaxMoves
  BY MoveAssumption DEF Init
<1>4. TypeOK
  BY <1>1, <1>2, <1>3 DEF Init, TypeOK
<1> QED
  BY <1>4 DEF Init, DialogInv

(* The state of the instances, their exports and the marker keeps its type.*)
THEOREM TypeCorrect == Spec => []TypeOK
<1>1. Init => TypeOK /\ DialogInv
  BY InitTyped
<1> QED
  BY <1>1, TypeStep, DialogStep, PTL DEF Spec
-----------------------------------------------------------------------------

Exported(m) == op[m].pc \in {"markD", "markP", "unregister", "import"}

(* The moves in progress concern different instances and different files.  *)
Apart == \A m, n \in Moves:
           (Busy(m) /\ Busy(n) /\ m # n) =>
             op[m].distro # op[n].distro /\ FileOf(m) # FileOf(n)

(* What a move's file holds, as far as the move has got.                   *)
FileFits(m) ==
  /\ Busy(m) /\ tar[FileOf(m)] # None => tar[FileOf(m)].of = op[m].distro
  /\ op[m].pc = "check" => tar[FileOf(m)] # None /\ tar[FileOf(m)].grade # "writing"
  /\ Exported(m) => Backup(op[m].distro, FileOf(m))
  /\ op[m].pc = "delete" => place[op[m].distro] # None

Kept == \A d \in Distros: place[d] # None \/ \E f \in Files: Backup(d, f)

MoveInv ==
  /\ Apart
  /\ \A m \in Moves: FileFits(m)
  /\ holds = [d \in Distros |-> d]
  /\ Kept

(* A step of m that only touches m's file and m's instance leaves every    *)
(* other move as it was.                                                   *)
LEMMA OthersStep ==
  ASSUME TypeOK, MoveInv, NEW m \in Moves, op[m].pc \in Steps,
         op' \in [Moves -> Ops],
         host' = host,
         \A n \in Moves: n # m => op'[n] = op[n],
         \/ op'[m] = Idle
         \/ \E pc \in Steps: op'[m] = [pc |-> pc, distro |-> op[m].distro, folder |-> op[m].folder],
         \A f \in Files: f # FileOf(m) => tar'[f] = tar[f],
         \A d \in Distros: d # op[m].distro => place'[d] = place[d]
  PROVE  Apart' /\ \A n \in Moves: n # m => FileFits(n)'
<1>1. \A n \in Moves: n # m => (Busy(n)' <=> Busy(n)) /\ FileOf(n)' = FileOf(n)
  BY DEF Busy, FileOf
<1>2. Busy(m) /\ (Busy(m)' => FileOf(m)' = FileOf(m) /\ op'[m].distro = op[m].distro)
  BY BusyTyped DEF Busy, FileOf, Idle
<1>3. Apart'
  BY <1>1, <1>2 DEF MoveInv, Apart
<1>4. ASSUME NEW n \in Moves, n # m PROVE FileFits(n)'
  <2>1. CASE op[n] = Idle
    BY <1>4, <2>1 DEF FileFits, Busy, Exported, Idle
  <2>2. CASE op[n] # Idle
    <3>1. op[n].pc \in Steps
      BY <2>2 DEF TypeOK
    <3>2. /\ Busy(n) /\ FileOf(n) \in Files /\ op[n].distro \in Distros
          /\ FileOf(n) # FileOf(m) /\ op[n].distro # op[m].distro
      BY <1>2, <1>4, <3>1, BusyTyped DEF MoveInv, Apart
    <3>3. tar'[FileOf(n)] = tar[FileOf(n)] /\ place'[op[n].distro] = place[op[n].distro]
      BY <3>2
    <3>4. FileFits(n)
      BY DEF MoveInv
    <3> QED
      BY <1>1, <1>4, <3>3, <3>4 DEF FileFits, Exported, Backup
  <2> QED BY <2>1, <2>2
<1> QED
  BY <1>3, <1>4

LEMMA IdleFits == ASSUME NEW m \in Moves, op'[m] = Idle PROVE FileFits(m)'
BY DEF FileFits, Busy, Exported, Idle

(* An export that was just written is not the absence of one.              *)
LEMMA NoneIsNoExport ==
  ASSUME NEW d \in Distros, NEW g \in {"writing", "small", "good"}
  PROVE  [of |-> d, grade |-> g] # None
BY MoveAssumption DEF Exports

LEMMA MoveInvStep ==
  ASSUME Careless = FALSE, TypeOK, TypeOK', MoveInv, [Next]_vars
  PROVE  MoveInv'
<1>0. host' = host
  BY HostFixed
<1> USE <1>0
<1>1. ASSUME NEW m \in Moves, NEW d \in Distros, NEW f \in Folders, Move(m, d, f)
      PROVE  MoveInv'
  <2> DEFINE file == IF host.remote THEN d ELSE f
  <2>1. /\ op'[m] = [pc |-> "begin", distro |-> d, folder |-> f]
        /\ \A n \in Moves: n # m => op'[n] = op[n]
        /\ ~Busy(m)
        /\ tar' = tar /\ place' = place /\ holds' = holds
    BY <1>1 DEF Move, TypeOK
  <2>2. /\ tar[file] # None => tar[file].of = d
        /\ \A n \in Moves: Busy(n) => op[n].distro # d /\ FileOf(n) # file
    BY <1>1 DEF Move
  <2>3. FileOf(m)' = file /\ op'[m].distro = d /\ op'[m].pc = "begin"
    BY <2>1 DEF FileOf
  <2>4. \A n \in Moves: n # m => (Busy(n)' <=> Busy(n)) /\ FileOf(n)' = FileOf(n)
    BY <2>1 DEF Busy, FileOf
  <2> HIDE DEF file
  <2>5. Apart'
    BY <2>1, <2>2, <2>3, <2>4 DEF MoveInv, Apart
  <2>6. ASSUME NEW n \in Moves, n # m PROVE FileFits(n)'
    <3>1. FileFits(n)
      BY DEF MoveInv
    <3> QED BY <2>1, <2>4, <2>6, <3>1 DEF FileFits, Exported, Backup
  <2>7. FileFits(m)'
    BY <2>1, <2>2, <2>3 DEF FileFits, Exported
  <2>8. Kept'
    BY <2>1 DEF MoveInv, Kept, Backup
  <2> QED
    BY <2>1, <2>5, <2>6, <2>7, <2>8 DEF MoveInv
<1>2. ASSUME NEW m \in Moves, NativeMove(m) PROVE MoveInv'
  <2>1. op[m].pc = "begin" /\ op[m].pc \in Steps
    BY <1>2 DEF NativeMove, Steps
  <2>2. /\ op'[m] = Idle /\ op' \in [Moves -> Ops]
        /\ \A n \in Moves: n # m => op'[n] = op[n]
    BY <1>2, EndsTyped DEF NativeMove, ReportFailure
  <2>3. tar' = tar /\ holds' = holds
    BY <1>2 DEF NativeMove
  <2>4. /\ \A d \in Distros: d # op[m].distro => place'[d] = place[d]
        /\ \A d \in Distros: place[d] # None => place'[d] # None
    BY <1>2, <2>1, BusyTyped, MoveAssumption DEF NativeMove, TypeOK
  <2>5. Apart' /\ \A n \in Moves: n # m => FileFits(n)'
    BY <2>1, <2>2, <2>3, <2>4, OthersStep
  <2>6. FileFits(m)'
    BY <2>2 DEF FileFits, Busy, Exported, Idle
  <2>7. Kept'
    BY <2>3, <2>4 DEF MoveInv, Kept, Backup
  <2> QED
    BY <2>3, <2>5, <2>6, <2>7 DEF MoveInv
<1>3. ASSUME NEW m \in Moves, ExportBegins(m) PROVE MoveInv'
  <2>1. op[m].pc = "begin" /\ op[m].pc \in Steps /\ "export" \in Steps
    BY <1>3 DEF ExportBegins, Steps
  <2>2. op[m].distro \in Distros /\ FileOf(m) \in Files /\ Busy(m)
    BY <2>1, BusyTyped
  <2>3. place' = place /\ holds' = holds /\ holds[op[m].distro] = op[m].distro
    BY <1>3, <2>2 DEF ExportBegins, MoveInv
  <2>4. CASE place[op[m].distro] = None
    <3>1. Ends(m) /\ tar' = tar
      BY <1>3, <2>4 DEF ExportBegins
    <3> QED
      BY <2>1, <2>3, <3>1, EndsTyped, OthersStep, IdleFits DEF MoveInv, Kept, Backup
  <2>5. CASE place[op[m].distro] # None
    <3>1. /\ Goto(m, "export")
          /\ tar' = [tar EXCEPT ![FileOf(m)] = [of |-> op[m].distro, grade |-> "writing"]]
      BY <1>3, <2>3, <2>5 DEF ExportBegins
    <3>2. /\ op'[m].pc = "export" /\ op'[m].distro = op[m].distro /\ FileOf(m)' = FileOf(m)
          /\ op' \in [Moves -> Ops] /\ \A n \in Moves: n # m => op'[n] = op[n]
          /\ op'[m] = [pc |-> "export", distro |-> op[m].distro, folder |-> op[m].folder]
      BY <2>1, <3>1, GotoTyped DEF FileOf
    <3>3. /\ tar'[FileOf(m)] = [of |-> op[m].distro, grade |-> "writing"]
          /\ \A f \in Files: f # FileOf(m) => tar'[f] = tar[f]
      BY <2>2, <3>1 DEF TypeOK
    <3>4. Apart' /\ \A n \in Moves: n # m => FileFits(n)'
      BY <2>1, <2>3, <3>2, <3>3, OthersStep
    <3>5. FileFits(m)'
      BY <3>2, <3>3 DEF FileFits, Exported
    <3>6. ASSUME NEW d \in Distros PROVE place'[d] # None \/ \E f \in Files: Backup(d, f)'
      <4>1. CASE place[d] # None
        BY <2>3, <4>1
      <4>2. CASE place[d] = None
        <5>1. PICK f \in Files: Backup(d, f)
          BY <4>2 DEF MoveInv, Kept
        <5>2. tar[FileOf(m)] # None => tar[FileOf(m)].of = op[m].distro
          BY <2>2 DEF MoveInv, FileFits
        <5>3. f # FileOf(m)
          BY <2>5, <4>2, <5>1, <5>2 DEF Backup
        <5> QED BY <3>3, <5>1, <5>3 DEF Backup
      <4> QED BY <4>1, <4>2
    <3> QED
      BY <2>3, <3>4, <3>5, <3>6 DEF MoveInv, Kept
  <2> QED
    BY <2>4, <2>5
<1>4. ASSUME NEW m \in Moves, ExportEnds(m) PROVE MoveInv'
  <2>1. op[m].pc = "export" /\ op[m].pc \in Steps /\ "check" \in Steps
    BY <1>4 DEF ExportEnds, Steps
  <2>2. op[m].distro \in Distros /\ FileOf(m) \in Files /\ Busy(m)
    BY <2>1, BusyTyped
  <2>3. place' = place /\ holds' = holds /\ holds[op[m].distro] = op[m].distro
    BY <1>4, <2>2 DEF ExportEnds, MoveInv
  <2>4. CASE Ends(m) /\ tar' = tar
    BY <2>1, <2>3, <2>4, EndsTyped, OthersStep, IdleFits DEF MoveInv, Kept, Backup
  <2>5. ASSUME NEW g \in {"small", "good"}, place[op[m].distro] # None, Goto(m, "check"),
               tar' = [tar EXCEPT ![FileOf(m)] = [of |-> op[m].distro, grade |-> g]]
        PROVE  MoveInv'
    <3>2. /\ op'[m].pc = "check" /\ op'[m].distro = op[m].distro /\ FileOf(m)' = FileOf(m)
          /\ op' \in [Moves -> Ops] /\ \A n \in Moves: n # m => op'[n] = op[n]
          /\ op'[m] = [pc |-> "check", distro |-> op[m].distro, folder |-> op[m].folder]
      BY <2>1, <2>5, GotoTyped DEF FileOf
    <3>3. /\ tar'[FileOf(m)] = [of |-> op[m].distro, grade |-> g]
          /\ tar'[FileOf(m)] # None
          /\ \A f \in Files: f # FileOf(m) => tar'[f] = tar[f]
      <4>1. /\ tar'[FileOf(m)] = [of |-> op[m].distro, grade |-> g]
            /\ \A f \in Files: f # FileOf(m) => tar'[f] = tar[f]
        BY <2>2, <2>5 DEF TypeOK
      <4> QED BY <2>2, <4>1, NoneIsNoExport
    <3>4. Apart' /\ \A n \in Moves: n # m => FileFits(n)'
      BY <2>1, <2>3, <3>2, <3>3, OthersStep
    <3>5. FileFits(m)'
      BY <3>2, <3>3 DEF FileFits, Exported
    <3>6. ASSUME NEW d \in Distros PROVE place'[d] # None \/ \E f \in Files: Backup(d, f)'
      <4>1. CASE place[d] # None
        BY <2>3, <4>1
      <4>2. CASE place[d] = None
        <5>1. PICK f \in Files: Backup(d, f)
          BY <4>2 DEF MoveInv, Kept
        <5>2. tar[FileOf(m)] # None => tar[FileOf(m)].of = op[m].distro
          BY <2>2 DEF MoveInv, FileFits
        <5>3. f # FileOf(m)
          BY <2>5, <4>2, <5>1, <5>2 DEF Backup
        <5> QED BY <3>3, <5>1, <5>3 DEF Backup
      <4> QED BY <4>1, <4>2
    <3> QED
      BY <2>3, <3>4, <3>5, <3>6 DEF MoveInv, Kept
  <2> QED
    BY <1>4, <2>3, <2>4, <2>5 DEF ExportEnds
<1>5. ASSUME NEW m \in Moves, CheckExport(m) PROVE MoveInv'
  <2>1. op[m].pc = "check" /\ op[m].pc \in Steps /\ "markD" \in Steps
    BY <1>5 DEF CheckExport, Steps
  <2>2. op[m].distro \in Distros /\ FileOf(m) \in Files /\ Busy(m)
    BY <2>1, BusyTyped
  <2>3. place' = place /\ holds' = holds
    BY <1>5 DEF CheckExport
  <2>4. CASE /\ tar[FileOf(m)] # None /\ tar[FileOf(m)].grade \in LargeEnough(FileOf(m))
             /\ Goto(m, "markD") /\ tar' = tar
    <3>1. Backup(op[m].distro, FileOf(m))
      BY <2>1, <2>2, <2>4 DEF LargeEnough, MoveInv, FileFits, Backup
    <3>2. /\ op'[m].pc = "markD" /\ op'[m].distro = op[m].distro /\ FileOf(m)' = FileOf(m)
          /\ op' \in [Moves -> Ops] /\ \A n \in Moves: n # m => op'[n] = op[n]
          /\ op'[m] = [pc |-> "markD", distro |-> op[m].distro, folder |-> op[m].folder]
      BY <2>1, <2>4, GotoTyped DEF FileOf
    <3>3. FileFits(m)'
      BY <2>4, <3>1, <3>2 DEF FileFits, Exported, Backup
    <3> QED
      BY <2>1, <2>3, <2>4, <3>2, <3>3, OthersStep DEF MoveInv, Kept, Backup
  <2>5. CASE /\ \/ tar' = tar
                \/ /\ tar[FileOf(m)] # None => tar[FileOf(m)].grade # "good"
                   /\ tar' = Deleted(m)
             /\ Ends(m)
    <3>1. \A f \in Files: f # FileOf(m) => tar'[f] = tar[f]
      BY <2>5 DEF TypeOK, Deleted
    <3>2. Apart' /\ \A n \in Moves: FileFits(n)'
      BY <2>1, <2>3, <2>5, <3>1, EndsTyped, OthersStep, IdleFits
    <3>3. Kept'
      BY <2>3, <2>5, <3>1 DEF MoveInv, Kept, Backup
    <3> QED
      BY <2>3, <3>2, <3>3 DEF MoveInv
  <2> QED
    BY <1>5, <2>4, <2>5 DEF CheckExport
<1>6. ASSUME NEW m \in Moves, MarkDistro(m) \/ MarkPath(m) PROVE MoveInv'
  <2>1. op[m].pc \in {"markD", "markP"} /\ op[m].pc \in Steps
    BY <1>6 DEF MarkDistro, MarkPath, Steps
  <2>2. PICK pc \in {"markP", "unregister"}: Goto(m, pc)
    BY <1>6 DEF MarkDistro, MarkPath
  <2>3. place' = place /\ holds' = holds /\ tar' = tar
    BY <1>6 DEF MarkDistro, MarkPath
  <2>4. pc \in Steps
    BY DEF Steps
  <2>5. /\ op'[m].pc = pc /\ op'[m].distro = op[m].distro /\ FileOf(m)' = FileOf(m)
        /\ op' \in [Moves -> Ops] /\ \A n \in Moves: n # m => op'[n] = op[n]
        /\ op'[m] = [pc |-> pc, distro |-> op[m].distro, folder |-> op[m].folder]
    BY <2>1, <2>2, <2>4, GotoTyped DEF FileOf
  <2>6. FileFits(m)'
    BY <2>1, <2>3, <2>5 DEF MoveInv, FileFits, Exported, Backup
  <2> QED
    BY <2>1, <2>3, <2>4, <2>5, <2>6, OthersStep DEF MoveInv, Kept, Backup
<1>7. ASSUME NEW m \in Moves, Unregister(m) PROVE MoveInv'
  <2>1. op[m].pc = "unregister" /\ op[m].pc \in Steps /\ "import" \in Steps
    BY <1>7 DEF Unregister, Steps
  <2>2. op[m].distro \in Distros /\ FileOf(m) \in Files
    BY <2>1, BusyTyped
  <2>3. Backup(op[m].distro, FileOf(m))
    BY <2>1 DEF MoveInv, FileFits, Exported
  <2>4. /\ holds' = holds /\ tar' = tar
        /\ \A d \in Distros: d # op[m].distro => place'[d] = place[d]
    BY <1>7 DEF Unregister, TypeOK
  <2>5. /\ op' \in [Moves -> Ops] /\ \A n \in Moves: n # m => op'[n] = op[n]
        /\ \/ op'[m] = Idle
           \/ op'[m] = [pc |-> "import", distro |-> op[m].distro, folder |-> op[m].folder]
    BY <1>7, <2>1, GotoTyped, EndsTyped DEF Unregister
  <2>6. FileFits(m)'
    <3>1. CASE op'[m] = Idle
      BY <3>1, IdleFits
    <3>2. CASE op'[m] # Idle
      <4>1. op'[m].pc = "import" /\ op'[m].distro = op[m].distro /\ FileOf(m)' = FileOf(m)
        BY <2>5, <3>2 DEF FileOf
      <4> QED BY <2>3, <2>4, <4>1 DEF FileFits, Exported, Backup
    <3> QED BY <3>1, <3>2
  <2>7. Kept'
    <3> SUFFICES ASSUME NEW d \in Distros PROVE place'[d] # None \/ \E f \in Files: Backup(d, f)'
      BY DEF Kept
    <3>1. CASE d = op[m].distro
      BY <2>2, <2>3, <2>4, <3>1 DEF Backup
    <3>2. CASE d # op[m].distro
      BY <2>4, <3>2 DEF MoveInv, Kept, Backup
    <3> QED BY <3>1, <3>2
  <2>8. Apart' /\ \A n \in Moves: n # m => FileFits(n)'
    BY <2>1, <2>4, <2>5, OthersStep
  <2> QED
    BY <2>4, <2>6, <2>7, <2>8 DEF MoveInv
<1>8. ASSUME NEW m \in Moves, Import(m) PROVE MoveInv'
  <2>1. op[m].pc = "import" /\ op[m].pc \in Steps /\ "delete" \in Steps
    BY <1>8 DEF Import, Steps
  <2>2. op[m].distro \in Distros /\ op[m].folder \in Folders /\ FileOf(m) \in Files
    BY <2>1, BusyTyped
  <2>3. tar[FileOf(m)].of = op[m].distro /\ tar' = tar
    BY <1>8, <2>1 DEF Import, MoveInv, FileFits, Exported, Backup
  <2>4. CASE Ends(m) /\ place' = place /\ holds' = holds
    BY <2>1, <2>3, <2>4, EndsTyped, OthersStep, IdleFits DEF MoveInv, Kept, Backup
  <2>5. CASE /\ place' = [place EXCEPT ![op[m].distro] = op[m].folder]
             /\ holds' = [holds EXCEPT ![op[m].distro] = tar[FileOf(m)].of]
             /\ Goto(m, "delete")
    <3>1. holds' = [d \in Distros |-> d]
      BY <2>2, <2>3, <2>5 DEF MoveInv
    <3>2. /\ place'[op[m].distro] # None
          /\ \A d \in Distros: d # op[m].distro => place'[d] = place[d]
      BY <2>2, <2>5, MoveAssumption DEF TypeOK
    <3>3. /\ op'[m].pc = "delete" /\ op'[m].distro = op[m].distro /\ FileOf(m)' = FileOf(m)
          /\ op' \in [Moves -> Ops] /\ \A n \in Moves: n # m => op'[n] = op[n]
          /\ op'[m] = [pc |-> "delete", distro |-> op[m].distro, folder |-> op[m].folder]
      BY <2>1, <2>5, GotoTyped DEF FileOf
    <3>4. FileFits(m)'
      BY <2>3, <3>2, <3>3 DEF FileFits, Exported
    <3>5. Kept'
      BY <2>3, <3>2 DEF MoveInv, Kept, Backup
    <3>6. Apart' /\ \A n \in Moves: n # m => FileFits(n)'
      BY <2>1, <2>3, <3>2, <3>3, OthersStep
    <3> QED
      BY <3>1, <3>4, <3>5, <3>6 DEF MoveInv
  <2> QED
    BY <1>8, <2>4, <2>5 DEF Import
<1>9. ASSUME NEW m \in Moves, DeleteExport(m) PROVE MoveInv'
  <2>1. op[m].pc = "delete" /\ op[m].pc \in Steps /\ "clearD" \in Steps
    BY <1>9 DEF DeleteExport, Steps
  <2>2. op[m].distro \in Distros /\ FileOf(m) \in Files /\ Busy(m)
    BY <2>1, BusyTyped
  <2>3. /\ place' = place /\ holds' = holds /\ tar'[FileOf(m)] \in {tar[FileOf(m)], None}
        /\ \A f \in Files: f # FileOf(m) => tar'[f] = tar[f]
    <3>1. /\ Deleted(m)[FileOf(m)] = None
          /\ \A f \in Files: f # FileOf(m) => Deleted(m)[f] = tar[f]
      BY <2>2 DEF Deleted, TypeOK
    <3> QED BY <1>9, <3>1 DEF DeleteExport
  <2>4. /\ op' \in [Moves -> Ops] /\ \A n \in Moves: n # m => op'[n] = op[n]
        /\ \/ op'[m] = Idle
           \/ op'[m] = [pc |-> "clearD", distro |-> op[m].distro, folder |-> op[m].folder]
    BY <1>9, <2>1, GotoTyped, EndsTyped DEF DeleteExport
  <2>5. FileFits(m)'
    <3>1. CASE op'[m] = Idle
      BY <3>1, IdleFits
    <3>2. CASE op'[m] # Idle
      <4>1. op'[m].pc = "clearD" /\ op'[m].distro = op[m].distro /\ FileOf(m)' = FileOf(m)
        BY <2>4, <3>2 DEF FileOf
      <4>2. tar[FileOf(m)] # None => tar[FileOf(m)].of = op[m].distro
        BY <2>2 DEF MoveInv, FileFits
      <4> QED BY <2>3, <4>1, <4>2 DEF FileFits, Exported
    <3> QED BY <3>1, <3>2
  <2>6. Kept'
    <3> SUFFICES ASSUME NEW d \in Distros, place[d] = None
                 PROVE  \E f \in Files: Backup(d, f)'
      BY <2>3 DEF Kept
    <3>1. PICK f \in Files: Backup(d, f)
      BY DEF MoveInv, Kept
    <3>2. /\ tar[FileOf(m)] # None => tar[FileOf(m)].of = op[m].distro
          /\ place[op[m].distro] # None
      BY <2>1, <2>2 DEF MoveInv, FileFits
    <3>3. f # FileOf(m)
      BY <3>1, <3>2 DEF Backup
    <3> QED BY <2>3, <3>1, <3>3 DEF Backup
  <2>7. Apart' /\ \A n \in Moves: n # m => FileFits(n)'
    BY <2>1, <2>3, <2>4, OthersStep
  <2> QED
    BY <2>3, <2>5, <2>6, <2>7 DEF MoveInv
<1>10. ASSUME NEW m \in Moves, ClearDistro(m) \/ ClearPath(m) PROVE MoveInv'
  <2>1. op[m].pc \in {"clearD", "clearP"} /\ op[m].pc \in Steps /\ "clearP" \in Steps
    BY <1>10 DEF ClearDistro, ClearPath, Steps
  <2>2. place' = place /\ holds' = holds /\ tar' = tar
    BY <1>10 DEF ClearDistro, ClearPath
  <2>3. /\ op' \in [Moves -> Ops] /\ \A n \in Moves: n # m => op'[n] = op[n]
        /\ \/ op'[m] = Idle
           \/ op'[m] = [pc |-> "clearP", distro |-> op[m].distro, folder |-> op[m].folder]
    BY <1>10, <2>1, GotoTyped, EndsTyped DEF ClearDistro, ClearPath
  <2>4. FileFits(m)'
    <3>1. CASE op'[m] = Idle
      BY <3>1, IdleFits
    <3>2. CASE op'[m] # Idle
      <4>1. op'[m].pc = "clearP" /\ op'[m].distro = op[m].distro /\ FileOf(m)' = FileOf(m)
        BY <2>3, <3>2 DEF FileOf
      <4> QED BY <2>1, <2>2, <4>1, BusyTyped DEF MoveInv, FileFits, Exported
    <3> QED BY <3>1, <3>2
  <2>5. Apart' /\ \A n \in Moves: n # m => FileFits(n)'
    BY <2>1, <2>2, <2>3, OthersStep
  <2> QED
    BY <2>2, <2>4, <2>5 DEF MoveInv, Kept, Backup
<1>11. CASE Crash
  <2>1. \A m \in Moves: op'[m] = Idle
    BY <1>11 DEF Crash
  <2>2. Apart' /\ \A m \in Moves: FileFits(m)'
    BY <2>1, IdleFits DEF Apart, Busy, Idle
  <2> QED
    BY <1>11, <2>2 DEF Crash, MoveInv, Kept, Backup
<1>12. CASE Start \/ Dismiss \/ UNCHANGED vars
  <2>1. UNCHANGED <<place, holds, tar, op>>
    BY <1>12 DEF Start, Dismiss, vars
  <2> QED
    BY <2>1 DEF MoveInv, Apart, FileFits, Kept, Busy, FileOf, Exported, Backup
<1> QED
  BY <1>1, <1>2, <1>3, <1>4, <1>5, <1>6, <1>7, <1>8, <1>9, <1>10, <1>11, <1>12 DEF Next

(* As long as no move is aimed at an export another one needs, the         *)
(* contents of every instance are on a registered disk or in a complete    *)
(* export, whatever fails and whenever the application dies.               *)
THEOREM ContentsKept == Careless = FALSE => (Spec => []NoContentsLost)
<1> SUFFICES ASSUME Careless = FALSE PROVE Spec => []NoContentsLost
  OBVIOUS
<1>1. Init => MoveInv
  BY MoveAssumption DEF Init, MoveInv, Apart, FileFits, Kept, Busy, Exported, Idle
<1>2. TypeOK /\ TypeOK' /\ MoveInv /\ [Next]_vars => MoveInv'
  BY MoveInvStep
<1>3. MoveInv => NoContentsLost
  BY DEF MoveInv, Kept, NoContentsLost, Installed
<1> QED
  BY <1>1, <1>2, <1>3, TypeCorrect, PTL DEF Spec

(* Under the same condition no instance is registered with another one's   *)
(* contents: two moves in progress never share an export file.             *)
THEOREM ContentsOwn == Careless = FALSE => (Spec => []OwnContents)
<1> SUFFICES ASSUME Careless = FALSE PROVE Spec => []OwnContents
  OBVIOUS
<1>1. Init => MoveInv
  BY MoveAssumption DEF Init, MoveInv, Apart, FileFits, Kept, Busy, Exported, Idle
<1>2. TypeOK /\ TypeOK' /\ MoveInv /\ [Next]_vars => MoveInv'
  BY MoveInvStep
<1>3. MoveInv => OwnContents
  BY DEF MoveInv, OwnContents
<1> QED
  BY <1>1, <1>2, <1>3, TypeCorrect, PTL DEF Spec
-----------------------------------------------------------------------------
(* The first call of move(), which no other disturbs, by how far it got:   *)
(* what its file and the marker say, and who is registered meanwhile.      *)
Marked(m) == op[m].pc \in {"markP", "unregister", "import"}

FirstFits(m) ==
  /\ \A d \in Distros: place[d] = None => op[m].pc = "import" /\ d = op[m].distro
  /\ op[m].pc = "check" =>
       /\ tar[FileOf(m)] # None
       /\ tar[FileOf(m)].of = op[m].distro
       /\ tar[FileOf(m)].grade # "writing"
  /\ Exported(m) => Backup(op[m].distro, FileOf(m))
  /\ Marked(m) => markD = op[m].distro
  /\ op[m].pc \in {"unregister", "import"} => markP = FileOf(m)

Known(d) == d \in told \/ (markD = d /\ markP # None /\ Backup(d, markP))

FirstInv ==
  started <= 1 =>
    /\ holds = [d \in Distros |-> d]
    /\ \A m, n \in Moves: Busy(m) /\ Busy(n) => m = n
    /\ \A m \in Moves: Busy(m) => FirstFits(m)
    /\ \A d \in Distros: place[d] = None => Known(d)
    /\ started = 0 => /\ \A m \in Moves: ~Busy(m)
                     /\ \A d \in Distros: place[d] # None

(* A step of the one call in progress leaves nobody else busy.             *)
LEMMA FirstByOne ==
  ASSUME TypeOK, FirstInv, NEW m \in Moves, op[m].pc \in Steps,
         started' = started,
         \A n \in Moves: n # m => op'[n] = op[n],
         started <= 1 => /\ holds' = [d \in Distros |-> d]
                         /\ Busy(m)' => FirstFits(m)'
                         /\ \A d \in Distros: place'[d] = None => Known(d)'
  PROVE  FirstInv'
<1>. SUFFICES ASSUME started <= 1 PROVE FirstInv'
  BY DEF FirstInv
<1>1. Busy(m) /\ started # 0
  BY BusyTyped DEF FirstInv
<1>2. \A n \in Moves: Busy(n)' => n = m
  <2>. SUFFICES ASSUME NEW n \in Moves, Busy(n)', n # m PROVE FALSE
    OBVIOUS
  <2>1. Busy(n)
    BY DEF Busy
  <2>. QED
    BY <1>1, <2>1 DEF FirstInv
<1>. QED
  BY <1>1, <1>2 DEF FirstInv

(* A busy move ending or going on, by the fields of its record.            *)
LEMMA StepEffect ==
  ASSUME TypeOK, host' = host, NEW m \in Moves, op[m].pc \in Steps
  PROVE  /\ Ends(m) => op'[m] = Idle /\ \A n \in Moves: n # m => op'[n] = op[n]
         /\ \A pc \in Steps: Goto(m, pc) =>
              /\ op'[m].pc = pc
              /\ op'[m].distro = op[m].distro
              /\ FileOf(m)' = FileOf(m)
              /\ \A n \in Moves: n # m => op'[n] = op[n]
<1>1. Ends(m) => op'[m] = Idle /\ \A n \in Moves: n # m => op'[n] = op[n]
  BY EndsTyped
<1>2. ASSUME NEW pc \in Steps, Goto(m, pc)
      PROVE  /\ op'[m].pc = pc
             /\ op'[m].distro = op[m].distro
             /\ FileOf(m)' = FileOf(m)
             /\ \A n \in Moves: n # m => op'[n] = op[n]
  <2>1. /\ op'[m] = [pc |-> pc, distro |-> op[m].distro, folder |-> op[m].folder]
        /\ \A n \in Moves: n # m => op'[n] = op[n]
    BY <1>2, GotoTyped
  <2>2. FileOf(m)' = FileOf(m)
    BY <2>1 DEF FileOf
  <2>. QED
    BY <2>1, <2>2
<1>. QED
  BY <1>1, <1>2

(* What the call in progress has to go by.                                 *)
LEMMA FirstFacts ==
  ASSUME TypeOK, FirstInv, started <= 1, NEW m \in Moves, op[m].pc \in Steps
  PROVE  /\ FirstFits(m)
         /\ holds = [d \in Distros |-> d] /\ holds[op[m].distro] = op[m].distro
         /\ \A d \in Distros: place[d] = None => Known(d)
<1>1. Busy(m) /\ op[m].distro \in Distros
  BY BusyTyped
<1>. QED
  BY <1>1 DEF FirstInv

LEMMA FirstStep ==
  ASSUME TypeOK, DialogInv, FirstInv, [Next]_vars
  PROVE  FirstInv'
<1>0. host' = host
  BY HostFixed
<1>. USE <1>0
<1>1. ASSUME NEW m \in Moves, NEW d \in Distros, NEW f \in Folders, Move(m, d, f)
      PROVE  FirstInv'
  <2>. SUFFICES ASSUME started' <= 1 PROVE FirstInv'
    BY DEF FirstInv
  <2>1. started = 0 /\ started' = 1
    BY <1>1 DEF Move, TypeOK
  <2>2. /\ op'[m].pc = "begin"
        /\ \A n \in Moves: n # m => op'[n] = op[n]
        /\ UNCHANGED <<place, holds>>
    BY <1>1 DEF Move, TypeOK
  <2>3. /\ \A e \in Distros: place[e] # None
        /\ \A n \in Moves: ~Busy(n)
        /\ holds = [e \in Distros |-> e]
    BY <2>1 DEF FirstInv
  <2>4. \A n \in Moves: Busy(n)' => n = m
    BY <2>2, <2>3 DEF Busy
  <2>5. FirstFits(m)'
    BY <2>2, <2>3 DEF FirstFits, Exported, Marked
  <2>. QED
    BY <2>1, <2>2, <2>3, <2>4, <2>5 DEF FirstInv
<1>2. ASSUME NEW m \in Moves, NativeMove(m) PROVE FirstInv'
  <2>1. op[m].pc = "begin" /\ op[m].pc \in Steps
    BY <1>2 DEF NativeMove, Steps
  <2>2. /\ op'[m] = Idle /\ \A n \in Moves: n # m => op'[n] = op[n]
        /\ UNCHANGED <<started, holds>>
    BY <1>2, EndsTyped DEF NativeMove, ReportFailure
  <2>3. \A d \in Distros: place[d] # None => place'[d] # None
    BY <1>2, <2>1, BusyTyped, MoveAssumption DEF NativeMove, TypeOK
  <2>4. started <= 1 => \A d \in Distros: place[d] # None
    BY <2>1, FirstFacts DEF FirstFits
  <2>. QED
    BY <2>1, <2>2, <2>3, <2>4, FirstByOne, FirstFacts DEF Busy, Idle
<1>3. ASSUME NEW m \in Moves, ExportBegins(m) \/ ExportEnds(m) PROVE FirstInv'
  <2>1. op[m].pc \in {"begin", "export"} /\ op[m].pc \in Steps
    BY <1>3 DEF ExportBegins, ExportEnds, Steps
  <2>2. /\ \A n \in Moves: n # m => op'[n] = op[n]
        /\ UNCHANGED <<started, holds, place>>
    BY <1>3 DEF ExportBegins, ExportEnds, Ends, Goto, TypeOK
  <2>3. started <= 1 => /\ \A d \in Distros: place[d] # None
                        /\ holds[op[m].distro] = op[m].distro
    BY <2>1, FirstFacts DEF FirstFits
  <2>4. \/ op'[m] = Idle \/ op'[m].pc = "export"
        \/ /\ op'[m].pc = "check" /\ op'[m].distro = op[m].distro /\ FileOf(m)' = FileOf(m)
           /\ \E g \in {"small", "good"}:
                tar'[FileOf(m)] = [of |-> holds[op[m].distro], grade |-> g]
    <3>1. CASE ExportBegins(m)
      BY <2>1, <3>1, StepEffect DEF ExportBegins, Steps
    <3>2. CASE ExportEnds(m)
      <4>1. CASE Ends(m)
        BY <4>1, EndsTyped
      <4>2. ASSUME NEW g \in {"small", "good"}, Goto(m, "check"),
                   tar' = [tar EXCEPT ![FileOf(m)] = [of |-> holds[op[m].distro], grade |-> g]]
            PROVE  /\ op'[m].pc = "check" /\ op'[m].distro = op[m].distro
                   /\ FileOf(m)' = FileOf(m)
                   /\ tar'[FileOf(m)] = [of |-> holds[op[m].distro], grade |-> g]
        <5>1. op'[m] = [pc |-> "check", distro |-> op[m].distro, folder |-> op[m].folder]
          BY <2>1, <4>2, GotoTyped DEF Steps
        <5>2. tar'[FileOf(m)] = [of |-> holds[op[m].distro], grade |-> g]
          BY <2>1, <4>2, BusyTyped DEF TypeOK
        <5>. QED
          BY <5>1, <5>2 DEF FileOf
      <4>. QED
        BY <3>2, <4>1, <4>2 DEF ExportEnds
    <3>. QED
      BY <1>3, <3>1, <3>2
  <2>5. Busy(m)' /\ started <= 1 => FirstFits(m)'
    <3>1. CASE op'[m] = Idle
      BY <3>1 DEF Busy, Idle
    <3>2. CASE op'[m].pc = "export"
      BY <2>2, <2>3, <3>2 DEF FirstFits, Exported, Marked
    <3>3. ASSUME started <= 1, NEW g \in {"small", "good"},
                 op'[m].pc = "check", op'[m].distro = op[m].distro, FileOf(m)' = FileOf(m),
                 tar'[FileOf(m)] = [of |-> holds[op[m].distro], grade |-> g]
          PROVE  FirstFits(m)'
      <4>1. op[m].distro \in Distros
        BY <2>1, BusyTyped
      <4>2. tar'[FileOf(m)] # None
        BY <2>3, <3>3, <4>1, NoneIsNoExport
      <4>. QED
        BY <2>2, <2>3, <3>3, <4>2 DEF FirstFits, Exported, Marked
    <3>. QED
      BY <2>4, <3>1, <3>2, <3>3
  <2>. QED
    BY <2>1, <2>2, <2>3, <2>5, FirstByOne, FirstFacts
<1>4. ASSUME NEW m \in Moves, CheckExport(m) PROVE FirstInv'
  <2>1. op[m].pc = "check" /\ op[m].pc \in Steps
    BY <1>4 DEF CheckExport, Steps
  <2>2. /\ \A n \in Moves: n # m => op'[n] = op[n]
        /\ UNCHANGED <<started, holds, place>>
    BY <1>4 DEF CheckExport, Ends, Goto, TypeOK
  <2>3. started <= 1 => FirstFits(m) /\ \A d \in Distros: place[d] # None
    BY <2>1, FirstFacts DEF FirstFits
  <2>4. \/ op'[m] = Idle
        \/ /\ op'[m] = [pc |-> "markD", distro |-> op[m].distro, folder |-> op[m].folder]
           /\ tar[FileOf(m)].grade \in {"good", "writing"} /\ tar' = tar
    BY <1>4, <2>1, EndsTyped, GotoTyped DEF CheckExport, LargeEnough, Steps
  <2>5. Busy(m)' /\ started <= 1 => FirstFits(m)'
    <3>1. CASE op'[m] = Idle
      BY <3>1 DEF Busy, Idle
    <3>2. CASE op'[m] # Idle /\ started <= 1
      <4>1. Backup(op[m].distro, FileOf(m)) /\ tar' = tar
        BY <2>1, <2>3, <2>4, <3>2 DEF FirstFits, Backup
      <4>2. /\ op'[m].pc = "markD" /\ op'[m].distro = op[m].distro
            /\ FileOf(m)' = FileOf(m)
        BY <2>4, <3>2 DEF FileOf
      <4>. QED
        BY <2>2, <2>3, <3>2, <4>1, <4>2 DEF FirstFits, Exported, Marked, Backup
    <3>. QED
      BY <3>1, <3>2
  <2>. QED
    BY <2>1, <2>2, <2>3, <2>5, FirstByOne, FirstFacts
<1>5. ASSUME NEW m \in Moves, MarkDistro(m) \/ MarkPath(m) PROVE FirstInv'
  <2>1. op[m].pc \in {"markD", "markP"} /\ op[m].pc \in Steps
    BY <1>5 DEF MarkDistro, MarkPath, Steps
  <2>2. UNCHANGED <<started, holds, place, tar>>
    BY <1>5 DEF MarkDistro, MarkPath
  <2>3. /\ \A n \in Moves: n # m => op'[n] = op[n]
        /\ op'[m].distro = op[m].distro /\ FileOf(m)' = FileOf(m)
        /\ \/ op[m].pc = "markD" /\ op'[m].pc = "markP" /\ markD' = op[m].distro
           \/ /\ op[m].pc = "markP" /\ op'[m].pc = "unregister"
              /\ markD' = markD /\ markP' = FileOf(m)
    <3>1. /\ Goto(m, "markP") \/ Goto(m, "unregister")
          /\ "markP" \in Steps /\ "unregister" \in Steps
      BY <1>5 DEF MarkDistro, MarkPath, Steps
    <3>2. /\ \A n \in Moves: n # m => op'[n] = op[n]
          /\ op'[m].distro = op[m].distro /\ FileOf(m)' = FileOf(m)
          /\ Goto(m, "markP") => op'[m].pc = "markP"
          /\ Goto(m, "unregister") => op'[m].pc = "unregister"
      BY <2>1, <3>1, StepEffect
    <3>. QED
      BY <1>5, <3>2 DEF MarkDistro, MarkPath
  <2>4. started <= 1 => FirstFits(m) /\ \A d \in Distros: place[d] # None
    BY <2>1, FirstFacts DEF FirstFits
  <2>5. started <= 1 => FirstFits(m)'
    BY <2>1, <2>2, <2>3, <2>4 DEF FirstFits, Exported, Marked, Backup
  <2>. QED
    BY <2>1, <2>2, <2>3, <2>4, <2>5, FirstByOne, FirstFacts
<1>6. ASSUME NEW m \in Moves, Unregister(m) PROVE FirstInv'
  <2>1. op[m].pc = "unregister" /\ op[m].pc \in Steps /\ "import" \in Steps
    BY <1>6 DEF Unregister, Steps
  <2>2. /\ UNCHANGED <<started, holds, tar, markD, markP, told>>
        /\ \A d \in Distros: d # op[m].distro => place'[d] = place[d]
    BY <1>6 DEF Unregister, TypeOK
  <2>3. /\ \A n \in Moves: n # m => op'[n] = op[n]
        /\ \/ op'[m] = Idle
           \/ op'[m] = [pc |-> "import", distro |-> op[m].distro, folder |-> op[m].folder]
    BY <1>6, <2>1, EndsTyped, GotoTyped DEF Unregister
  <2>4. /\ op[m].distro \in Distros
        /\ FileOf(m) # None
    BY <2>1, BusyTyped, MoveAssumption DEF Files
  <2>5. started <= 1 => /\ FirstFits(m) /\ \A d \in Distros: place[d] # None
                        /\ markD = op[m].distro /\ markP = FileOf(m)
                        /\ Backup(op[m].distro, FileOf(m))
    BY <2>1, FirstFacts DEF FirstFits, Exported, Marked
  <2>6. started <= 1 => \A d \in Distros: place'[d] = None => Known(d)' /\ d = op[m].distro
    BY <2>2, <2>4, <2>5 DEF Known, Backup
  <2>7. Busy(m)' /\ started <= 1 => FirstFits(m)'
    <3>1. CASE op'[m] = Idle
      BY <3>1 DEF Busy, Idle
    <3>2. CASE op'[m] # Idle /\ started <= 1
      <4>1. /\ op'[m].pc = "import" /\ op'[m].distro = op[m].distro
            /\ FileOf(m)' = FileOf(m)
        BY <2>3, <3>2 DEF FileOf
      <4>. QED
        BY <2>2, <2>5, <2>6, <3>2, <4>1 DEF FirstFits, Exported, Marked, Backup
    <3>. QED
      BY <3>1, <3>2
  <2>. QED
    BY <2>1, <2>2, <2>3, <2>6, <2>7, FirstByOne, FirstFacts
<1>7. ASSUME NEW m \in Moves, Import(m) PROVE FirstInv'
  <2>1. op[m].pc = "import" /\ op[m].pc \in Steps /\ "delete" \in Steps
    BY <1>7 DEF Import, Steps
  <2>2. UNCHANGED <<started, tar, markD, markP>>
    BY <1>7 DEF Import
  <2>3. op[m].distro \in Distros /\ op[m].folder \in Folders
    BY <2>1, BusyTyped
  <2>4. started <= 1 => /\ tar[FileOf(m)].of = op[m].distro
                        /\ \A d \in Distros: place[d] = None => d = op[m].distro
    BY <2>1, FirstFacts DEF FirstFits, Exported, Backup
  <2>5. CASE Ends(m) /\ told' = told \cup {op[m].distro} /\ UNCHANGED <<place, holds>>
    <3>1. ~Busy(m)' /\ \A n \in Moves: n # m => op'[n] = op[n]
      BY <2>5, EndsTyped DEF Busy, Idle
    <3>2. started <= 1 => \A d \in Distros: place'[d] = None => Known(d)'
      BY <2>4, <2>5 DEF Known
    <3>. QED
      BY <2>1, <2>2, <2>5, <3>1, <3>2, FirstByOne, FirstFacts
  <2>6. CASE /\ place' = [place EXCEPT ![op[m].distro] = op[m].folder]
             /\ holds' = [holds EXCEPT ![op[m].distro] = tar[FileOf(m)].of]
             /\ Goto(m, "delete")
    <3>1. op'[m].pc = "delete" /\ \A n \in Moves: n # m => op'[n] = op[n]
      BY <2>1, <2>6, StepEffect
    <3>2. started <= 1 => holds' = [d \in Distros |-> d]
      BY <2>1, <2>3, <2>4, <2>6, FirstFacts
    <3>3. started <= 1 => \A d \in Distros: place'[d] # None
      BY <2>3, <2>4, <2>6, MoveAssumption DEF TypeOK
    <3>4. started <= 1 => FirstFits(m)'
      BY <3>1, <3>3 DEF FirstFits, Exported, Marked
    <3>. QED
      BY <2>1, <2>2, <3>1, <3>2, <3>3, <3>4, FirstByOne
  <2>. QED
    BY <1>7, <2>5, <2>6 DEF Import
<1>8. ASSUME NEW m \in Moves, DeleteExport(m) \/ ClearDistro(m) \/ ClearPath(m) PROVE FirstInv'
  <2>1. op[m].pc \in {"delete", "clearD", "clearP"} /\ op[m].pc \in Steps
    BY <1>8 DEF DeleteExport, ClearDistro, ClearPath, Steps
  <2>2. UNCHANGED <<started, holds, place>>
    BY <1>8 DEF DeleteExport, ClearDistro, ClearPath
  <2>3. /\ \A n \in Moves: n # m => op'[n] = op[n]
        /\ op'[m] = Idle \/ op'[m].pc \in {"clearD", "clearP"}
    BY <1>8, <2>1, StepEffect DEF DeleteExport, ClearDistro, ClearPath, Steps
  <2>4. started <= 1 => \A d \in Distros: place[d] # None
    BY <2>1, FirstFacts DEF FirstFits
  <2>5. Busy(m)' /\ started <= 1 => FirstFits(m)'
    BY <2>2, <2>3, <2>4 DEF FirstFits, Exported, Marked, Busy, Idle
  <2>. QED
    BY <2>1, <2>2, <2>3, <2>4, <2>5, FirstByOne, FirstFacts
<1>9. CASE Crash
  <2>1. /\ \A m \in Moves: ~Busy(m)'
        /\ UNCHANGED <<place, holds, tar, markD, markP, started, told>>
    BY <1>9 DEF Crash, Busy, Idle
  <2>. QED
    BY <2>1 DEF FirstInv, Known, Backup
<1>10. CASE Dismiss
  <2>1. /\ \A m \in Moves: op[m] = Idle
        /\ UNCHANGED <<place, holds, op, started>>
        /\ told' = told \cup {markD}
    BY <1>10 DEF Dismiss, DialogInv
  <2>2. \A d \in Distros: Known(d) => Known(d)'
    BY <2>1 DEF Known
  <2>3. \A m \in Moves: ~Busy(m) /\ ~Busy(m)'
    BY <2>1 DEF Busy, Idle
  <2>. QED
    BY <2>1, <2>2, <2>3 DEF FirstInv
<1>11. CASE Start \/ UNCHANGED vars
  <2>1. UNCHANGED <<place, holds, tar, op, markD, markP, started, told>>
    BY <1>11 DEF Start, vars
  <2>. QED
    BY <2>1 DEF FirstInv, FirstFits, Known, Busy, FileOf, Exported, Marked, Backup
<1>. QED
  BY <1>1, <1>2, <1>3, <1>4, <1>5, <1>6, <1>7, <1>8, <1>9, <1>10, <1>11 DEF Next

(* After a first move that failed or crashed anywhere, an instance that is *)
(* left as a file only is one the user knows of or the marker leads to,    *)
(* whatever folder the move was aimed at (wsl.dart:2410).                  *)
THEOREM FirstMoveRecovers == Spec => []ToldOrMarked
<1>1. Init => TypeOK /\ DialogInv /\ FirstInv
  <2>. SUFFICES ASSUME Init PROVE TypeOK /\ DialogInv /\ FirstInv
    OBVIOUS
  <2>1. TypeOK /\ DialogInv
    BY InitTyped
  <2>2. FirstInv
    BY MoveAssumption DEF Init, FirstInv, Busy, Idle
  <2>. QED
    BY <2>1, <2>2
<1>2. TypeOK /\ DialogInv /\ FirstInv /\ [Next]_vars => (TypeOK /\ DialogInv /\ FirstInv)'
  BY TypeStep, DialogStep, FirstStep
<1>3. FirstInv => ToldOrMarked
  BY DEF FirstInv, Known, ToldOrMarked, Installed
<1>. QED
  BY <1>1, <1>2, <1>3, PTL DEF Spec
=============================================================================
