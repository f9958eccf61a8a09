--------------------------- MODULE AiWorkspace_proofs ---------------------------
(***************************************************************************)
(* What is proved of AiWorkspace, for any number of calls in progress and  *)
(* both kinds of tools: the types, that two installers never run beside    *)
(* each other, and who may write over a failure and beside an install.     *)
(***************************************************************************)
EXTENDS AiWorkspace, FiniteSetTheorems, TLAPS

Cards == [status: Statuses, err: {"none", "plain", "action"},
          sticky: BOOLEAN, checked: BOOLEAN]
Caches == (Statuses \ {"error"}) \cup {None}
CallRecords == [kind: Kinds, pc: Pcs, seen: Seen, own: BOOLEAN,
                old: SUBSET {"failure", "install"}]
Actions == {"", "install", "start", "stop", "uninstall"}
Pages == [open: BOOLEAN, busy: BOOLEAN, action: Actions, checking: BOOLEAN,
          installWatch: BOOLEAN, startingWatch: BOOLEAN]

(* Which kinds of call get where, and what a probe has heard.              *)
Fits(kind, pc, seen) ==
  /\ kind = "none" <=> pc = ""
  /\ pc \in {"look", "seen"} => kind \in {"probe", "watch", "start", "uninstall"}
  /\ pc = "seen" => seen \in Statuses \cup {"lost"}
  /\ pc = "prepare" => kind \in {"install", "start"}
  /\ pc \in {"ask", "answer"} => kind \in {"start", "stop", "uninstall"}
  /\ pc \in {"askStop", "answerStop"} => kind = "uninstall"
  /\ pc \in {"run", "killed", "exited", "hook"} => kind = "install"

FitsInv == \A c \in Calls: Fits(calls[c].kind, calls[c].pc, calls[c].seen)

(* The service knows of the one install there is.                          *)
InstallInv ==
  /\ \A c \in Calls: calls[c].kind = "install" => installing
  /\ \A c, d \in Calls: calls[c].kind = "install" /\ calls[d].kind = "install" => c = d

(* Nothing begins while an install runs, or beside a sticky failure: what  *)
(* is out has been out since before.                                       *)
OldInv ==
  \A c \in Calls:
    /\ installing => calls[c].kind \in {"none", "install"} \/ Before(c, "install")
    /\ card.sticky => calls[c].kind = "none" \/ Before(c, "failure")

CallsOK == calls \in [Calls -> CallRecords] /\ FitsInv /\ InstallInv /\ OldInv

RestOK ==
  /\ card \in Cards /\ cache \in Caches /\ world \in Worlds
  /\ installing \in BOOLEAN /\ page \in Pages

IInv == RestOK /\ CallsOK

----------------------------------------------------------------------------
(* What the helpers return                                                 *)

LEMMA SeedType ==
  ASSUME NEW k \in Caches
  PROVE  Seeded(k) \in Cards /\ ~Seeded(k).sticky
BY DEF Seeded, Caches, Cards, Statuses

LEMMA CardTypes ==
  ASSUME RestOK
  PROVE  /\ Cleared \in Cards /\ ~Cleared.sticky /\ Cleared.err = "none"
         /\ Failed \in Cards /\ Failed.sticky
         /\ Stopped \in Cards /\ Stopped.sticky = card.sticky
         /\ card.status \in Statuses /\ card.sticky \in BOOLEAN
         /\ card.checked \in BOOLEAN
BY DEF RestOK, Cleared, Failed, Stopped, Cards, Caches, Statuses

LEMMA SyncedType ==
  ASSUME NEW p \in Pages, NEW k
  PROVE  Synced(p, k) \in Pages
BY DEF Synced, Pages

LEMMA ReleasedType ==
  ASSUME RestOK, NEW c \in Calls, NEW a \in Actions
  PROVE  Released(c, a) \in Pages /\ page.action \in Actions
BY DEF Released, RestOK, Pages

LEMMA ClosedType ==
  /\ Closed \in Pages
  /\ \A b, w \in BOOLEAN:
       [Closed EXCEPT !.open = TRUE, !.checking = b, !.installWatch = w] \in Pages
BY DEF Closed, Pages, Actions

LEMMA TruthType ==
  ASSUME world \in Worlds
  PROVE  Truth \in Statuses
<1>1. world = "absent" \/ world = "down" \/ world = "migrating" \/ world = "up"
  BY DEF Worlds
<1>. QED
  BY <1>1 DEF Truth, Statuses

----------------------------------------------------------------------------
(* What happens to the calls                                               *)

(* A call moves on.                                                        *)
LEMMA GoesOn ==
  ASSUME CallsOK, NEW c \in Calls, NEW pc \in Pcs, NEW seen \in Seen,
         Goes(c, pc, seen), Fits(calls[c].kind, pc, seen),
         installing' = installing, card'.sticky => card.sticky
  PROVE  CallsOK'
<1>1. /\ calls' \in [Calls -> CallRecords]
      /\ calls'[c].kind = calls[c].kind /\ calls'[c].pc = pc
      /\ calls'[c].seen = seen /\ calls'[c].old = calls[c].old
      /\ \A o \in Calls \ {c}: calls'[o] = calls[o]
  BY DEF CallsOK, CallRecords, Goes
<1>2. \A o \in Calls: calls'[o].kind = calls[o].kind /\ calls'[o].old = calls[o].old
  BY <1>1
<1>3. FitsInv'
  BY <1>1 DEF CallsOK, FitsInv
<1>4. InstallInv'
  BY <1>2 DEF CallsOK, InstallInv
<1>5. OldInv'
  BY <1>2 DEF CallsOK, OldInv, Before
<1>. QED
  BY <1>1, <1>3, <1>4, <1>5 DEF CallsOK

(* A call that is no install begins.                                       *)
LEMMA Began ==
  ASSUME CallsOK, NEW c \in Calls, NEW own \in BOOLEAN,
         NEW kind \in Kinds \ {"none", "install"}, NEW pc \in Pcs,
         Begins(c, kind, pc, own), Fits(kind, pc, "-"),
         ~installing, ~installing', ~card'.sticky
  PROVE  CallsOK'
<1>1. /\ calls' \in [Calls -> CallRecords]
      /\ calls'[c].kind = kind /\ calls'[c].pc = pc /\ calls'[c].seen = "-"
      /\ \A o \in Calls \ {c}: calls'[o] = calls[o]
  BY DEF CallsOK, CallRecords, Begins, Begun, Seen
<1>2. FitsInv'
  BY <1>1 DEF CallsOK, FitsInv
<1>3. \A o \in Calls: calls'[o].kind # "install"
  BY <1>1 DEF CallsOK, InstallInv
<1>4. InstallInv' /\ OldInv'
  BY <1>3 DEF InstallInv, OldInv
<1>. QED
  BY <1>1, <1>2, <1>4 DEF CallsOK

(* A call ends, and with it the install it was, if it was one.             *)
Ended(c) ==
  \/ installing' = installing
  \/ installing' = FALSE /\ calls[c].kind = "install"

LEMMA FreeFits == Free \in CallRecords /\ Fits(Free.kind, Free.pc, Free.seen)
                  /\ Free.kind = "none"
BY DEF Free, CallRecords, Kinds, Pcs, Seen, Fits

LEMMA Over ==
  ASSUME CallsOK, NEW c \in Calls, calls' = [calls EXCEPT ![c] = Free],
         Ended(c), card'.sticky => card.sticky
  PROVE  CallsOK'
<1>1. /\ calls' \in [Calls -> CallRecords]
      /\ calls'[c] = Free
      /\ \A o \in Calls \ {c}: calls'[o] = calls[o]
  BY FreeFits DEF CallsOK
<1>2. FitsInv'
  BY <1>1, FreeFits DEF CallsOK, FitsInv
<1>3. InstallInv'
  <2>1. \A o \in Calls: calls'[o].kind = "install" =>
          calls[o].kind = "install" /\ o # c
    BY <1>1, FreeFits
  <2>. QED
    BY <2>1 DEF CallsOK, InstallInv, Ended
<1>4. OldInv'
  BY <1>1, FreeFits DEF CallsOK, OldInv, Before, Ended
<1>. QED
  BY <1>1, <1>2, <1>3, <1>4 DEF CallsOK

(* A call ends, and everything that is still out learns that it failed.    *)
LEMMA AgesEffect ==
  ASSUME CallsOK, NEW c \in Calls, NEW e \in {"failure", "install"},
         NEW mine \in CallRecords, Ages(c, e, mine)
  PROVE  /\ calls' \in [Calls -> CallRecords]
         /\ calls'[c] = mine
         /\ \A o \in Calls \ {c}:
              /\ calls'[o].kind = calls[o].kind /\ calls'[o].pc = calls[o].pc
              /\ calls'[o].seen = calls[o].seen
              /\ calls[o].old \subseteq calls'[o].old
              /\ calls[o].kind # "none" => e \in calls'[o].old
<1>1. ASSUME NEW o \in Calls, o # c, calls[o].kind # "none"
      PROVE  /\ [calls[o] EXCEPT !.old = @ \cup {e}] \in CallRecords
             /\ calls'[o] = [calls[o] EXCEPT !.old = @ \cup {e}]
  BY <1>1 DEF CallsOK, CallRecords, Ages
<1>2. ASSUME NEW o \in Calls, o # c, calls[o].kind = "none"
      PROVE  calls'[o] \in CallRecords /\ calls'[o] = calls[o]
  BY <1>2 DEF CallsOK, Ages
<1>3. calls'[c] = mine
  BY DEF Ages
<1>4. \A o \in Calls: calls'[o] \in CallRecords
  BY <1>1, <1>2, <1>3
<1>5. calls' \in [Calls -> CallRecords]
  <2>1. calls' = [o \in Calls |-> calls'[o]]
    BY DEF Ages
  <2>. QED
    BY <2>1, <1>4
<1>6. ASSUME NEW o \in Calls \ {c}
      PROVE  /\ calls'[o].kind = calls[o].kind /\ calls'[o].pc = calls[o].pc
             /\ calls'[o].seen = calls[o].seen
             /\ calls[o].old \subseteq calls'[o].old
             /\ calls[o].kind # "none" => e \in calls'[o].old
  <2>1. CASE calls[o].kind = "none"
    BY <1>2, <2>1
  <2>2. CASE calls[o].kind # "none"
    <3>1. calls[o] \in CallRecords
      BY DEF CallsOK
    <3>2. calls'[o] = [calls[o] EXCEPT !.old = @ \cup {e}]
      BY <1>1, <2>2
    <3>. QED
      BY <3>1, <3>2 DEF CallRecords
  <2>. QED
    BY <2>1, <2>2
<1>. QED
  BY <1>3, <1>5, <1>6

LEMMA FailureOver ==
  ASSUME RestOK, CallsOK, NEW c \in Calls, FailureEnds(c), Ended(c)
  PROVE  CallsOK' /\ card' \in Cards /\ page' \in Pages
<1>1. /\ calls' \in [Calls -> CallRecords]
      /\ calls'[c] = Free
      /\ \A o \in Calls \ {c}:
           /\ calls'[o].kind = calls[o].kind /\ calls'[o].pc = calls[o].pc
           /\ calls'[o].seen = calls[o].seen
           /\ calls[o].old \subseteq calls'[o].old
           /\ calls[o].kind # "none" => "failure" \in calls'[o].old
  BY AgesEffect, FreeFits DEF FailureEnds
<1>2. FitsInv'
  BY <1>1, FreeFits DEF CallsOK, FitsInv
<1>3. InstallInv'
  <2>1. \A o \in Calls: calls'[o].kind = "install" =>
          calls[o].kind = "install" /\ o # c
    BY <1>1, FreeFits
  <2>. QED
    BY <2>1 DEF CallsOK, InstallInv, Ended
<1>4. OldInv'
  BY <1>1, FreeFits DEF CallsOK, OldInv, Before, Ended
<1>5. page' \in Pages
  BY ReleasedType DEF FailureEnds, Actions
<1>. QED
  BY <1>1, <1>2, <1>3, <1>4, <1>5, CardTypes DEF CallsOK, FailureEnds

----------------------------------------------------------------------------
(* The page and the timers                                                 *)

LEMMA PageTypes ==
  ASSUME RestOK
  PROVE  /\ \A a \in Actions: Pressed(a) \in Pages
         /\ [page EXCEPT !.checking = TRUE] \in Pages
         /\ [page EXCEPT !.checking = FALSE] \in Pages
         /\ [page EXCEPT !.installWatch = FALSE] \in Pages
         /\ [page EXCEPT !.startingWatch = FALSE] \in Pages
BY DEF RestOK, Pressed, Pages

(* Nothing is pressed, and no probe begins, while an install runs.         *)
LEMMA UserStep ==
  ASSUME IInv, NEW c \in Calls, User(c)
  PROVE  IInv'
<1>. USE CardTypes, PageTypes DEF IInv
<1>k. /\ {"probe", "watch", "start", "stop", "uninstall"} \subseteq Kinds \ {"none", "install"}
      /\ {"look", "prepare", "ask", "askStop"} \subseteq Pcs
      /\ {"install", "start", "stop", "uninstall"} \subseteq Actions
      /\ "-" \in Seen
  BY DEF Kinds, Pcs, Actions, Seen
<1>1. CASE Open(c)
  <2>1. page' \in Pages
    <3>. DEFINE b == cache = None /\ ~card.checked
                p == [Closed EXCEPT !.open = TRUE, !.checking = b,
                                    !.installWatch = installing]
    <3>1. page' = Synced(p, card)
      BY <1>1 DEF Open
    <3>2. b \in BOOLEAN /\ installing \in BOOLEAN
      BY DEF RestOK
    <3>. HIDE DEF b
    <3>3. p \in Pages
      BY <3>2, ClosedType
    <3>. HIDE DEF p
    <3>. QED
      BY <3>1, <3>3, SyncedType
  <2>2. CASE card.checked \/ ~MayProbe
    <3>1. /\ card' \in Cards /\ card'.sticky = card.sticky
          /\ UNCHANGED <<calls, cache, world, installing>>
      BY <1>1, <2>2 DEF Open, RestOK, Cards
    <3>. QED
      BY <2>1, <3>1 DEF RestOK, CallsOK, FitsInv, InstallInv, OldInv, Before
  <2>3. CASE ~(card.checked \/ ~MayProbe)
    <3>1. /\ Begins(c, "probe", "look", TRUE)
          /\ UNCHANGED <<card, cache, world, installing>> /\ ~installing /\ ~card.sticky
      BY <1>1, <2>3 DEF Open, MayProbe
    <3>2. Fits("probe", "look", "-")
      BY DEF Fits
    <3>3. CallsOK'
      BY <3>1, <3>2, <1>k, Began
    <3>. QED
      BY <2>1, <3>1, <3>3 DEF RestOK
  <2>. QED
    BY <2>2, <2>3
<1>2. CASE PressInstall(c)
  <2>1. /\ card' = Cleared /\ installing' = TRUE /\ UNCHANGED <<cache, world>>
        /\ ~installing
    BY <1>2 DEF PressInstall, MarkInstalling, Enabled
  <2>2. page' \in Pages
    <3>1. /\ Pressed("install") \in Pages
          /\ page' = [Pressed("install") EXCEPT !.installWatch = TRUE]
      BY <1>2, <1>k DEF PressInstall
    <3>. QED
      BY <3>1 DEF Pages
  <2>3. CallsOK'
    <3>. DEFINE mine == Begun("install", "prepare", TRUE)
    <3>1. mine \in CallRecords /\ Fits(mine.kind, mine.pc, mine.seen)
      BY DEF Begun, CallRecords, Kinds, Pcs, Seen, Fits
    <3>2. mine.kind = "install"
      BY DEF Begun
    <3>3. Ages(c, "install", mine)
      BY <1>2 DEF PressInstall
    <3>. HIDE DEF mine
    <3>4. /\ calls' \in [Calls -> CallRecords]
          /\ calls'[c] = mine
          /\ \A o \in Calls \ {c}:
               /\ calls'[o].kind = calls[o].kind /\ calls'[o].pc = calls[o].pc
               /\ calls'[o].seen = calls[o].seen
               /\ calls[o].old \subseteq calls'[o].old
               /\ calls[o].kind # "none" => "install" \in calls'[o].old
      BY <3>1, <3>3, AgesEffect
    <3>5. FitsInv'
      BY <3>1, <3>4 DEF CallsOK, FitsInv
    <3>6. InstallInv'
      BY <2>1, <3>4 DEF CallsOK, InstallInv
    <3>7. OldInv'
      BY <2>1, <3>2, <3>4 DEF OldInv, Before
    <3>. QED
      BY <3>4, <3>5, <3>6, <3>7 DEF CallsOK
  <2>. QED
    BY <2>1, <2>2, <2>3 DEF RestOK
<1>3. CASE PressStart(c)
  <2>. DEFINE pc == IF Gated THEN "prepare" ELSE "ask"
  <2>1. /\ Begins(c, "start", pc, TRUE) /\ card' = Cleared /\ page' = Pressed("start")
        /\ ~installing /\ UNCHANGED <<cache, world, installing>>
    BY <1>3 DEF PressStart, Enabled
  <2>2. pc \in Pcs /\ Fits("start", pc, "-")
    BY <1>k DEF Fits
  <2>. HIDE DEF pc
  <2>3. CallsOK'
    BY <2>1, <2>2, <1>k, Began
  <2>. QED
    BY <2>1, <2>3, <1>k DEF RestOK
<1>4. CASE PressStop(c)
  <2>1. /\ Begins(c, "stop", "ask", TRUE) /\ card' = Cleared /\ page' = Pressed("stop")
        /\ ~installing /\ UNCHANGED <<cache, world, installing>>
    BY <1>4 DEF PressStop, Enabled
  <2>2. Fits("stop", "ask", "-")
    BY DEF Fits
  <2>3. CallsOK'
    BY <2>1, <2>2, <1>k, Began
  <2>. QED
    BY <2>1, <2>3, <1>k DEF RestOK
<1>5. CASE PressUninstall(c)
  <2>. DEFINE pc == IF card.status = "running" THEN "askStop" ELSE "ask"
  <2>1. /\ Begins(c, "uninstall", pc, TRUE) /\ card' = Cleared
        /\ page' = Pressed("uninstall")
        /\ ~installing /\ UNCHANGED <<cache, world, installing>>
    BY <1>5 DEF PressUninstall, Enabled
  <2>2. pc \in Pcs /\ Fits("uninstall", pc, "-")
    BY <1>k DEF Fits
  <2>. HIDE DEF pc
  <2>3. CallsOK'
    BY <2>1, <2>2, <1>k, Began
  <2>. QED
    BY <2>1, <2>3, <1>k DEF RestOK
<1>6. CASE PressDismiss(c)
  <2>1. card' = Cleared /\ UNCHANGED <<cache, world, installing>>
    BY <1>6 DEF PressDismiss
  <2>2. CASE installing
    <3>1. UNCHANGED <<calls, page>>
      BY <1>6, <2>2 DEF PressDismiss
    <3>. QED
      BY <2>1, <3>1 DEF RestOK, CallsOK, FitsInv, InstallInv, OldInv, Before
  <2>3. CASE ~installing
    <3>1. /\ Begins(c, "probe", "look", TRUE)
          /\ page' = [page EXCEPT !.checking = TRUE]
      BY <1>6, <2>3 DEF PressDismiss
    <3>2. Fits("probe", "look", "-")
      BY DEF Fits
    <3>3. CallsOK'
      BY <2>1, <2>3, <3>1, <3>2, <1>k, Began
    <3>. QED
      BY <2>1, <3>1, <3>3 DEF RestOK
  <2>. QED
    BY <2>2, <2>3
<1>7. CASE PressCancel(c)
  <2>. DEFINE pc == IF calls[c].pc = "run" THEN "killed" ELSE calls[c].pc
  <2>1. /\ Goes(c, pc, "cancelled")
        /\ UNCHANGED <<card, cache, world, installing, page>>
        /\ calls[c].kind = "install"
        /\ pc \in {"killed", "exited"}
    BY <1>7 DEF PressCancel
  <2>2. pc \in Pcs /\ "cancelled" \in Seen /\ Fits(calls[c].kind, pc, "cancelled")
    BY <2>1 DEF Pcs, Seen, Fits
  <2>. HIDE DEF pc
  <2>3. CallsOK'
    BY <2>1, <2>2, GoesOn
  <2>. QED
    BY <2>1, <2>3 DEF RestOK
<1>. QED
  BY <1>1, <1>2, <1>3, <1>4, <1>5, <1>6, <1>7 DEF User

LEMMA TimerStep ==
  ASSUME IInv, NEW c \in Calls, Timers(c)
  PROVE  IInv'
<1>. USE PageTypes DEF IInv
<1>k. /\ "watch" \in Kinds \ {"none", "install"} /\ "look" \in Pcs
      /\ Fits("watch", "look", "-")
  BY DEF Kinds, Pcs, Fits
<1>1. CASE InstallWatchTick(c)
  <2>1. page' \in Pages
    BY <1>1, SyncedType DEF InstallWatchTick
  <2>2. CASE ~MayProbe
    <3>1. /\ card' \in Cards /\ card'.sticky = card.sticky
          /\ UNCHANGED <<calls, cache, world, installing>>
      BY <1>1, <2>2 DEF InstallWatchTick, RestOK, Cards
    <3>. QED
      BY <2>1, <3>1 DEF RestOK, CallsOK, FitsInv, InstallInv, OldInv, Before
  <2>3. CASE MayProbe
    <3>1. /\ Begins(c, "watch", "look", TRUE)
          /\ UNCHANGED <<card, cache, world, installing>> /\ ~installing /\ ~card.sticky
      BY <1>1, <2>3 DEF InstallWatchTick, MayProbe
    <3>2. CallsOK'
      BY <3>1, <1>k, Began
    <3>. QED
      BY <2>1, <3>1, <3>2 DEF RestOK
  <2>. QED
    BY <2>2, <2>3
<1>2. CASE StartingTick(c)
  <2>1. UNCHANGED <<card, cache, world, installing>>
    BY <1>2 DEF StartingTick
  <2>2. CASE card.status = "starting"
    <3>1. /\ Begins(c, "watch", "look", TRUE)
          /\ UNCHANGED page /\ ~installing /\ ~card.sticky
      BY <1>2, <2>2 DEF StartingTick, MayProbe
    <3>2. CallsOK'
      BY <2>1, <3>1, <1>k, Began
    <3>. QED
      BY <2>1, <3>1, <3>2 DEF RestOK
  <2>3. CASE card.status # "starting"
    <3>1. page' \in Pages /\ UNCHANGED calls
      BY <1>2, <2>3 DEF StartingTick
    <3>. QED
      BY <2>1, <3>1 DEF RestOK, CallsOK, FitsInv, InstallInv, OldInv, Before
  <2>. QED
    BY <2>2, <2>3
<1>3. CASE StartupProbe(c)
  <2>1. /\ Begins(c, "watch", "look", FALSE) /\ ~installing /\ ~card.sticky
        /\ UNCHANGED <<card, cache, world, installing, page>>
    BY <1>3 DEF StartupProbe, MayProbe
  <2>2. CallsOK'
    BY <2>1, <1>k, Began
  <2>. QED
    BY <2>1, <2>2 DEF RestOK
<1>4. CASE Abandon(c)
  <2>1. /\ calls[c].kind = "install" /\ Goes(c, "killed", "late")
        /\ UNCHANGED <<card, cache, world, installing, page>>
    BY <1>4 DEF Abandon
  <2>2. "killed" \in Pcs /\ "late" \in Seen /\ Fits("install", "killed", "late")
    BY DEF Pcs, Seen, Fits
  <2>3. CallsOK'
    BY <2>1, <2>2, GoesOn
  <2>. QED
    BY <2>1, <2>3 DEF RestOK
<1>. QED
  BY <1>1, <1>2, <1>3, <1>4 DEF Timers

----------------------------------------------------------------------------
(* The calls' own steps                                                    *)

LEMMA Out ==
  ASSUME CallsOK, NEW c \in Calls
  PROVE  /\ calls[c].kind \in Kinds /\ calls[c].seen \in Seen
         /\ Fits(calls[c].kind, calls[c].pc, calls[c].seen)
BY DEF CallsOK, CallRecords, FitsInv

LEMMA ProbeStep ==
  ASSUME IInv, NEW c \in Calls, Look(c) \/ LooksInVain(c) \/ Tell(c)
  PROVE  IInv'
<1>. USE PageTypes, Out DEF IInv
<1>1. CASE Look(c)
  <2>1. /\ Goes(c, "seen", Truth) /\ calls[c].pc = "look"
        /\ UNCHANGED <<card, cache, world, installing, page>>
    BY <1>1 DEF Look
  <2>2. /\ Truth \in Statuses
    BY TruthType DEF RestOK
  <2>3. "seen" \in Pcs /\ Truth \in Seen /\ Fits(calls[c].kind, "seen", Truth)
    BY <2>1, <2>2 DEF Pcs, Seen, Fits
  <2>4. CallsOK'
    BY <2>1, <2>3, GoesOn
  <2>. QED
    BY <2>1, <2>4 DEF RestOK
<1>2. CASE LooksInVain(c)
  <2>1. PICK e \in {"error", "lost", "notInstalled"}: Goes(c, "seen", e)
    BY <1>2 DEF LooksInVain
  <2>2. /\ calls[c].pc = "look"
        /\ UNCHANGED <<card, cache, world, installing, page>>
    BY <1>2 DEF LooksInVain
  <2>3. "seen" \in Pcs /\ e \in Seen /\ Fits(calls[c].kind, "seen", e)
    BY <2>2 DEF Pcs, Seen, Fits, Statuses
  <2>4. CallsOK'
    BY <2>1, <2>2, <2>3, GoesOn
  <2>. QED
    BY <2>2, <2>4 DEF RestOK
<1>3. CASE Tell(c)
  <2>. DEFINE s == calls[c].seen
  <2>1. /\ calls' = [calls EXCEPT ![c] = Free]
        /\ UNCHANGED <<world, installing>>
    BY <1>3 DEF Tell
  <2>2. s \in Statuses \cup {"lost"}
        /\ calls[c].kind \in {"probe", "watch", "start", "uninstall"}
    BY <1>3 DEF Tell, Fits
  <2>3. card' \in Cards /\ cache' \in Caches /\ card'.sticky = card.sticky
    <3>1. CASE s = "lost"
      BY <1>3, <3>1 DEF Tell, RestOK, Cards
    <3>2. CASE s = "error"
      BY <1>3, <3>2 DEF Tell, RestOK, Cards, Statuses
    <3>3. CASE s \notin {"lost", "error"}
      BY <1>3, <2>2, <3>3 DEF Tell, RestOK, Cards, Caches
    <3>. QED
      BY <3>1, <3>2, <3>3
  <2>4. page' \in Pages
    <3>1. CASE ~calls[c].own
      BY <1>3, <3>1 DEF Tell, RestOK
    <3>2. CASE calls[c].own /\ calls[c].kind = "probe"
      BY <1>3, <3>2, SyncedType DEF Tell
    <3>3. CASE calls[c].own /\ calls[c].kind = "watch"
      BY <1>3, <3>3, SyncedType DEF Tell, RestOK
    <3>4. CASE calls[c].own /\ calls[c].kind = "start"
      <4>1. page' = Synced(Released(c, page.action), card')
        BY <1>3, <3>4 DEF Tell
      <4>2. page.action \in Actions
        BY DEF RestOK, Pages
      <4>3. Released(c, page.action) \in Pages
        BY <4>2, ReleasedType
      <4>. QED
        BY <4>1, <4>3, SyncedType
    <3>5. CASE calls[c].own /\ calls[c].kind = "uninstall"
      <4>1. page' = Released(c, "")
        BY <1>3, <3>5 DEF Tell
      <4>. QED
        BY <4>1, ReleasedType DEF Actions
    <3>. QED
      BY <2>2, <3>1, <3>2, <3>3, <3>4, <3>5
  <2>5. CallsOK'
    BY <2>1, <2>3, Over DEF Ended
  <2>. QED
    BY <2>1, <2>3, <2>4, <2>5 DEF RestOK
<1>. QED
  BY <1>1, <1>2, <1>3

(* What is written over an empty page.                                     *)
LEMMA Releases ==
  ASSUME RestOK, NEW c \in Calls
  PROVE  Released(c, "") \in Pages /\ Released(c, page.action) \in Pages
<1>1. page.action \in Actions /\ "" \in Actions
  BY DEF RestOK, Pages, Actions
<1>. QED
  BY <1>1, ReleasedType

ToolCalls(c) ==
  \/ Prepare(c) \/ Ask(c) \/ StartAnswers(c) \/ StopAnswers(c)
  \/ Refused(c) \/ UninstallStopped(c) \/ UninstallAnswers(c)

LEMMA ToolStep ==
  ASSUME IInv, NEW c \in Calls, ToolCalls(c)
  PROVE  IInv'
<1>. USE Out, CardTypes, Releases DEF IInv
<1>k. /\ {"run", "ask", "answer", "answerStop", "look"} \subseteq Pcs
      /\ {"-", "ok", "fail"} \subseteq Seen
  BY DEF Pcs, Seen
<1>1. CASE Prepare(c)
  <2>1. calls[c].pc = "prepare" /\ UNCHANGED <<cache, world>>
        /\ calls[c].kind \in {"install", "start"}
    BY <1>1 DEF Prepare, Fits
  <2>. DEFINE pc == IF calls[c].kind = "install" THEN "run" ELSE "ask"
  <2>2. CASE Goes(c, pc, "-") /\ UNCHANGED <<card, installing, page>>
    <3>1. pc \in Pcs /\ Fits(calls[c].kind, pc, "-")
      BY <2>1, <1>k DEF Fits
    <3>. HIDE DEF pc
    <3>2. CallsOK'
      BY <2>2, <3>1, <1>k, GoesOn
    <3>. QED
      BY <2>1, <2>2, <3>2 DEF RestOK
  <2>3. CASE /\ FailureEnds(c)
             /\ installing' = (installing /\ calls[c].kind # "install")
    <3>1. installing \in BOOLEAN
      BY DEF RestOK
    <3>2. Ended(c)
      BY <2>3, <3>1 DEF Ended
    <3>3. CallsOK' /\ card' \in Cards /\ page' \in Pages
      BY <2>3, <3>2, FailureOver
    <3>4. installing' \in BOOLEAN
      BY <2>3
    <3>. QED
      BY <2>1, <3>3, <3>4 DEF RestOK
  <2>. QED
    BY <1>1, <2>2, <2>3 DEF Prepare
<1>2. CASE Ask(c)
  <2>. DEFINE pc == IF calls[c].pc = "ask" THEN "answer" ELSE "answerStop"
  <2>1. /\ UNCHANGED <<card, cache, installing, page>>
        /\ calls[c].pc \in {"ask", "askStop"}
    BY <1>2 DEF Ask
  <2>2. Goes(c, pc, "ok") \/ Goes(c, pc, "fail")
    BY <1>2 DEF Ask
  <2>3. world' \in Worlds
    BY <1>2 DEF Ask, Worlds, RestOK
  <2>4. pc \in Pcs /\ Fits(calls[c].kind, pc, "ok") /\ Fits(calls[c].kind, pc, "fail")
    BY <2>1, <1>k DEF Fits
  <2>. HIDE DEF pc
  <2>5. CallsOK'
    BY <2>1, <2>2, <2>4, <1>k, GoesOn
  <2>. QED
    BY <2>1, <2>3, <2>5 DEF RestOK
<1>3. CASE StartAnswers(c)
  <2>1. /\ calls[c].kind = "start"
        /\ cache' = "running" /\ UNCHANGED <<world, installing>>
    BY <1>3 DEF StartAnswers
  <2>2. card' \in Cards /\ ~card'.sticky
    BY <1>3 DEF StartAnswers, RestOK, Cards, Statuses
  <2>3. CASE Gated /\ ~installing
    <3>1. Goes(c, "look", "-") /\ UNCHANGED page
      BY <1>3, <2>3 DEF StartAnswers
    <3>2. Fits(calls[c].kind, "look", "-")
      BY <2>1 DEF Fits
    <3>3. CallsOK'
      BY <2>1, <2>2, <3>1, <3>2, <1>k, GoesOn
    <3>. QED
      BY <2>1, <2>2, <3>1, <3>3 DEF RestOK, Caches, Statuses
  <2>4. CASE ~(Gated /\ ~installing)
    <3>1. /\ calls' = [calls EXCEPT ![c] = Free]
          /\ page' = IF calls[c].own
                     THEN Synced(Released(c, page.action), card') ELSE page
      BY <1>3, <2>4 DEF StartAnswers
    <3>2. page' \in Pages
      BY <3>1, SyncedType DEF RestOK
    <3>3. CallsOK'
      BY <2>1, <2>2, <3>1, Over DEF Ended
    <3>. QED
      BY <2>1, <2>2, <3>2, <3>3 DEF RestOK, Caches, Statuses
  <2>. QED
    BY <2>3, <2>4
<1>4. CASE StopAnswers(c)
  <2>1. /\ calls' = [calls EXCEPT ![c] = Free] /\ card' = Stopped
        /\ cache' = "stopped" /\ page' = Released(c, "")
        /\ UNCHANGED <<world, installing>>
    BY <1>4 DEF StopAnswers
  <2>2. CallsOK'
    BY <2>1, Over DEF Ended
  <2>. QED
    BY <2>1, <2>2 DEF RestOK, Caches, Statuses
<1>5. CASE Refused(c)
  <2>1. FailureEnds(c) /\ UNCHANGED <<cache, world, installing>>
    BY <1>5 DEF Refused
  <2>2. CallsOK' /\ card' \in Cards /\ page' \in Pages
    BY <2>1, FailureOver DEF Ended
  <2>. QED
    BY <2>1, <2>2 DEF RestOK
<1>6. CASE UninstallStopped(c)
  <2>1. /\ Goes(c, "ask", "-") /\ calls[c].pc = "answerStop"
        /\ UNCHANGED <<world, installing, page>>
    BY <1>6 DEF UninstallStopped
  <2>2. card' \in Cards /\ ~card'.sticky /\ cache' \in Caches
    <3>1. CASE calls[c].seen = "ok"
      BY <1>6, <3>1 DEF UninstallStopped, Cards, Caches, Statuses
    <3>2. CASE calls[c].seen # "ok"
      BY <1>6, <3>2 DEF UninstallStopped, RestOK, Cards, Caches, Statuses
    <3>. QED
      BY <3>1, <3>2
  <2>3. Fits(calls[c].kind, "ask", "-")
    BY <2>1 DEF Fits
  <2>4. CallsOK'
    BY <2>1, <2>2, <2>3, <1>k, GoesOn
  <2>. QED
    BY <2>1, <2>2, <2>4 DEF RestOK
<1>7. CASE UninstallAnswers(c)
  <2>1. calls[c].kind = "uninstall" /\ UNCHANGED <<cache, world, installing>>
    BY <1>7 DEF UninstallAnswers
  <2>2. card' \in Cards /\ card'.sticky = card.sticky
    <3>1. CASE calls[c].seen = "ok"
      <4>. DEFINE b == card.checked \/ (card.sticky /\ ~installing)
      <4>1. b \in BOOLEAN
        OBVIOUS
      <4>2. card' = [card EXCEPT !.status = "notInstalled", !.checked = b]
        BY <1>7, <3>1 DEF UninstallAnswers
      <4>. HIDE DEF b
      <4>. QED
        BY <4>1, <4>2 DEF RestOK, Cards, Statuses
    <3>2. CASE calls[c].seen # "ok"
      BY <1>7, <3>2 DEF UninstallAnswers, RestOK, Cards
    <3>. QED
      BY <3>1, <3>2
  <2>3. CASE Goes(c, "look", "-") /\ UNCHANGED page
    <3>1. Fits(calls[c].kind, "look", "-")
      BY <2>1 DEF Fits
    <3>2. CallsOK'
      BY <2>1, <2>2, <2>3, <3>1, <1>k, GoesOn
    <3>. QED
      BY <2>1, <2>2, <2>3, <3>2 DEF RestOK
  <2>4. CASE calls' = [calls EXCEPT ![c] = Free] /\ page' = Released(c, "")
    <3>1. CallsOK'
      BY <2>1, <2>2, <2>4, Over DEF Ended
    <3>. QED
      BY <2>1, <2>2, <2>4, <3>1 DEF RestOK
  <2>. QED
    BY <1>7, <2>3, <2>4 DEF UninstallAnswers
<1>. QED
  BY <1>1, <1>2, <1>3, <1>4, <1>5, <1>6, <1>7 DEF ToolCalls

InstallCalls(c) ==
  \/ InstallerExits(c) \/ InstallCancelled(c) \/ InstallFails(c)
  \/ InstallSucceeds(c) \/ HookReturns(c)

LEMMA InstallStep ==
  ASSUME IInv, NEW c \in Calls, InstallCalls(c)
  PROVE  IInv'
<1>. USE Out, CardTypes, Releases DEF IInv
<1>1. CASE InstallerExits(c)
  <2>1. PICK done \in BOOLEAN:
          /\ Goes(c, "exited", IF calls[c].seen # "-" THEN calls[c].seen
                               ELSE IF done THEN "ok" ELSE "fail")
          /\ world' = IF ~done THEN world
                      ELSE IF Gated THEN "migrating"
                      ELSE IF world = "absent" THEN "down" ELSE world
    BY <1>1 DEF InstallerExits
  <2>2. calls[c].kind = "install" /\ UNCHANGED <<card, cache, installing, page>>
    BY <1>1 DEF InstallerExits
  <2>. DEFINE seen == IF calls[c].seen # "-" THEN calls[c].seen
                      ELSE IF done THEN "ok" ELSE "fail"
  <2>3. seen \in Seen /\ "exited" \in Pcs /\ Fits(calls[c].kind, "exited", seen)
    BY <2>2 DEF Seen, Pcs, Fits
  <2>4. Goes(c, "exited", seen)
    BY <2>1
  <2>. HIDE DEF seen
  <2>5. CallsOK'
    BY <2>2, <2>3, <2>4, GoesOn
  <2>6. world' \in Worlds
    BY <2>1 DEF RestOK, Worlds
  <2>. QED
    BY <2>2, <2>5, <2>6 DEF RestOK
<1>2. CASE InstallCancelled(c)
  <2>1. /\ card' = [Cleared EXCEPT !.status = "notInstalled"]
        /\ installing' = FALSE /\ page' = Released(c, "")
        /\ calls' = [calls EXCEPT ![c] = Free] /\ UNCHANGED <<cache, world>>
        /\ calls[c].kind = "install"
    BY <1>2 DEF InstallCancelled, Fits
  <2>2. card' \in Cards /\ ~card'.sticky
    BY <2>1 DEF Cards, Statuses
  <2>3. CallsOK'
    BY <2>1, <2>2, Over DEF Ended
  <2>. QED
    BY <2>1, <2>2, <2>3 DEF RestOK
<1>3. CASE InstallFails(c)
  <2>1. /\ FailureEnds(c) /\ installing' = FALSE /\ UNCHANGED <<cache, world>>
        /\ calls[c].kind = "install"
    BY <1>3 DEF InstallFails, Fits
  <2>2. CallsOK' /\ card' \in Cards /\ page' \in Pages
    BY <2>1, FailureOver DEF Ended
  <2>. QED
    BY <2>1, <2>2 DEF RestOK
<1>4. CASE InstallSucceeds(c)
  <2>1. /\ Goes(c, "hook", "ok") /\ calls[c].kind = "install"
        /\ cache' = "stopped" /\ UNCHANGED <<world, installing, page>>
    BY <1>4 DEF InstallSucceeds, Fits
  <2>2. card' \in Cards /\ ~card'.sticky
    BY <1>4 DEF InstallSucceeds, RestOK, Cards, Statuses
  <2>3. "hook" \in Pcs /\ "ok" \in Seen /\ Fits(calls[c].kind, "hook", "ok")
    BY <2>1 DEF Pcs, Seen, Fits
  <2>4. CallsOK'
    BY <2>1, <2>2, <2>3, GoesOn
  <2>. QED
    BY <2>1, <2>2, <2>4 DEF RestOK, Caches, Statuses
<1>5. CASE HookReturns(c)
  <2>1. /\ installing' = FALSE /\ page' = Released(c, "")
        /\ calls' = [calls EXCEPT ![c] = Free] /\ UNCHANGED <<card, cache, world>>
        /\ calls[c].kind = "install"
    BY <1>5 DEF HookReturns, Fits
  <2>2. CallsOK'
    BY <2>1, Over DEF Ended
  <2>. QED
    BY <2>1, <2>2 DEF RestOK
<1>. QED
  BY <1>1, <1>2, <1>3, <1>4, <1>5 DEF InstallCalls

LEMMA OutsideStep ==
  ASSUME IInv, LeavePage \/ Migrated \/ ToolDies \/ Restart
  PROVE  IInv'
<1>. USE DEF IInv
<1>1. CASE LeavePage
  <2>1. page' \in Pages /\ UNCHANGED <<card, cache, world, installing>>
    BY <1>1, ClosedType DEF LeavePage
  <2>2. /\ calls' \in [Calls -> CallRecords]
        /\ \A c \in Calls: /\ calls'[c].kind = calls[c].kind
                           /\ calls'[c].pc = calls[c].pc
                           /\ calls'[c].seen = calls[c].seen
                           /\ calls'[c].old = calls[c].old
    BY <1>1 DEF LeavePage, CallsOK, CallRecords
  <2>3. CallsOK'
    BY <2>1, <2>2 DEF CallsOK, FitsInv, InstallInv, OldInv, Before
  <2>. QED
    BY <2>1, <2>3 DEF RestOK
<1>2. CASE Migrated \/ ToolDies
  BY <1>2 DEF Migrated, ToolDies, RestOK, Worlds, CallsOK, FitsInv, InstallInv,
              OldInv, Before
<1>3. CASE Restart
  <2>1. /\ card' \in Cards /\ page' \in Pages /\ installing' = FALSE
        /\ ~card'.sticky /\ UNCHANGED <<cache, world>>
    BY <1>3, SeedType, ClosedType DEF Restart, RestOK
  <2>2. calls' \in [Calls -> CallRecords] /\ \A c \in Calls: calls'[c] = Free
    BY <1>3, FreeFits DEF Restart
  <2>3. CallsOK'
    BY <2>1, <2>2, FreeFits DEF CallsOK, FitsInv, InstallInv, OldInv
  <2>. QED
    BY <2>1, <2>3 DEF RestOK
<1>. QED
  BY <1>1, <1>2, <1>3

LEMMA Inductive ==
  /\ Init => IInv
  /\ IInv /\ [Next]_vars => IInv'
<1>1. ASSUME Init PROVE IInv
  <2>1. cache \in Caches /\ card = Seeded(cache) /\ installing = FALSE
    BY <1>1 DEF Init, Caches, Statuses
  <2>2. RestOK
    BY <1>1, <2>1, SeedType, ClosedType DEF Init, RestOK
  <2>3. calls \in [Calls -> CallRecords] /\ \A c \in Calls: calls[c] = Free
    BY <1>1, FreeFits DEF Init
  <2>4. CallsOK
    BY <2>1, <2>3, FreeFits, SeedType DEF CallsOK, FitsInv, InstallInv, OldInv
  <2>. QED
    BY <2>2, <2>4 DEF IInv
<1>2. ASSUME IInv, UNCHANGED vars PROVE IInv'
  BY <1>2 DEF vars, IInv, RestOK, CallsOK, FitsInv, InstallInv, OldInv, Before
<1>3. ASSUME IInv, NEW c \in Calls,
             User(c) \/ Timers(c) \/ Progress(c) \/ Look(c) \/ LooksInVain(c)
               \/ InstallerExits(c)
      PROVE  IInv'
  BY <1>3, UserStep, TimerStep, ProbeStep, ToolStep, InstallStep
     DEF Progress, ToolCalls, InstallCalls
<1>. QED
  BY <1>2, <1>1, <1>3, OutsideStep DEF Next

LEMMA Always == Spec => []IInv
BY Inductive, PTL DEF Spec

(* Card, cache, calls and page have their types.                           *)
THEOREM TypeCorrect == Spec => []TypeOK
<1>. IInv => TypeOK
  BY DEF IInv, RestOK, CallsOK, TypeOK, Cards, Caches, CallRecords, Pages, Actions
<1>. QED
  BY Always, PTL

(* Two installers never run beside each other, whoever leaves the page and *)
(* comes back (service.dart:617): the service marks the install before it  *)
(* begins and takes the mark away only when it is over.                    *)
THEOREM InstallerAlone == Spec => []OneInstaller
<1>. IInv => OneInstaller
  <2>. SUFFICES ASSUME IInv PROVE OneInstaller
    OBVIOUS
  <2>. DEFINE S == {c \in Calls: calls[c].kind = "install"
                                 /\ calls[c].pc \in {"run", "killed"}}
  <2>1. \A c, d \in S: c = d
    BY DEF IInv, CallsOK, InstallInv
  <2>2. CASE S = {}
    BY <2>2, FS_EmptySet DEF OneInstaller
  <2>3. CASE S # {}
    <3>1. PICK c \in S: TRUE
      BY <2>3
    <3>2. S = {c}
      BY <2>1, <3>1
    <3>3. Cardinality(S) = 1
      BY <3>2, FS_Singleton
    <3>. QED
      BY <3>3 DEF OneInstaller
  <2>. QED
    BY <2>2, <2>3
<1>. QED
  BY Always, PTL

----------------------------------------------------------------------------
(* Who writes on the card                                                  *)

(* A step that changes what the card says is a call's that was out, a      *)
(* user's who takes a failure away, or a restart.                          *)
Writers ==
  \/ card'.status = card.status /\ card'.err = card.err /\ cache' = cache
  \/ \E c \in Calls: calls[c].kind # "none" /\ calls'[c] # calls[c]
  \/ ~card'.sticky /\ ~installing
  \/ ~card'.sticky /\ card.err # "none" /\ card'.err = "none" /\ cache' = cache
  \/ ~card'.sticky /\ calls' = [c \in Calls |-> Free]

(* A call that is out and moves or ends is another than before.            *)
LEMMA Moves ==
  ASSUME CallsOK, NEW c \in Calls,
         \/ calls' = [calls EXCEPT ![c] = Free]
         \/ FailureEnds(c)
         \/ calls'[c].pc # calls[c].pc,
         calls[c].pc # ""
  PROVE  \E d \in Calls: calls[d].kind # "none" /\ calls'[d] # calls[d]
<1>1. calls[c].kind # "none"
  BY DEF CallsOK, FitsInv, Fits
<1>2. calls'[c] # calls[c]
  <2>1. CASE calls' = [calls EXCEPT ![c] = Free]
    BY <2>1, <1>1, FreeFits DEF CallsOK
  <2>2. CASE FailureEnds(c)
    BY <2>2, <1>1, FreeFits DEF FailureEnds, Ages
  <2>3. CASE calls'[c].pc # calls[c].pc
    BY <2>3
  <2>. QED
    BY <2>1, <2>2, <2>3
<1>. QED
  BY <1>1, <1>2

LEMMA WhoWrites ==
  ASSUME IInv, [Next]_vars
  PROVE  Writers
<1>. USE DEF IInv
<1>1. CASE UNCHANGED <<card, cache>>
  BY <1>1 DEF Writers
<1>2. ASSUME NEW c \in Calls, User(c) PROVE Writers
  <2>1. CASE Open(c)
    BY <2>1 DEF Open, Writers, RestOK, Cards
  <2>2. CASE PressInstall(c) \/ PressStart(c) \/ PressStop(c) \/ PressUninstall(c)
    BY <2>2, CardTypes DEF PressInstall, PressStart, PressStop, PressUninstall,
       Enabled, Writers
  <2>3. CASE PressDismiss(c)
    BY <2>3, CardTypes DEF PressDismiss, Writers
  <2>4. CASE PressCancel(c)
    BY <2>4, <1>1 DEF PressCancel
  <2>. QED
    BY <1>2, <2>1, <2>2, <2>3, <2>4 DEF User
<1>3. ASSUME NEW c \in Calls, Timers(c) PROVE Writers
  BY <1>3 DEF Timers, InstallWatchTick, StartingTick, StartupProbe, Abandon,
     Writers, RestOK, Cards
<1>4. ASSUME NEW c \in Calls, Progress(c) PROVE Writers
  <2>1. CASE Tell(c) \/ StopAnswers(c) \/ Refused(c) \/ InstallCancelled(c)
             \/ InstallFails(c) \/ HookReturns(c)
    BY <2>1, Moves DEF Tell, StopAnswers, Refused, InstallCancelled,
       InstallFails, HookReturns, Writers
  <2>2. CASE Prepare(c)
    BY <2>2, <1>1, Moves DEF Prepare, Writers
  <2>3. CASE Ask(c)
    BY <2>3, <1>1 DEF Ask
  <2>4. CASE StartAnswers(c)
    <3>1. calls[c].pc = "answer"
      BY <2>4 DEF StartAnswers
    <3>2. calls'[c].pc = "look" \/ calls' = [calls EXCEPT ![c] = Free]
      BY <2>4 DEF StartAnswers, Goes, CallsOK, CallRecords
    <3>. QED
      BY <3>1, <3>2, Moves DEF Writers
  <2>5. CASE UninstallStopped(c)
    <3>1. calls[c].pc = "answerStop" /\ calls'[c].pc = "ask"
      BY <2>5 DEF UninstallStopped, Goes, CallsOK, CallRecords
    <3>. QED
      BY <3>1, Moves DEF Writers
  <2>6. CASE InstallSucceeds(c)
    <3>1. calls[c].pc = "exited" /\ calls'[c].pc = "hook"
      BY <2>6 DEF InstallSucceeds, Goes, CallsOK, CallRecords
    <3>. QED
      BY <3>1, Moves DEF Writers
  <2>7. CASE UninstallAnswers(c)
    <3>1. calls[c].pc = "answer"
      BY <2>7 DEF UninstallAnswers
    <3>2. Goes(c, "look", "-") \/ calls' = [calls EXCEPT ![c] = Free]
      BY <2>7 DEF UninstallAnswers
    <3>3. Goes(c, "look", "-") => calls'[c].pc = "look"
      BY DEF Goes, CallsOK, CallRecords
    <3>. QED
      BY <3>1, <3>2, <3>3, Moves DEF Writers
  <2>. QED
    BY <1>4, <2>1, <2>2, <2>3, <2>4, <2>5, <2>6, <2>7 DEF Progress
<1>5. ASSUME NEW c \in Calls, Look(c) \/ LooksInVain(c) \/ InstallerExits(c)
      PROVE  Writers
  BY <1>5, <1>1 DEF Look, LooksInVain, InstallerExits
<1>6. CASE LeavePage \/ Migrated \/ ToolDies
  BY <1>6, <1>1 DEF LeavePage, Migrated, ToolDies
<1>7. CASE Restart
  BY <1>7, SeedType DEF Restart, RestOK, Writers
<1>8. CASE UNCHANGED vars
  BY <1>8, <1>1 DEF vars
<1>. QED
  BY <1>2, <1>3, <1>4, <1>5, <1>6, <1>7, <1>8 DEF Next

(* A failure stays on the card until the user acts: a probe that begins    *)
(* later gives way, only a call that was out can still write over it       *)
(* (service.dart:525).                                                     *)
THEOREM FailureStays == Spec => FailureKept
<1>1. ASSUME IInv, [Next]_vars, card.sticky, card'.sticky
      PROVE  \/ card'.status = card.status /\ card'.err = card.err
             \/ \E c \in Calls: Before(c, "failure") /\ calls'[c] # calls[c]
  <2>1. Writers
    BY <1>1, WhoWrites
  <2>. QED
    BY <1>1, <2>1 DEF Writers, IInv, CallsOK, OldInv
<1>. QED
  BY <1>1, Always, PTL DEF Spec, FailureKept

(* Beside an install nothing else writes status and cache, but for calls   *)
(* that were out when it began, the dismissal of what they reported, and a *)
(* restart (service.dart:1459).                                            *)
THEOREM InstallStays == Spec => InstallKept
<1>1. ASSUME IInv, [Next]_vars, installing,
             card'.status # card.status \/ cache' # cache
      PROVE  \/ \E c \in Calls: /\ calls'[c] # calls[c]
                                /\ calls[c].kind = "install" \/ Before(c, "install")
             \/ card.err # "none" /\ card'.err = "none" /\ cache' = cache
             \/ calls' = [c \in Calls |-> Free]
  <2>1. Writers
    BY <1>1, WhoWrites
  <2>. QED
    BY <1>1, <2>1 DEF Writers, IInv, CallsOK, OldInv
<1>. QED
  BY <1>1, Always, PTL DEF Spec, InstallKept
=============================================================================
