--------------------------- MODULE HostsSync_proofs ---------------------------
(***************************************************************************)
(* What is proved of HostsSync, for any instances, foreign lines and jobs: *)
(* the types, and the four safety properties the run `hosts` checks.       *)
(***************************************************************************)
EXTENDS HostsSync, TLAPS

Waits(j) == job[j].at \in {"queued", "prompt"}

(* Each job is in the line once, and only the first one may ask.           *)
LineInv ==
  /\ \A m, n \in DOMAIN line: line[m] = line[n] => m = n
  /\ \A j \in Jobs: job[j].at = "prompt" => line # <<>> /\ j = Head(line)

(* Until somebody edits the file, what is staged differs from the file as  *)
(* it is read in the block only.                                           *)
StagedInv == Prompting /\ ~touched => staged.others = Decoded(file).others

(* A refused block is the one that is remembered.                          *)
RefusedInv == refused # None => lastBlock = refused

(* While the switch is off, a tick that still collects is a late one.      *)
LateInv == ~on => \A j \in Jobs: IsTick(j) /\ job[j].at = "collecting" => j \in late

IInv ==
  /\ TypeOK /\ LineInv
  /\ StagedIsOwn /\ StagedInv
  /\ RefusedInv
  /\ LateInv /\ OffStaysOff

----------------------------------------------------------------------------
(* The line                                                                *)

LEMMA Joined ==
  ASSUME NEW s \in Seq(Jobs), NEW j \in Jobs, \A n \in DOMAIN s: s[n] # j,
         \A m, n \in DOMAIN s: s[m] = s[n] => m = n
  PROVE  LET t == Append(s, j) IN
         /\ t \in Seq(Jobs) /\ t # <<>>
         /\ s # <<>> => Head(t) = Head(s)
         /\ \A m, n \in DOMAIN t: t[m] = t[n] => m = n
         /\ \A i \in Jobs: (\E n \in DOMAIN t: t[n] = i) <=>
                             i = j \/ \E n \in DOMAIN s: s[n] = i
<1>. DEFINE t == Append(s, j)
<1>1. /\ t \in Seq(Jobs) /\ Len(t) = Len(s) + 1 /\ t[Len(t)] = j
      /\ \A n \in 1..Len(s): t[n] = s[n]
      /\ s # <<>> => Head(t) = Head(s)
  OBVIOUS
<1>2. DOMAIN s = 1..Len(s) /\ DOMAIN t = 1..Len(t) /\ Len(s) \in Nat
  BY <1>1
<1>. HIDE DEF t
<1>3. \A m, n \in DOMAIN t: t[m] = t[n] => m = n
  BY <1>1, <1>2
<1>4. \A i \in Jobs: (\E n \in DOMAIN t: t[n] = i) <=> i = j \/ \E n \in DOMAIN s: s[n] = i
  BY <1>1, <1>2
<1>5. t # <<>>
  BY <1>1, <1>2
<1>. QED
  BY <1>1, <1>3, <1>4, <1>5 DEF t

LEMMA Left ==
  ASSUME NEW s \in Seq(Jobs), s # <<>>, \A m, n \in DOMAIN s: s[m] = s[n] => m = n
  PROVE  LET t == Tail(s) IN
         /\ t \in Seq(Jobs)
         /\ \A m, n \in DOMAIN t: t[m] = t[n] => m = n
         /\ \A i \in Jobs: (\E n \in DOMAIN t: t[n] = i) <=>
                             i # Head(s) /\ \E n \in DOMAIN s: s[n] = i
<1>. DEFINE t == Tail(s)
<1>1. /\ t \in Seq(Jobs) /\ Len(t) = Len(s) - 1 /\ Len(s) \in Nat /\ Len(s) > 0
      /\ \A n \in 1..Len(t): t[n] = s[n + 1]
      /\ Head(s) = s[1]
  OBVIOUS
<1>2. DOMAIN s = 1..Len(s) /\ DOMAIN t = 1..Len(t)
  BY <1>1
<1>. HIDE DEF t
<1>3. \A m, n \in DOMAIN t: t[m] = t[n] => m = n
  BY <1>1, <1>2
<1>4. ASSUME NEW i \in Jobs
      PROVE  (\E n \in DOMAIN t: t[n] = i) <=> i # Head(s) /\ \E n \in DOMAIN s: s[n] = i
  <2>1. ASSUME NEW n \in DOMAIN t, t[n] = i PROVE i # Head(s) /\ \E m \in DOMAIN s: s[m] = i
    BY <1>1, <1>2, <2>1
  <2>2. ASSUME NEW n \in DOMAIN s, s[n] = i, i # Head(s) PROVE \E m \in DOMAIN t: t[m] = i
    <3>1. n - 1 \in DOMAIN t /\ t[n - 1] = i
      BY <1>1, <1>2, <2>2
    <3>. QED
      BY <3>1
  <2>. QED
    BY <2>1, <2>2
<1>. QED
  BY <1>1, <1>3, <1>4 DEF t

(* Where a job is changed, what is known of it and of the line.            *)
LineTypes ==
  /\ job \in [Jobs -> Calls] /\ line \in Seq(Jobs)
  /\ \A j \in Jobs: InLine(j) <=> Waits(j)
Changes(j, c) == job' = [job EXCEPT ![j] = c]

LEMMA FreeType == Free \in Calls /\ Free.at = "idle"
BY DEF Free, Calls, Stages, Kinds, Blocks

(* A job that begins to wait goes to the end, ...                          *)
LEMMA JoinsLine ==
  ASSUME LineTypes, LineInv, NEW j \in Jobs, ~Waits(j), NEW c \in Calls,
         c.at = "queued", Changes(j, c), line' = Append(line, j)
  PROVE  LineTypes' /\ LineInv'
<1>1. \A n \in DOMAIN line: line[n] # j
  BY DEF LineTypes, InLine
<1>. DEFINE t == Append(line, j)
<1>2. /\ t \in Seq(Jobs) /\ t # <<>> /\ (line # <<>> => Head(t) = Head(line))
      /\ \A m, n \in DOMAIN t: t[m] = t[n] => m = n
      /\ \A i \in Jobs: (\E n \in DOMAIN t: t[n] = i) <=>
                          i = j \/ \E n \in DOMAIN line: line[n] = i
  <2>1. line \in Seq(Jobs) /\ \A m, n \in DOMAIN line: line[m] = line[n] => m = n
    BY DEF LineTypes, LineInv
  <2>. QED
    BY <1>1, <2>1, Joined
<1>3. /\ job' \in [Jobs -> Calls] /\ job'[j] = c
      /\ \A i \in Jobs \ {j}: job'[i] = job[i]
  BY DEF LineTypes, Changes
<1>4. line' = t
  OBVIOUS
<1>. HIDE DEF t
<1>5. \A i \in Jobs: InLine(i)' <=> i = j \/ InLine(i)
  BY <1>2, <1>4 DEF InLine
<1>6. LineTypes'
  BY <1>2, <1>3, <1>4, <1>5 DEF LineTypes, Waits
<1>7. ASSUME NEW i \in Jobs, job'[i].at = "prompt" PROVE line' # <<>> /\ i = Head(line')
  BY <1>2, <1>3, <1>4, <1>7 DEF LineInv
<1>. QED
  BY <1>2, <1>4, <1>6, <1>7 DEF LineInv

(* ... the first one leaves it, and then nobody is asked, ...              *)
LEMMA LeavesLine ==
  ASSUME LineTypes, LineInv, NEW j \in Jobs, Waits(j), j = Head(line),
         Changes(j, Free), LeaveLine
  PROVE  /\ LineTypes' /\ LineInv'
         /\ \A i \in Jobs: job'[i].at # "prompt"
<1>1. line # <<>>
  BY DEF LineTypes, InLine
<1>2. /\ line' \in Seq(Jobs)
      /\ \A m, n \in DOMAIN line': line'[m] = line'[n] => m = n
      /\ \A i \in Jobs: InLine(i)' <=> i # j /\ InLine(i)
  BY <1>1, Left DEF LineTypes, LineInv, InLine, LeaveLine
<1>3. /\ job' \in [Jobs -> Calls] /\ job'[j] = Free
      /\ \A i \in Jobs \ {j}: job'[i] = job[i]
  BY FreeType DEF LineTypes, Changes
<1>4. \A i \in Jobs: job'[i].at # "prompt"
  BY <1>3, FreeType DEF LineInv
<1>. QED
  BY <1>2, <1>3, <1>4, FreeType DEF LineTypes, LineInv, Waits

(* ... and else the line stays.                                            *)
LEMMA StaysInLine ==
  ASSUME LineTypes, LineInv, NEW j \in Jobs, NEW c \in Calls,
         Changes(j, c), UNCHANGED line,
         Waits(j) <=> c.at \in {"queued", "prompt"},
         c.at = "prompt" => j = Head(line)
  PROVE  LineTypes' /\ LineInv'
<1>1. /\ job' \in [Jobs -> Calls] /\ job'[j] = c
      /\ \A i \in Jobs \ {j}: job'[i] = job[i]
  BY DEF LineTypes, Changes
<1>2. \A i \in Jobs: InLine(i)' <=> InLine(i)
  BY DEF InLine
<1>3. Waits(j) => line # <<>>
  BY DEF LineTypes, InLine
<1>. QED
  BY <1>1, <1>2, <1>3 DEF LineTypes, LineInv, Waits

(* What every step does to the jobs, if anything.                          *)
Moves(j) == \E c \in Calls: Changes(j, c) /\ LineTypes' /\ LineInv'

LEMMA Steps ==
  ASSUME LineTypes, LineInv, NEW j \in Jobs
  PROVE  /\ Tick(j) => Moves(j)
         /\ Look(j) \/ Turn(j) \/ Answer(j) => Moves(j)
         /\ SyncNow(j) \/ RemoveEntries(j) \/ SwitchedOn(j) \/ SwitchedOff(j) => Moves(j)
<1>. USE FreeType DEF Moves
<1>1. job[j] \in Calls
  BY DEF LineTypes
<1>2. ASSUME Tick(j) PROVE Moves(j)
  <2>. DEFINE c == [Free EXCEPT !.at = "collecting"]
  <2>1. c \in Calls /\ c.at = "collecting"
    BY DEF Free, Calls, Stages
  <2>. QED
    BY <1>2, <2>1, StaysInLine DEF Tick, Idle, Waits, Changes
<1>3. ASSUME NothingMoved(j) \/ CollectFails(j) PROVE Moves(j)
  BY <1>3, StaysInLine DEF NothingMoved, CollectFails, Ends, Changes, Waits
<1>4. ASSUME Collected(j) PROVE Moves(j)
  <2>1. PICK es \in Blocks: job' = [job EXCEPT ![j].at = "queued", ![j].entries = es]
    BY <1>4 DEF Collected
  <2>. DEFINE c == [job[j] EXCEPT !.at = "queued", !.entries = es]
  <2>2. c \in Calls /\ c.at = "queued"
    BY <1>1 DEF Calls, Stages
  <2>3. Changes(j, c)
    BY <1>1, <2>1 DEF LineTypes, Calls, Changes
  <2>. QED
    BY <1>4, <2>2, <2>3, JoinsLine DEF Collected, Waits
<1>5. ASSUME Unchanged(j) PROVE Moves(j)
  BY <1>5, LeavesLine DEF Unchanged, Ends, Changes, Waits
<1>6. ASSUME Prompt(j) PROVE Moves(j)
  <2>. DEFINE c == [job[j] EXCEPT !.at = "prompt"]
  <2>1. c \in Calls /\ c.at = "prompt"
    BY <1>1 DEF Calls, Stages
  <2>. QED
    BY <1>6, <2>1, StaysInLine DEF Prompt, Changes, Waits
<1>7. ASSUME Answer(j) PROVE Moves(j)
  <2>1. Waits(j) /\ j = Head(line) /\ Changes(j, Free) /\ LeaveLine
    BY <1>7 DEF Answer, Approve, Refuse, Ends, Changes, Waits, LineInv
  <2>. QED
    BY <2>1, LeavesLine
<1>8. ASSUME NEW b \in BOOLEAN, Sync(j, b) PROVE Moves(j)
  <2>. DEFINE c == [at |-> "collecting", kind |-> "sync", entries |-> {}, starts |-> b]
  <2>1. c \in Calls /\ c.at = "collecting"
    BY DEF Calls, Stages, Kinds, Blocks
  <2>. QED
    BY <1>8, <2>1, StaysInLine DEF Sync, Idle, Waits, Changes
<1>9. ASSUME Clear(j) PROVE Moves(j)
  <2>. DEFINE c == [Free EXCEPT !.at = "queued", !.kind = "clear"]
  <2>1. c \in Calls /\ c.at = "queued"
    BY DEF Free, Calls, Stages, Kinds
  <2>. QED
    BY <1>9, <2>1, JoinsLine DEF Clear, Idle, Waits, Changes
<1>. QED
  BY <1>2, <1>3, <1>4, <1>5, <1>6, <1>7, <1>8, <1>9
     DEF Look, Turn, SyncNow, RemoveEntries, SwitchedOn, SwitchedOff

----------------------------------------------------------------------------
(* Types                                                                   *)

JobStep(j) ==
  \/ Tick(j) \/ Look(j) \/ Turn(j) \/ Answer(j)
  \/ SyncNow(j) \/ RemoveEntries(j) \/ SwitchedOn(j) \/ SwitchedOff(j)
JobFree ==
  \/ \E l \in Lines: EditOthers(l)
  \/ Switch \/ SwitchedBusy \/ TickStops \/ LeavePage

LEMMA Cases ==
  [Next]_vars => (\E j \in Jobs: JobStep(j)) \/ JobFree \/ Restart \/ UNCHANGED vars
BY DEF Next, JobStep, JobFree

(* The job a step changes: the others stay as they are.                    *)
LEMMA OthersStay ==
  ASSUME LineTypes, LineInv, NEW j \in Jobs, JobStep(j)
  PROVE  /\ LineTypes' /\ LineInv'
         /\ \A i \in Jobs \ {j}: job'[i] = job[i]
BY Steps DEF JobStep, Moves, Changes, LineTypes

LEMMA LineStep ==
  ASSUME TypeOK, LineInv, [Next]_vars
  PROVE  LineTypes' /\ LineInv'
<1>1. LineTypes
  BY DEF TypeOK, LineTypes, Waits
<1>2. ASSUME NEW j \in Jobs, JobStep(j) PROVE LineTypes' /\ LineInv'
  BY <1>1, <1>2, OthersStay
<1>3. CASE JobFree \/ UNCHANGED vars
  <2>1. UNCHANGED <<job, line>>
    BY <1>3 DEF JobFree, EditOthers, Switch, SwitchedBusy, TickStops, LeavePage, queue, vars
  <2>. QED
    BY <1>1, <2>1 DEF LineTypes, LineInv, InLine, Waits
<1>4. CASE Restart
  <2>1. job' = [j \in Jobs |-> Free] /\ line' = <<>>
    BY <1>4 DEF Restart
  <2>2. DOMAIN line' = {} /\ line' \in Seq(Jobs)
    BY <2>1
  <2>. QED
    BY <2>1, <2>2, FreeType DEF LineTypes, LineInv, InLine, Waits
<1>. QED
  BY <1>2, <1>3, <1>4, Cases

(* The rest of the types.                                                  *)
RestTypes ==
  /\ file \in Files
  /\ on \in BOOLEAN /\ timer \in BOOLEAN
  /\ lastBlock \in Blocks \cup {None}
  /\ staged \in Files \cup {None}
  /\ busy \in Jobs \cup {None} /\ (busy # None => ~Idle(busy))
  /\ storing \in BOOLEAN /\ touched \in BOOLEAN
  /\ late \subseteq Jobs
  /\ refused \in Blocks \cup {None}

(* The file as it is read is a file, with the lines that are text as they  *)
(* were.                                                                   *)
LEMMA Reading ==
  ASSUME NEW f \in Files
  PROVE  /\ Decoded(f) \in Files /\ Decoded(f).block = f.block
         /\ \A l \in Lines: Decoded(f).others[l] =
              IF f.others[l] = "bytes" THEN "text" ELSE f.others[l]
         /\ \A es \in Blocks:
              /\ ApplyBlock(Decoded(f), es) \in Files
              /\ ApplyBlock(Decoded(f), es).block = es
              /\ ApplyBlock(Decoded(f), es).others = Decoded(f).others
<1>. DEFINE fs == [l \in Lines |-> IF f.others[l] = "bytes" THEN "text" ELSE f.others[l]]
<1>1. fs \in [Lines -> Forms]
  BY DEF Files, Forms
<1>2. Decoded(f) = [f EXCEPT !.others = fs]
  BY DEF Decoded
<1>3. \A l \in Lines: fs[l] = IF f.others[l] = "bytes" THEN "text" ELSE f.others[l]
  OBVIOUS
<1>. HIDE DEF fs
<1>4. Decoded(f) \in Files /\ Decoded(f).block = f.block /\ Decoded(f).others = fs
  BY <1>1, <1>2 DEF Files
<1>5. \A es \in Blocks:
        /\ ApplyBlock(Decoded(f), es) \in Files
        /\ ApplyBlock(Decoded(f), es).block = es
        /\ ApplyBlock(Decoded(f), es).others = Decoded(f).others
  BY <1>4 DEF ApplyBlock, Files
<1>. QED
  BY <1>3, <1>4, <1>5

LEMMA TypeStep == ASSUME TypeOK, LineInv, [Next]_vars PROVE TypeOK'
<1>1. LineTypes' /\ LineTypes
  BY LineStep DEF TypeOK, LineTypes, Waits
<1>2. RestTypes
  BY DEF TypeOK, RestTypes
<1>3. RestTypes'
  <2>1. ASSUME NEW j \in Jobs, JobStep(j) PROVE RestTypes'
    <3>1. job[j] \in Calls /\ job[j].entries \in Blocks /\ job[j].starts \in BOOLEAN
      BY <1>1 DEF LineTypes, Calls
    <3>2. \A i \in Jobs \ {j}: job'[i] = job[i]
      BY <1>1, <2>1, OthersStay
    <3>. USE <1>1, <1>2, <3>1, <3>2 DEF RestTypes, Idle, page, service, history
    <3>3. CASE Tick(j)
      BY <3>3 DEF Tick
    <3>4. CASE NothingMoved(j) \/ CollectFails(j)
      BY <3>4, FreeType DEF NothingMoved, CollectFails, Ends, LineTypes
    <3>5. CASE Collected(j) \/ Prompt(j)
      <4>1. job'[j].at # "idle" /\ UNCHANGED <<file, service, page, refused>>
        BY <3>5 DEF Collected, Prompt, LineTypes, Calls
      <4>2. ApplyBlock(Decoded(file), job[j].entries) \in Files
        BY Reading
      <4>3. staged' \in Files \cup {None} /\ touched' \in BOOLEAN
        BY <3>5, <4>2 DEF Collected, Prompt
      <4>. QED
        BY <4>1, <4>3
    <3>6. CASE Unchanged(j) \/ Answer(j)
      <4>1. /\ Ends(j) /\ \E r \in {None, job[j].entries}: Remember(j, r)
            /\ staged' \in {staged, None} /\ touched' \in BOOLEAN
        BY <3>6 DEF Unchanged, Answer, Approve, Refuse
      <4>2. file' \in Files
        BY <3>6 DEF Unchanged, Answer, Approve, Refuse
      <4>. QED
        BY <4>1, <4>2, FreeType DEF Ends, Remember, LineTypes
    <3>7. CASE SyncNow(j) \/ SwitchedOn(j)
      <4>1. job'[j].at = "collecting" /\ busy' = j
        BY <3>7 DEF SyncNow, SwitchedOn, Sync, LineTypes
      <4>. QED
        BY <3>7, <4>1 DEF SyncNow, SwitchedOn, Sync
    <3>8. CASE RemoveEntries(j) \/ SwitchedOff(j)
      <4>1. job'[j].at = "queued" /\ busy' = j
        BY <3>8 DEF RemoveEntries, SwitchedOff, Clear, LineTypes, Free
      <4>. QED
        BY <3>8, <4>1 DEF RemoveEntries, SwitchedOff, Clear, StopAutoSync, TicksAt
    <3>. QED
      BY <2>1, <3>3, <3>4, <3>5, <3>6, <3>7, <3>8 DEF JobStep, Look, Turn
  <2>2. ASSUME JobFree PROVE RestTypes'
    <3>1. ASSUME NEW l \in Lines, EditOthers(l) PROVE RestTypes'
      <4>1. file' \in Files
        BY <1>2, <3>1 DEF EditOthers, RestTypes, Files
      <4>. QED
        BY <1>2, <3>1, <4>1 DEF EditOthers, RestTypes, service, queue, page, Idle
    <3>2. CASE Switch \/ SwitchedBusy \/ TickStops \/ LeavePage
      BY <1>2, <3>2 DEF Switch, SwitchedBusy, TickStops, LeavePage, StopAutoSync, service,
         queue, page, history, RestTypes, Idle, TicksAt
    <3>. QED
      BY <2>2, <3>1, <3>2 DEF JobFree
  <2>3. ASSUME Restart PROVE RestTypes'
    BY <1>2, <2>3 DEF Restart, RestTypes
  <2>4. ASSUME UNCHANGED vars PROVE RestTypes'
    BY <1>2, <2>4 DEF vars, service, queue, page, history, RestTypes, Idle
  <2>. QED
    BY <2>1, <2>2, <2>3, <2>4, Cases
<1>. QED
  BY <1>1, <1>3 DEF TypeOK, RestTypes, LineTypes, Waits

----------------------------------------------------------------------------
(* The prompt                                                              *)

(* After a write, or a look that found nothing to write, nobody is asked.  *)
LEMMA NobodyAsked ==
  ASSUME LineTypes, LineInv, NEW j \in Jobs, Unchanged(j) \/ Answer(j)
  PROVE  ~Prompting'
<1>1. Waits(j) /\ j = Head(line) /\ Changes(j, Free) /\ LeaveLine
  BY DEF Unchanged, Answer, Approve, Refuse, Ends, Changes, Waits, LineInv
<1>. QED
  BY <1>1, LeavesLine DEF Prompting

(* The steps that neither write nor ask.                                   *)
Quiet(j) ==
  Tick(j) \/ Look(j) \/ SyncNow(j) \/ RemoveEntries(j) \/ SwitchedOn(j) \/ SwitchedOff(j)

LEMMA QuietStep ==
  ASSUME LineTypes, NEW j \in Jobs, Quiet(j)
  PROVE  /\ UNCHANGED <<file, staged, touched>>
         /\ job[j].at # "prompt" /\ job'[j].at # "prompt"
<1>. USE DEF LineTypes, history, Free
<1>1. CASE Tick(j)
  BY <1>1 DEF Tick, Idle
<1>2. CASE NothingMoved(j) \/ CollectFails(j)
  BY <1>2 DEF NothingMoved, CollectFails, Ends
<1>3. CASE Collected(j)
  BY <1>3 DEF Collected, Calls
<1>4. CASE SyncNow(j) \/ SwitchedOn(j)
  BY <1>4 DEF SyncNow, SwitchedOn, Sync, Idle
<1>5. CASE RemoveEntries(j) \/ SwitchedOff(j)
  BY <1>5 DEF RemoveEntries, SwitchedOff, Clear, Idle
<1>. QED
  BY <1>1, <1>2, <1>3, <1>4, <1>5 DEF Quiet, Look

LEMMA StagedStep ==
  ASSUME TypeOK, LineInv, StagedIsOwn, StagedInv, [Next]_vars
  PROVE  StagedIsOwn' /\ StagedInv'
<1>1. LineTypes
  BY DEF TypeOK, LineTypes, Waits
<1>. USE DEF StagedIsOwn, StagedInv, Prompting
<1>2. ASSUME NEW j \in Jobs, Unchanged(j) \/ Answer(j) PROVE StagedIsOwn' /\ StagedInv'
  BY <1>1, <1>2, NobodyAsked
<1>3. ASSUME NEW j \in Jobs, Prompt(j) PROVE StagedIsOwn' /\ StagedInv'
  <2>1. \A i \in Jobs: job[i].at # "prompt"
    BY <1>3 DEF Prompt, LineInv
  <2>2. /\ job'[j].entries = job[j].entries /\ job[j].entries \in Blocks
        /\ \A i \in Jobs \ {j}: job'[i] = job[i]
    BY <1>1, <1>3 DEF Prompt, LineTypes, Calls
  <2>3. /\ staged' \in Files /\ file' = file
        /\ staged'.block = job[j].entries /\ staged'.others = Decoded(file).others
    BY <1>3, <2>2, Reading DEF Prompt, TypeOK
  <2>4. staged' # None
    BY <2>3, HostsAssumption DEF Files, Blocks, Forms
  <2>. QED
    BY <2>1, <2>2, <2>3, <2>4
<1>4. ASSUME NEW j \in Jobs, Quiet(j) PROVE StagedIsOwn' /\ StagedInv'
  <2>1. \A i \in Jobs \ {j}: job'[i] = job[i]
    BY <1>1, <1>4, OthersStay DEF Quiet, JobStep
  <2>. QED
    BY <1>1, <1>4, <2>1, QuietStep
<1>5. CASE JobFree \/ UNCHANGED vars
  BY <1>5 DEF JobFree, EditOthers, Switch, SwitchedBusy, TickStops, LeavePage, service,
              queue, history, vars
<1>6. CASE Restart
  BY <1>6, FreeType DEF Restart
<1>. QED
  BY <1>2, <1>3, <1>4, <1>5, <1>6, Cases DEF JobStep, Quiet, Turn

(* Only the elevated copy and other programs write the file.               *)
LEMMA OnlyBlock ==
  ASSUME TypeOK, StagedIsOwn, StagedInv, [Next]_vars, NEW l \in Lines,
         file'.others[l] # file.others[l]
  PROVE  \/ touched \/ EditOthers(l)
         \/ file.others[l] = "bytes" /\ file'.others[l] = "text"
<1>1. ASSUME NEW j \in Jobs, JobStep(j), ~touched
      PROVE  file.others[l] = "bytes" /\ file'.others[l] = "text"
  <2>1. ~Quiet(j)
    BY QuietStep DEF TypeOK, LineTypes, Waits
  <2>2. ~Turn(j)
    BY DEF Turn, Unchanged, Prompt
  <2>3. Answer(j)
    BY <1>1, <2>1, <2>2 DEF JobStep, Quiet
  <2>4. file' = staged /\ Prompting
    BY <2>3 DEF Answer, Approve, Refuse, Prompting
  <2>5. file'.others[l] = Decoded(file).others[l]
    BY <1>1, <2>4 DEF StagedInv
  <2>6. Decoded(file).others[l] =
          IF file.others[l] = "bytes" THEN "text" ELSE file.others[l]
    BY Reading DEF TypeOK
  <2>. QED
    BY <2>5, <2>6
<1>2. ASSUME NEW k \in Lines, EditOthers(k) PROVE EditOthers(l)
  <2>1. file \in Files
    BY DEF TypeOK
  <2>2. k # l => file'.others[l] = file.others[l]
    BY <1>2, <2>1 DEF EditOthers, Files
  <2>. QED
    BY <1>2, <2>2
<1>3. JobFree => \E k \in Lines: EditOthers(k)
  BY DEF JobFree, Switch, SwitchedBusy, TickStops, LeavePage
<1>4. ~Restart /\ ~UNCHANGED vars
  BY DEF Restart, vars
<1>. QED
  BY <1>1, <1>2, <1>3, <1>4, Cases

----------------------------------------------------------------------------
(* What is remembered                                                      *)

LEMMA RefusedStep ==
  ASSUME RefusedInv, [Next]_vars
  PROVE  RefusedInv'
<1>. USE DEF RefusedInv, service, history
<1>1. ASSUME NEW j \in Jobs, JobStep(j) PROVE RefusedInv'
  <2>1. CASE Tick(j) \/ NothingMoved(j) \/ Collected(j) \/ Prompt(j)
    BY <2>1 DEF Tick, NothingMoved, Collected, Prompt
  <2>2. CASE CollectFails(j)
    BY <2>2 DEF CollectFails
  <2>3. CASE Unchanged(j)
    BY <2>3 DEF Unchanged, Remember
  <2>4. CASE Answer(j)
    BY <2>4 DEF Answer, Approve, Refuse, Remember
  <2>5. CASE SyncNow(j) \/ RemoveEntries(j) \/ SwitchedOn(j)
    BY <2>5 DEF SyncNow, RemoveEntries, SwitchedOn, Sync
  <2>6. CASE SwitchedOff(j)
    BY <2>6 DEF SwitchedOff, StopAutoSync
  <2>. QED
    BY <1>1, <2>1, <2>2, <2>3, <2>4, <2>5, <2>6 DEF JobStep, Look, Turn
<1>2. CASE JobFree \/ Restart \/ UNCHANGED vars
  BY <1>2 DEF JobFree, EditOthers, Switch, SwitchedBusy, TickStops, LeavePage, StopAutoSync,
              Restart, vars
<1>. QED
  BY <1>1, <1>2, Cases

(* A tick queues no block that is remembered, so none that was refused.    *)
LEMMA NotAskedAgain ==
  ASSUME TypeOK, LineInv, RefusedInv, [Next]_vars, NEW j \in Jobs,
         IsTick(j), job[j].at = "collecting", job'[j].at = "queued"
  PROVE  job'[j].entries # refused
<1>1. LineTypes
  BY DEF TypeOK, LineTypes, Waits
<1>2. JobStep(j)
  <2>1. ASSUME NEW i \in Jobs, JobStep(i) PROVE i = j
    BY <1>1, <2>1, OthersStay
  <2>2. ~JobFree /\ ~UNCHANGED vars
    BY DEF JobFree, EditOthers, Switch, SwitchedBusy, TickStops, LeavePage, queue, vars
  <2>3. ~Restart
    BY FreeType DEF Restart
  <2>. QED
    BY <2>1, <2>2, <2>3, Cases
<1>3. Collected(j)
  <2>1. ~Tick(j) /\ ~Turn(j) /\ ~Answer(j)
    BY DEF Tick, Idle, Turn, Unchanged, Prompt, Answer, Approve, Refuse
  <2>2. ~SyncNow(j) /\ ~RemoveEntries(j) /\ ~SwitchedOn(j) /\ ~SwitchedOff(j)
    BY DEF SyncNow, RemoveEntries, SwitchedOn, SwitchedOff, Sync, Clear, Idle
  <2>3. ~NothingMoved(j) /\ ~CollectFails(j)
    BY <1>1, FreeType DEF NothingMoved, CollectFails, Ends, LineTypes
  <2>. QED
    BY <1>2, <2>1, <2>2, <2>3 DEF JobStep, Look
<1>4. PICK es \in Blocks: /\ IsTick(j) => es # lastBlock
                          /\ job' = [job EXCEPT ![j].at = "queued", ![j].entries = es]
  BY <1>3 DEF Collected
<1>5. job'[j].entries = es
  BY <1>1, <1>4 DEF LineTypes, Calls
<1>6. es # None
  BY HostsAssumption DEF Blocks
<1>. QED
  BY <1>4, <1>5, <1>6 DEF RefusedInv

----------------------------------------------------------------------------
(* Switched off                                                            *)

(* When the first one leaves the line, whoever was behind somebody still   *)
(* is, ...                                                                 *)
LEMMA LineShrinks ==
  ASSUME LineTypes, LineInv, OffStaysOff, NEW j \in Jobs, UNCHANGED on,
         j = Head(line), Waits(j), Changes(j, Free), LeaveLine, late' = late \ {j}
  PROVE  OffStaysOff'
<1>1. line # <<>> /\ line \in Seq(Jobs)
  BY DEF LineTypes, InLine
<1>2. /\ Len(line') = Len(line) - 1 /\ Len(line) \in Nat /\ Len(line) > 0
      /\ \A n \in 1..Len(line'): line'[n] = line[n + 1]
      /\ DOMAIN line = 1..Len(line) /\ DOMAIN line' = 1..Len(line')
      /\ j = line[1]
  BY <1>1 DEF LeaveLine
<1>3. \A n \in DOMAIN line': /\ n + 1 \in DOMAIN line /\ line[n + 1] # j
                             /\ line[n + 1] \in Jobs
  BY <1>1, <1>2 DEF LineInv
<1>4. \A i \in Jobs \ {j}: job'[i] = job[i]
  BY DEF LineTypes, Changes
<1>5. ASSUME ~on, NEW m \in DOMAIN line', IsTick(line[m + 1])
      PROVE  \/ line'[m] \in late'
             \/ \E n \in DOMAIN line': n > m /\ job'[line'[n]].kind = "clear"
  <2>1. CASE line[m + 1] \in late
    BY <1>2, <1>3, <2>1
  <2>2. ASSUME NEW k \in DOMAIN line, k > m + 1, job[line[k]].kind = "clear"
        PROVE  \E n \in DOMAIN line': n > m /\ job'[line'[n]].kind = "clear"
    <3>1. k - 1 \in DOMAIN line' /\ k - 1 > m /\ line'[k - 1] = line[k]
      BY <1>2, <2>2
    <3>2. job'[line[k]] = job[line[k]]
      BY <1>3, <1>4, <3>1, <1>2
    <3>. QED
      BY <2>2, <3>1, <3>2
  <2>. QED
    BY <1>3, <1>5, <2>1, <2>2 DEF OffStaysOff
<1>. QED
  BY <1>2, <1>3, <1>4, <1>5 DEF OffStaysOff, IsTick

(* ... whoever comes in does so behind all the others, ...                 *)
LEMMA LineGrows ==
  ASSUME LineTypes, NEW j \in Jobs, ~Waits(j),
         \A i \in Jobs \ {j}: job'[i] = job[i], line' = Append(line, j)
  PROVE  /\ Len(line) \in Nat /\ DOMAIN line = 1..Len(line)
         /\ DOMAIN line' = 1..(Len(line) + 1) /\ line'[Len(line) + 1] = j
         /\ \A n \in DOMAIN line: /\ line'[n] = line[n] /\ line[n] \in Jobs /\ line[n] # j
                                  /\ job'[line[n]] = job[line[n]]
<1>1. /\ Len(line) \in Nat /\ DOMAIN line = 1..Len(line)
      /\ DOMAIN line' = 1..(Len(line) + 1) /\ line'[Len(line) + 1] = j
      /\ \A n \in DOMAIN line: line'[n] = line[n] /\ line[n] \in Jobs
  BY DEF LineTypes
<1>2. \A n \in DOMAIN line: line[n] # j
  BY DEF LineTypes, InLine
<1>. QED
  BY <1>1, <1>2

(* ... and a step may leave the line as it was.                            *)
LEMMA LineAsWas ==
  ASSUME LineTypes, OffStaysOff, UNCHANGED <<on, line>>,
         \A n \in DOMAIN line: job'[line[n]].kind = job[line[n]].kind,
         \A n \in DOMAIN line: line[n] \in late => line[n] \in late'
  PROVE  OffStaysOff'
BY DEF OffStaysOff, IsTick

(* A tick is collecting when the page acts on the switch, and so late, or  *)
(* it is in the line, and the clear goes behind it.                        *)
LEMMA OffStep ==
  ASSUME TypeOK, LineInv, LateInv, OffStaysOff, [Next]_vars
  PROVE  LateInv' /\ OffStaysOff'
<1>1. LineTypes
  BY DEF TypeOK, LineTypes, Waits
<1>2. ASSUME NEW j \in Jobs, JobStep(j) PROVE LateInv' /\ OffStaysOff'
  <2>1. \A i \in Jobs \ {j}: job'[i] = job[i]
    BY <1>1, <1>2, OthersStay
  <2>2. job[j] \in Calls
    BY <1>1 DEF LineTypes
  <2>3. ~Waits(j) => \A n \in DOMAIN line: line[n] # j
    BY <1>1 DEF LineTypes, InLine
  <2>4. \A n \in DOMAIN line: line[n] \in Jobs
    BY <1>1 DEF LineTypes
  <2>5. CASE Tick(j)
    BY <2>5 DEF Tick, service, LateInv, OffStaysOff
  <2>6. CASE NothingMoved(j) \/ CollectFails(j)
    <3>1. /\ UNCHANGED <<on, line>> /\ late' = late \ {j} /\ ~Waits(j)
          /\ job'[j].at = "idle"
      BY <1>1, <2>6, FreeType DEF NothingMoved, CollectFails, Ends, Waits, LineTypes
    <3>2. LateInv'
      BY <2>1, <3>1 DEF LateInv, IsTick
    <3>. QED
      BY <1>1, <2>1, <2>3, <2>4, <3>1, <3>2, LineAsWas
  <2>7. CASE Collected(j)
    <3>1. /\ UNCHANGED <<on, late>> /\ line' = Append(line, j) /\ ~Waits(j)
          /\ job[j].at = "collecting"
      BY <2>7 DEF Collected, service, page, Waits
    <3>2. job'[j].at = "queued" /\ job'[j].kind = job[j].kind
      BY <1>1, <2>2, <2>7 DEF Collected, LineTypes, Calls
    <3>3. LateInv'
      BY <2>1, <3>1, <3>2 DEF LateInv, IsTick
    <3>4. /\ Len(line) \in Nat /\ DOMAIN line = 1..Len(line)
          /\ DOMAIN line' = 1..(Len(line) + 1) /\ line'[Len(line) + 1] = j
          /\ \A n \in DOMAIN line: /\ line'[n] = line[n] /\ line[n] \in Jobs
                                   /\ job'[line[n]] = job[line[n]]
      BY <1>1, <2>1, <3>1, LineGrows
    <3>5. ~on /\ IsTick(j) => j \in late'
      BY <3>1 DEF LateInv
    <3>6. ASSUME ~on, NEW m \in DOMAIN line', job'[line'[m]].kind = "tick"
          PROVE  \/ line'[m] \in late'
                 \/ \E n \in DOMAIN line': n > m /\ job'[line'[n]].kind = "clear"
      <4>1. CASE m = Len(line) + 1
        BY <3>2, <3>4, <3>5, <3>6, <4>1 DEF IsTick
      <4>2. CASE m \in DOMAIN line
        <5>1. \/ line[m] \in late
              \/ \E n \in DOMAIN line: n > m /\ job[line[n]].kind = "clear"
          BY <3>4, <3>6, <4>2 DEF OffStaysOff, IsTick
        <5>. QED
          BY <3>1, <3>4, <4>2, <5>1
      <4>. QED
        BY <3>4, <4>1, <4>2
    <3>. QED
      BY <3>1, <3>3, <3>6 DEF OffStaysOff, IsTick
  <2>8. CASE Unchanged(j) \/ Answer(j)
    <3>1. /\ Waits(j) /\ j = Head(line) /\ Changes(j, Free) /\ LeaveLine
          /\ UNCHANGED on /\ late' = late \ {j}
      BY <2>8 DEF Unchanged, Answer, Approve, Refuse, Ends, Changes, Waits, LineInv
    <3>2. job'[j].at = "idle"
      BY <1>1, <3>1, FreeType DEF LineTypes, Changes
    <3>3. LateInv'
      BY <2>1, <3>1, <3>2 DEF LateInv, IsTick
    <3>. QED
      BY <1>1, <3>1, <3>3, LineShrinks
  <2>9. CASE Prompt(j)
    <3>1. /\ UNCHANGED <<on, line, late>> /\ job'[j].at = "prompt"
          /\ job'[j].kind = job[j].kind
      BY <1>1, <2>2, <2>9 DEF Prompt, service, page, LineTypes, Calls
    <3>2. LateInv'
      BY <2>1, <3>1 DEF LateInv, IsTick
    <3>. QED
      BY <1>1, <2>1, <2>4, <3>1, <3>2, LineAsWas
  <2>10. CASE SyncNow(j) \/ SwitchedOn(j)
    <3>1. /\ UNCHANGED <<on, line, late>> /\ ~Waits(j) /\ job'[j].kind = "sync"
      BY <1>1, <2>10 DEF SyncNow, SwitchedOn, Sync, service, Idle, Waits, LineTypes
    <3>2. LateInv'
      BY <2>1, <3>1 DEF LateInv, IsTick
    <3>. QED
      BY <1>1, <2>1, <2>3, <2>4, <3>1, <3>2, LineAsWas
  <2>11. CASE RemoveEntries(j) \/ SwitchedOff(j)
    <3>1. /\ Clear(j) /\ UNCHANGED on /\ line' = Append(line, j) /\ ~Waits(j)
          /\ job'[j].at = "queued" /\ job'[j].kind = "clear"
          /\ RemoveEntries(j) => UNCHANGED late
          /\ SwitchedOff(j) => late' = TicksAt({"collecting"})
      BY <1>1, <2>11
         DEF RemoveEntries, SwitchedOff, Clear, service, Idle, Waits, LineTypes, Free
    <3>2. LateInv'
      BY <2>1, <2>11, <3>1 DEF LateInv, IsTick, TicksAt
    <3>3. /\ Len(line) \in Nat /\ DOMAIN line = 1..Len(line)
          /\ DOMAIN line' = 1..(Len(line) + 1) /\ line'[Len(line) + 1] = j
      BY <1>1, <2>1, <3>1, LineGrows
    <3>4. ASSUME NEW m \in DOMAIN line', job'[line'[m]].kind = "tick"
          PROVE  \E n \in DOMAIN line': n > m /\ job'[line'[n]].kind = "clear"
      <4>1. m # Len(line) + 1
        BY <3>1, <3>3, <3>4
      <4>2. Len(line) + 1 \in DOMAIN line' /\ Len(line) + 1 > m
        BY <3>3, <4>1
      <4>. QED
        BY <3>1, <3>3, <4>2
    <3>. QED
      BY <3>2, <3>4 DEF OffStaysOff, IsTick
  <2>. QED
    BY <1>2, <2>5, <2>6, <2>7, <2>8, <2>9, <2>10, <2>11 DEF JobStep, Look, Turn
<1>3. CASE Switch
  <2>1. UNCHANGED <<job, line>> /\ (~on' => late' = TicksAt(Stages \ {"idle"}))
    BY <1>3 DEF Switch, queue, TypeOK
  <2>2. \A j \in Jobs: IsTick(j) /\ job[j].at # "idle" => j \in TicksAt(Stages \ {"idle"})
    BY <1>1 DEF TicksAt, LineTypes, Calls
  <2>3. \A n \in DOMAIN line: line[n] \in Jobs /\ job[line[n]].at # "idle"
    BY <1>1 DEF LineTypes, InLine, Waits
  <2>. QED
    BY <2>1, <2>2, <2>3 DEF LateInv, OffStaysOff, IsTick
<1>4. CASE \/ \E l \in Lines: EditOthers(l)
           \/ SwitchedBusy \/ TickStops \/ LeavePage \/ UNCHANGED vars
  <2>1. UNCHANGED <<on, job, line, late>>
    BY <1>4 DEF EditOthers, SwitchedBusy, TickStops, LeavePage, service, queue, page, vars
  <2>. QED
    BY <2>1 DEF LateInv, OffStaysOff, IsTick
<1>5. CASE Restart
  <2>1. line' = <<>> /\ DOMAIN line' = {} /\ \A j \in Jobs: job'[j].at = "idle"
    BY <1>5, FreeType DEF Restart
  <2>. QED
    BY <2>1 DEF LateInv, OffStaysOff
<1>. QED
  BY <1>2, <1>3, <1>4, <1>5, Cases DEF JobFree

----------------------------------------------------------------------------
(* The theorems                                                            *)

LEMMA Inductive ==
  /\ Init => IInv
  /\ IInv /\ [Next]_vars => IInv'
<1>1. ASSUME Init PROVE IInv
  <2>1. /\ line = <<>> /\ DOMAIN line = {} /\ line \in Seq(Jobs)
        /\ job = [j \in Jobs |-> Free]
    BY <1>1 DEF Init
  <2>2. TypeOK
    BY <1>1, <2>1, FreeType DEF Init, TypeOK, InLine
  <2>3. LineInv /\ StagedIsOwn /\ StagedInv
    BY <2>1, FreeType DEF LineInv, StagedIsOwn, StagedInv, Prompting
  <2>. QED
    BY <1>1, <2>1, <2>2, <2>3, FreeType DEF Init, IInv, RefusedInv, LateInv, OffStaysOff
<1>2. ASSUME IInv, [Next]_vars PROVE IInv'
  BY <1>2, TypeStep, LineStep, StagedStep, RefusedStep, OffStep DEF IInv
<1>. QED
  BY <1>1, <1>2

LEMMA Always == Spec => []IInv
BY Inductive, PTL DEF Spec

(* The types; a job is in the line of the writes exactly while it has to   *)
(* write (hosts_file_service.dart:321-330).                                *)
THEOREM TypeCorrect == Spec => []TypeOK
<1>. IInv => TypeOK
  BY DEF IInv
<1>. QED
  BY Always, PTL

(* However many ticks, syncs and clears are out: the file the user is asked*)
(* about is the one staged for the job that asks                           *)
(* (hosts_file_service.dart:318-320).                                      *)
THEOREM OneStaged == Spec => []StagedIsOwn
<1>. IInv => StagedIsOwn
  BY DEF IInv
<1>. QED
  BY Always, PTL

(* Of the lines of somebody else a write changes those only that its       *)
(* reading decoded, unless the file was edited while the prompt was open   *)
(* (hosts_file_service.dart:67-69).                                        *)
THEOREM BlockOnly == Spec => OthersKept
<1>1. IInv /\ [Next]_vars =>
        [\A l \in Lines:
           file'.others[l] # file.others[l] =>
             \/ touched \/ EditOthers(l)
             \/ file.others[l] = "bytes" /\ file'.others[l] = "text"]_vars
  BY OnlyBlock DEF IInv
<1>. QED
  BY <1>1, Always, PTL DEF Spec, OthersKept

(* A block whose prompt was refused is not asked for again by the ticks    *)
(* that find it again (hosts_file_service.dart:488-490).                   *)
THEOREM AskedOnce == Spec => RefusedIsRemembered
<1>. DEFINE Asked ==
       \A j \in Jobs: IsTick(j) /\ job[j].at = "collecting" /\ job'[j].at = "queued"
                        => job'[j].entries # refused
<1>1. IInv /\ [Next]_vars => [Asked]_vars
  BY NotAskedAgain DEF IInv
<1>. QED
  BY <1>1, Always, PTL DEF Spec, RefusedIsRemembered

(* While the switch is off, a tick that still has to write has a clear     *)
(* behind it, unless it was collecting when the page acted on the switch,  *)
(* or the page never did (hosts_settings_section.dart:85).                 *)
THEOREM OffIsOff == Spec => []OffStaysOff
<1>. IInv => OffStaysOff
  BY DEF IInv
<1>. QED
  BY Always, PTL
=============================================================================
