------------------------------ MODULE HostsSync ------------------------------
(***************************************************************************)
(* The block of instance names in the host's hosts file:                   *)
(* lib/api/hosts_file_service.dart (collect, apply, sync, clear, the timer *)
(* and its ticks) and the section of the settings page that drives the     *)
(* same object (lib/components/hosts_settings_section.dart).               *)
(*                                                                         *)
(* A tick starts every 20 s, however long the ones before it take: asking  *)
(* an instance may take 20 s, the prompt for elevation as long as the user *)
(* takes.  An entry is the instance it belongs to, and any instances may   *)
(* run and answer at any time.  Left out: layout (line endings, blank      *)
(* lines), the suffix, remote hosts, a prompt that outlives the            *)
(* application, and a second press of the switch before the first is       *)
(* stored.                                                                 *)
(***************************************************************************)
EXTENDS Naturals, Sequences

CONSTANTS
  Instances,
  Lines,  \* of the hosts file, that somebody else owns
  Jobs,   \* ticks, syncs and clears that may be out at the same time (a bound)
  None

ASSUME HostsAssumption ==
  /\ None \notin Jobs
  /\ \A es \in SUBSET Instances:
       /\ es # None
       /\ \A fs \in [Lines -> {"none", "text", "bytes"}]:
            [block |-> es, others |-> fs] # None

VARIABLES
  file,       \* the hosts file: the entries of the block, and the other lines
  on,         \* the stored switch
  timer,      \* _timer is set
  lastBlock,  \* _lastBlock: the entries of the last tick, or None
  job,        \* [Jobs -> the calls that are out]
  line,       \* the chain of _writes, a sequence of jobs
  staged,     \* wslm_hosts.txt, or None
  busy,       \* the job the buttons of the settings page wait for, or None
  storing,    \* the page awaits the storing of the switch
  late,       \* history: the ticks that are out and that switching off missed
  touched,    \* history: other lines were edited while the prompt is open
  refused     \* history: the block of the last tick, if its prompt was refused

service == <<on, timer, lastBlock>>
queue == <<job, line, staged>>
page == <<busy, storing, late>>
history == <<touched, refused>>
vars == <<file, service, queue, page, history>>

Blocks == SUBSET Instances

(* What a foreign line holds: text in UTF-8, or bytes of an old code page. *)
Forms == {"none", "text", "bytes"}
Files == [block: Blocks, others: [Lines -> Forms]]

(* collecting: listing and asking the instances; queued: awaits the writes *)
(* before it; prompt: the elevated copy.                                   *)
Stages == {"idle", "collecting", "queued", "prompt"}
Kinds == {"tick", "sync", "clear"}

(* starts: switching on, which starts the timer after the sync.            *)
Calls == [at: Stages, kind: Kinds, entries: Blocks, starts: BOOLEAN]
Free == [at |-> "idle", kind |-> "tick", entries |-> {}, starts |-> FALSE]

Idle(j) == job[j].at = "idle"
InLine(j) == \E i \in DOMAIN line: line[i] = j
IsTick(j) == job[j].kind = "tick"
TicksAt(stages) == {j \in Jobs: IsTick(j) /\ job[j].at \in stages}

(* A job is in the line while it has to write, and what the page waits for *)
(* is out.                                                                 *)
TypeOK ==
  /\ file \in Files
  /\ on \in BOOLEAN /\ timer \in BOOLEAN
  /\ lastBlock \in Blocks \cup {None}
  /\ job \in [Jobs -> Calls]
  /\ line \in Seq(Jobs)
  /\ \A j \in Jobs: InLine(j) <=> job[j].at \in {"queued", "prompt"}
  /\ staged \in Files \cup {None}
  /\ busy \in Jobs \cup {None} /\ (busy # None => ~Idle(busy))
  /\ storing \in BOOLEAN /\ touched \in BOOLEAN
  /\ late \subseteq Jobs
  /\ refused \in Blocks \cup {None}

(* main() calls startAutoSync().                                           *)
Init ==
  /\ file \in Files
  /\ on \in BOOLEAN /\ timer = on
  /\ lastBlock = None
  /\ job = [j \in Jobs |-> Free]
  /\ line = <<>>
  /\ staged = None
  /\ busy = None /\ storing = FALSE
  /\ late = {}
  /\ touched = FALSE
  /\ refused = None

----------------------------------------------------------------------------
Prompting == \E j \in Jobs: job[j].at = "prompt"

EditOthers(l) ==
  /\ \E x \in Forms \ {file.others[l]}: file' = [file EXCEPT !.others[l] = x]
  /\ touched' = (touched \/ Prompting)
  /\ UNCHANGED <<service, queue, page, refused>>

----------------------------------------------------------------------------
(* The end of a job: its future completes, and whoever awaits it goes on   *)

Ends(j) ==
  /\ job' = [job EXCEPT ![j] = Free]
  /\ busy' = IF busy = j THEN None ELSE busy
  /\ timer' = (timer \/ (job[j].starts /\ on))
  /\ late' = late \ {j}
  /\ UNCHANGED <<on, storing>>

(* done.complete(), in a finally: the one that ends has waited for all     *)
(* before it.                                                              *)
LeaveLine == line' = Tail(line)

(* A tick remembers its block, written or refused.                         *)
Remember(j, r) ==
  IF IsTick(j) THEN lastBlock' = job[j].entries /\ refused' = r
               ELSE UNCHANGED <<lastBlock, refused>>

----------------------------------------------------------------------------
(* Collecting                                                              *)

Tick(j) ==
  /\ timer /\ on /\ Idle(j)
  /\ job' = [job EXCEPT ![j] = [Free EXCEPT !.at = "collecting"]]
  /\ UNCHANGED <<file, service, line, staged, page, history>>

StopAutoSync == timer' = FALSE /\ lastBlock' = None /\ refused' = None

TickStops ==
  /\ timer /\ ~on
  /\ StopAutoSync
  /\ UNCHANGED <<file, on, queue, page, touched>>

(* Those that answered make the same block as at the last tick: not even   *)
(* the file is read.                                                       *)
NothingMoved(j) ==
  /\ job[j].at = "collecting" /\ IsTick(j)
  /\ lastBlock # None
  /\ Ends(j)
  /\ UNCHANGED <<file, lastBlock, line, staged, history>>

Collected(j) ==
  /\ job[j].at = "collecting"
  /\ \E es \in Blocks:
       /\ IsTick(j) => es # lastBlock
       /\ job' = [job EXCEPT ![j].at = "queued", ![j].entries = es]
  /\ line' = Append(line, j)
  /\ UNCHANGED <<file, service, staged, page, history>>

(* listRunning() throws: a tick's block is the empty string.               *)
CollectFails(j) ==
  /\ job[j].at = "collecting"
  /\ Ends(j)
  /\ IF IsTick(j) THEN lastBlock' = None /\ refused' = None
                  ELSE UNCHANGED <<lastBlock, refused>>
  /\ UNCHANGED <<file, line, staged, touched>>

----------------------------------------------------------------------------
(* Writing                                                                 *)

(* readHostsFile(): each byte that is not UTF-8 becomes U+FFFD, and is text *)
(* from then on.                                                           *)
Decoded(f) ==
  [f EXCEPT !.others =
     [l \in Lines |-> IF f.others[l] = "bytes" THEN "text" ELSE f.others[l]]]

(* Mutants: everything behind the opening line of the block goes with it.  *)
ApplyBlockDrops(f, es) == [block |-> es, others |-> [l \in Lines |-> "none"]]
(* applyBlock()                                                            *)
ApplyBlock(f, es) == [f EXCEPT !.block = es]

(* _apply(), when the writes before it are over: nothing to write, ...     *)
Unchanged(j) ==
  /\ job[j].at = "queued" /\ j = Head(line)
  /\ ApplyBlock(Decoded(file), job[j].entries) = Decoded(file)
  /\ LeaveLine /\ Ends(j) /\ Remember(j, None)
  /\ UNCHANGED <<file, staged, touched>>

(* Mutants: apply() does not wait.                                         *)
PromptAtOnce(j) ==
  /\ job[j].at = "queued"
  /\ ApplyBlock(Decoded(file), job[j].entries) # Decoded(file)
  /\ staged' = ApplyBlock(Decoded(file), job[j].entries)
  /\ job' = [job EXCEPT ![j].at = "prompt"]
  /\ touched' = FALSE
  /\ UNCHANGED <<file, service, line, page, refused>>
(* ... or the whole file, as it was read, is staged and the user is asked. *)
Prompt(j) ==
  /\ job[j].at = "queued" /\ j = Head(line)
  /\ ApplyBlock(Decoded(file), job[j].entries) # Decoded(file)
  /\ staged' = ApplyBlock(Decoded(file), job[j].entries)
  /\ job' = [job EXCEPT ![j].at = "prompt"]
  /\ touched' = FALSE
  /\ UNCHANGED <<file, service, line, page, refused>>

(* The elevated copy; read back or not, the job ends.                      *)
Approve(j) ==
  /\ job[j].at = "prompt"
  /\ file' = IF staged = None THEN file ELSE staged
  /\ staged' = None
  /\ LeaveLine /\ Ends(j) /\ Remember(j, None)
  /\ touched' = FALSE

(* Mutants: only a block that was written is remembered; the chain is not  *)
(* released.                                                               *)
RefuseForgets(j) ==
  /\ job[j].at = "prompt"
  /\ staged' = None
  /\ LeaveLine /\ Ends(j)
  /\ refused' = IF IsTick(j) THEN job[j].entries ELSE refused
  /\ touched' = FALSE
  /\ UNCHANGED <<file, lastBlock>>
RefuseHolds(j) ==
  /\ job[j].at = "prompt"
  /\ staged' = None
  /\ Ends(j) /\ Remember(j, job[j].entries)
  /\ touched' = FALSE
  /\ UNCHANGED <<file, line>>
(* The prompt is declined, times out, or the copy fails; or the copy was   *)
(* done and a later step of the elevated script failed.                    *)
Refuse(j) ==
  /\ job[j].at = "prompt"
  /\ staged' = None
  /\ file' \in {file} \cup ({staged} \ {None})
  /\ LeaveLine /\ Ends(j) /\ Remember(j, job[j].entries)
  /\ touched' = FALSE

Look(j) == NothingMoved(j) \/ Collected(j) \/ CollectFails(j)
Turn(j) == Unchanged(j) \/ Prompt(j)
Answer(j) == Approve(j) \/ Refuse(j)

----------------------------------------------------------------------------
(* The settings page                                                       *)

(* What was started goes on; the page entered again does not know of it.   *)
(* A switch that is being stored is stored, and not acted on.              *)
LeavePage ==
  /\ busy # None \/ storing
  /\ busy' = None /\ storing' = FALSE
  /\ UNCHANGED <<file, service, queue, late, history>>

(* _run(sync), _run(clear)                                                 *)
Sync(j, starts) ==
  /\ busy = None /\ Idle(j)
  /\ job' = [job EXCEPT ![j] = [at |-> "collecting", kind |-> "sync",
                                entries |-> {}, starts |-> starts]]
  /\ busy' = j
  /\ UNCHANGED <<file, service, line, staged, late, history>>

(* Mutants: the clear does not wait for the writes before it.              *)
ClearFirst(j) ==
  /\ busy = None /\ Idle(j)
  /\ job' = [job EXCEPT ![j] = [Free EXCEPT !.at = "queued", !.kind = "clear"]]
  /\ line' = <<j>> \o line
  /\ busy' = j
  /\ UNCHANGED <<file, staged, touched>>
Clear(j) ==
  /\ busy = None /\ Idle(j)
  /\ job' = [job EXCEPT ![j] = [Free EXCEPT !.at = "queued", !.kind = "clear"]]
  /\ line' = Append(line, j)
  /\ busy' = j
  /\ UNCHANGED <<file, staged, touched>>

SyncNow(j) == Sync(j, FALSE) /\ UNCHANGED storing
RemoveEntries(j) == Clear(j) /\ UNCHANGED <<service, storing, late, refused>>

(* The switch: the other buttons stay enabled until it is stored.          *)
Switch ==
  /\ busy = None /\ ~storing
  /\ on' = ~on /\ storing' = TRUE
  /\ late' = IF on THEN TicksAt(Stages \ {"idle"}) ELSE {}
  /\ UNCHANGED <<file, timer, lastBlock, queue, busy, history>>

SwitchedOn(j) ==
  /\ storing /\ on
  /\ storing' = FALSE
  /\ Sync(j, TRUE)

SwitchedOff(j) ==
  /\ storing /\ ~on
  /\ storing' = FALSE
  /\ StopAutoSync /\ UNCHANGED on
  /\ Clear(j)
  /\ late' = TicksAt({"collecting"})

(* A button was pressed meanwhile: _run() does nothing.                    *)
SwitchedBusy ==
  /\ storing /\ busy # None
  /\ storing' = FALSE
  /\ IF on THEN timer' = TRUE /\ UNCHANGED <<lastBlock, refused>>
           ELSE StopAutoSync
  /\ UNCHANGED <<file, on, queue, busy, late, touched>>

----------------------------------------------------------------------------
(* The application ends, with no prompt open, and is started again.        *)
Restart ==
  /\ ~Prompting
  /\ on' \in IF storing THEN BOOLEAN ELSE {on}
  /\ timer' = on' /\ lastBlock' = None /\ refused' = None
  /\ job' = [j \in Jobs |-> Free]
  /\ line' = <<>>
  /\ busy' = None /\ storing' = FALSE /\ late' = {}
  /\ UNCHANGED <<file, staged, touched>>

Next ==
  \/ \E l \in Lines: EditOthers(l)
  \/ \E j \in Jobs:
       \/ Tick(j) \/ Look(j) \/ Turn(j) \/ Answer(j)
       \/ SyncNow(j) \/ RemoveEntries(j) \/ SwitchedOn(j) \/ SwitchedOff(j)
  \/ Switch \/ SwitchedBusy \/ TickStops \/ LeavePage \/ Restart

Spec == Init /\ [][Next]_vars

(* Asking has a timer, the chain moves on by itself, and a prompt is       *)
(* answered or times out.                                                  *)
Fairness ==
  \A j \in Jobs: WF_vars(Look(j)) /\ WF_vars(Turn(j)) /\ WF_vars(Answer(j))

LiveSpec == Spec /\ Fairness

----------------------------------------------------------------------------
(* Properties                                                              *)

(* While the user is asked, the staged file is what the job that asks has  *)
(* made of the file: no other write has replaced or deleted it             *)
(* (hosts_file_service.dart:318-320).                                      *)
StagedIsOwn ==
  \A j \in Jobs: job[j].at = "prompt" =>
    staged # None /\ staged.block = job[j].entries

(* Of the lines that are not the application's, a write changes only those *)
(* that the reading has changed before it: one in an old code page is      *)
(* decoded, for good.  Every other one is kept as it was, unless somebody  *)
(* else wrote the file while the prompt was open                           *)
(* (hosts_file_service.dart:67-69).                                        *)
OthersKept ==
  [][\A l \in Lines:
       file'.others[l] # file.others[l] =>
         \/ touched \/ EditOthers(l)
         \/ file.others[l] = "bytes" /\ file'.others[l] = "text"]_vars

(* One write that fails lets those behind it go on                         *)
(* (hosts_file_service.dart:325-330).                                      *)
WritesGoOn == \A j \in Jobs: job[j].at = "queued" ~> job[j].at # "queued"

(* A tick that finds the block whose prompt was refused, with no tick for  *)
(* another block ended since, does not queue another write of it           *)
(* (hosts_file_service.dart:488-490).                                      *)
RefusedIsRemembered ==
  [][\A j \in Jobs:
       IsTick(j) /\ job[j].at = "collecting" /\ job'[j].at = "queued"
         => job'[j].entries # refused]_vars

(* Switching off takes the block out for good: while the switch is off,    *)
(* every tick that still has to write has a clear behind it in the line,   *)
(* but for those that were collecting when the page acted on the switch,   *)
(* and all that were out if it never did (hosts_settings_section.dart:85). *)
OffStaysOff ==
  ~on => \A m \in DOMAIN line: IsTick(line[m]) =>
           \/ line[m] \in late
           \/ \E n \in DOMAIN line: n > m /\ job[line[n]].kind = "clear"
=============================================================================
