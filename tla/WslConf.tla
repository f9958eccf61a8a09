------------------------------- MODULE WslConf -------------------------------
(***************************************************************************)
(* /etc/wsl.conf of one instance, edited key by key: lib/api/wsl.dart      *)
(* (updateWSLConf, removeSetting, _serialiseConfigWrite), and its users:   *)
(* the settings dialog with its draft (lib/dialogs/settings_dialog.dart)   *)
(* and the MCP tool wsl_set_wsl_conf.                                      *)
(*                                                                         *)
(* Every edit reads the whole file, changes its key and writes the file    *)
(* back.  The chain of promises per file is kept the way it is built: a    *)
(* cycle waits for the tail it found.  Nobody else writes the file         *)
(* meanwhile.  Left out: sections and layout, the second route of          *)
(* [user] default, the preferences that mirror the values.                 *)
(***************************************************************************)
EXTENDS Naturals, FiniteSets

CONSTANTS
  Keys, Values,
  Unset,     \* the file has no line for the key
  NoEdit,    \* the draft has no entry for the key
  Calls,     \* edits that may be out at the same time (a bound)
  Presses,   \* presses of Save whose flush may be running at the same time
  MaxEdits,  \* bound: edits in all
  None

Settings == Values \cup {Unset}

ASSUME ConfAssumption ==
  /\ MaxEdits \in Nat
  /\ None \notin Calls
  /\ Keys # {}
  /\ Unset \notin Values
  /\ NoEdit \notin Settings
  /\ None \notin [key: Keys, to: Settings, turn: 0..MaxEdits, over: BOOLEAN]

VARIABLES
  text,    \* [Keys -> Settings]: the file
  edit,    \* [Calls -> Edits]: the read-modify-write cycles
  tail,    \* _configWriteQueue[file]: the last cycle of the chain, or None
  count,   \* edits asked for so far
  dialog,  \* the settings dialog and its draft
  flush,   \* [Presses -> None or a flush of the draft]
  unsaved  \* history: the keys of the draft edited while no flush was running,
           \* and not handed over by one since

conf == <<text, edit, tail, count>>
vars == <<conf, dialog, flush, unsaved>>

(* waits: for the cycle before it; read, write: in wsl.exe; answers: the   *)
(* result waits for whoever asked.                                         *)
Stages == {"idle", "waits", "read", "write", "answers"}
Edits == [at: Stages, key: Keys, to: Settings, turn: 0..MaxEdits,
          after: Calls \cup {None}, copy: [Keys -> Settings]]

Drafts == [Keys -> Settings \cup {NoEdit}]
NoDraft == [k \in Keys |-> NoEdit]
Empty == [k \in Keys |-> Unset]
Free == [at |-> "idle", key |-> CHOOSE k \in Keys: TRUE, to |-> Unset, turn |-> 0,
         after |-> None, copy |-> Empty]

(* left: the entries not written yet; call: the edit that is awaited;      *)
(* stale: the map changed under the iteration.  A flush whose dialog was   *)
(* left with Escape goes on with that draft: own, what is left of it;      *)
(* mates, the presses it shares it with.                                   *)
Flushes == [left: SUBSET Keys, call: Calls \cup {None}, stale: BOOLEAN,
            own: Drafts, mates: SUBSET Presses]

Idle(c) == edit[c].at = "idle"
Live(c) == edit[c].at \in {"waits", "read", "write"}

(* By a flush; the others are the tool's.                                  *)
Awaited(c) == \E p \in Presses: flush[p] # None /\ flush[p].call = c

TypeOK ==
  /\ text \in [Keys -> Settings]
  /\ edit \in [Calls -> Edits]
  /\ tail \in Calls \cup {None} /\ (tail # None => Live(tail))
  /\ count \in 0..MaxEdits
  /\ dialog \in [open: BOOLEAN, draft: Drafts]
  /\ flush \in [Presses -> {None} \cup Flushes]
  /\ unsaved \subseteq Keys

Init ==
  /\ text \in [Keys -> Settings]
  /\ edit = [c \in Calls |-> Free]
  /\ tail = None
  /\ count = 0
  /\ dialog = [open |-> FALSE, draft |-> NoDraft]
  /\ flush = [p \in Presses |-> None]
  /\ unsaved = {}

----------------------------------------------------------------------------
(* The queue                                                               *)

(* Mutants: a cycle waits for nobody.                                      *)
SubmitAtOnce(c, k, v) ==
  /\ Idle(c)
  /\ count < MaxEdits
  /\ count' = count + 1
  /\ edit' = [edit EXCEPT ![c] = [at |-> "waits", key |-> k, to |-> v,
                                  turn |-> count + 1, after |-> None,
                                  copy |-> Empty]]
  /\ tail' = c
  /\ UNCHANGED text

(* _serialiseConfigWrite(): previous.then(action), and the new tail.       *)
Submit(c, k, v) ==
  /\ Idle(c)
  /\ count < MaxEdits
  /\ count' = count + 1
  /\ edit' = [edit EXCEPT ![c] = [at |-> "waits", key |-> k, to |-> v,
                                  turn |-> count + 1, after |-> tail,
                                  copy |-> Empty]]
  /\ tail' = c
  /\ UNCHANGED text

(* Mutants: the next cycle fails with this one.                            *)
DonePoisons(c) ==
  /\ edit' = [d \in Calls |->
                IF d = c THEN [edit[d] EXCEPT !.at = "answers", !.copy = Empty]
                ELSE IF edit[d].after = c
                     THEN [edit[d] EXCEPT !.after = None, !.at = "answers"]
                ELSE edit[d]]
  /\ tail' = IF tail = c THEN None ELSE tail

(* The cycle has its result, whatever it is: the next one starts, and the  *)
(* entry goes if nobody queued behind it.                                  *)
Done(c) ==
  /\ edit' = [d \in Calls |->
                IF d = c THEN [edit[d] EXCEPT !.at = "answers", !.copy = Empty]
                ELSE IF edit[d].after = c THEN [edit[d] EXCEPT !.after = None]
                ELSE edit[d]]
  /\ tail' = IF tail = c THEN None ELSE tail

Begin(c) ==
  /\ edit[c].at = "waits" /\ edit[c].after = None
  /\ edit' = [edit EXCEPT ![c].at = "read"]
  /\ UNCHANGED <<text, tail, count>>

(* readWSLConf(); removeSetting(), the dialog's, does not write the file   *)
(* for a key that is not there, updateWSLConf() does.                      *)
ReadFile(c) ==
  /\ edit[c].at = "read"
  /\ Awaited(c) => edit[c].to # Unset \/ text[edit[c].key] # Unset
  /\ edit' = [edit EXCEPT ![c].at = "write", ![c].copy = text]
  /\ UNCHANGED <<text, tail, count>>

NothingToRemove(c) ==
  /\ edit[c].at = "read" /\ Awaited(c)
  /\ edit[c].to = Unset /\ text[edit[c].key] = Unset
  /\ Done(c)
  /\ UNCHANGED <<text, count>>

(* Not reached, or killed by the timer; a write may fail after its work.   *)
Fails(c) ==
  /\ edit[c].at \in {"read", "write"}
  /\ Done(c)
  /\ UNCHANGED <<text, count>>

WriteFile(c) ==
  /\ edit[c].at = "write"
  /\ text' = [edit[c].copy EXCEPT ![edit[c].key] = edit[c].to]
  /\ Done(c)
  /\ UNCHANGED count

(* `base64 -d > file`: the file was opened, and nothing more.              *)
WriteTorn(c) ==
  /\ edit[c].at = "write"
  /\ text' = Empty
  /\ Done(c)
  /\ UNCHANGED count

Cycle(c) ==
  /\ Begin(c) \/ ReadFile(c) \/ NothingToRemove(c) \/ Fails(c) \/ WriteFile(c)
       \/ WriteTorn(c)
  /\ UNCHANGED <<dialog, flush, unsaved>>

(* wsl_set_wsl_conf, and its answer.                                       *)
ToolCall(c) ==
  /\ \E k \in Keys, v \in Settings: Submit(c, k, v)
  /\ UNCHANGED <<dialog, flush, unsaved>>

ToolAnswer(c) ==
  /\ edit[c].at = "answers" /\ ~Awaited(c)
  /\ edit' = [edit EXCEPT ![c] = Free]
  /\ UNCHANGED <<text, tail, count, dialog, flush, unsaved>>

----------------------------------------------------------------------------
(* The dialog                                                              *)

Flushing == \E p \in Presses: flush[p] # None

(* The flushes of the dialog that is open, and those that iterate over the *)
(* same draft as p.                                                        *)
Here == {p \in Presses: flush[p] # None /\ flush[p].mates = {}}
Sharing(p) ==
  IF p \in Here THEN Here
  ELSE {q \in flush[p].mates: flush[q] # None /\ p \in flush[q].mates}

(* Nothing that is left of it will be written.                             *)
Stale(p) == [flush[p] EXCEPT !.stale = TRUE, !.left = {}, !.own = NoDraft]
AllStale == [p \in Presses |-> IF p \in Here THEN Stale(p) ELSE flush[p]]

Entry(p, k) == IF p \in Here THEN dialog.draft[k] ELSE flush[p].own[k]

(* The dialog closes over it, and nobody clears the draft.                 *)
Alone(p) ==
  [flush[p] EXCEPT !.mates = Here,
     !.own = [k \in Keys |-> IF k \in flush[p].left THEN dialog.draft[k] ELSE NoEdit]]

Closed == [open |-> FALSE, draft |-> NoDraft]

OpenDialog ==
  /\ ~dialog.open
  /\ dialog' = [open |-> TRUE, draft |-> NoDraft]
  /\ UNCHANGED <<conf, flush, unsaved>>

(* setValue(), unset(): a new entry changes the map a flush iterates over, *)
(* a new value for an old one does not.                                    *)
EditDraft(k, v) ==
  /\ dialog.open
  /\ dialog.draft[k] # v
  /\ dialog' = [dialog EXCEPT !.draft[k] = v]
  /\ flush' = IF dialog.draft[k] = NoEdit THEN AllStale ELSE flush
  /\ unsaved' = IF Flushing THEN unsaved \ {k} ELSE unsaved \cup {k}
  /\ UNCHANGED conf

Cancel ==
  /\ dialog.open
  /\ dialog' = Closed
  /\ flush' = AllStale
  /\ unsaved' = {}
  /\ UNCHANGED conf

(* Escape closes the dialog like any other, without draft.clear().         *)
Escape ==
  /\ dialog.open
  /\ dialog' = Closed
  /\ flush' = [p \in Presses |-> IF p \in Here THEN Alone(p) ELSE flush[p]]
  /\ unsaved' = {}
  /\ UNCHANGED conf

(* The button stays enabled while a flush runs.                            *)
SaveNothing ==
  /\ dialog.open /\ dialog.draft = NoDraft
  /\ dialog' = [dialog EXCEPT !.open = FALSE]
  /\ UNCHANGED <<conf, flush, unsaved>>

Save(p) ==
  /\ dialog.open /\ dialog.draft # NoDraft
  /\ flush[p] = None
  /\ flush' = [flush EXCEPT ![p] =
                 [left |-> {k \in Keys: dialog.draft[k] # NoEdit},
                  call |-> None, stale |-> FALSE, own |-> NoDraft, mates |-> {}]]
  /\ UNCHANGED <<conf, dialog, unsaved>>

FlushHands(p, k, c) ==
  /\ flush[p] # None
  /\ flush[p].call = None /\ ~flush[p].stale
  /\ k \in flush[p].left
  /\ Submit(c, k, Entry(p, k))
  /\ flush' = [flush EXCEPT ![p].left = @ \ {k}, ![p].own[k] = NoEdit, ![p].call = c]
  /\ unsaved' = unsaved \ {k}
  /\ UNCHANGED dialog

FlushHears(p) ==
  /\ flush[p] # None
  /\ flush[p].call # None
  /\ edit[flush[p].call].at = "answers"
  /\ edit' = [edit EXCEPT ![flush[p].call] = Free]
  /\ flush' = [flush EXCEPT ![p].call = None]
  /\ UNCHANGED <<text, tail, count, dialog, unsaved>>

(* _pending.clear() and navigator.pop(), which closes what is open by then:*)
(* the flush's own dialog, or one opened after that was left with Escape,  *)
(* or a page (not modelled).                                               *)
FlushEnds(p) ==
  /\ flush[p] # None
  /\ flush[p].call = None /\ ~flush[p].stale
  /\ flush[p].left = {}
  /\ dialog' = Closed
  /\ flush' = [q \in Presses |->
                 IF q = p THEN None
                 ELSE IF q \in Sharing(p) THEN Stale(q)
                 ELSE IF q \in Here THEN Alone(q)
                 ELSE flush[q]]
  /\ unsaved' = {}
  /\ UNCHANGED conf

(* Mutants: the map is cleared and the dialog closed in a finally.         *)
FlushThrowsAway(p) ==
  /\ flush[p] # None
  /\ flush[p].call = None /\ flush[p].stale
  /\ dialog' = Closed
  /\ flush' = [flush EXCEPT ![p] = None]
  /\ unsaved' = {}
  /\ UNCHANGED conf

(* ConcurrentModificationError: the rest is not written, the draft and the *)
(* dialog stay.                                                            *)
FlushThrows(p) ==
  /\ flush[p] # None
  /\ flush[p].call = None /\ flush[p].stale
  /\ flush' = [flush EXCEPT ![p] = None]
  /\ UNCHANGED <<conf, dialog, unsaved>>

FlushStep(p) ==
  \/ \E k \in Keys, c \in Calls: FlushHands(p, k, c)
  \/ FlushHears(p) \/ FlushEnds(p) \/ FlushThrows(p)

Next ==
  \/ \E c \in Calls: Cycle(c) \/ ToolCall(c) \/ ToolAnswer(c)
  \/ OpenDialog \/ Cancel \/ Escape \/ SaveNothing
  \/ \E k \in Keys, v \in Settings: EditDraft(k, v)
  \/ \E p \in Presses: Save(p) \/ FlushStep(p)

Spec == Init /\ [][Next]_vars

(* Every wsl.exe call ends (it has a timer), and what waits for it goes on.*)
Fairness == \A c \in Calls: WF_vars(Cycle(c))

LiveSpec == Spec /\ Fairness

----------------------------------------------------------------------------
(* Properties                                                              *)

outAsked ==
  [c \in Calls |-> IF Idle(c) THEN None
                   ELSE [key |-> edit[c].key, to |-> edit[c].to,
                         turn |-> edit[c].turn, over |-> edit[c].at = "answers"]]

Atomic == INSTANCE AtomicConfig WITH out <- outAsked, Turns <- 0..MaxEdits

(* The queue makes the cycles atomic: of edits that overlap in any way     *)
(* none is lost and none brings back an old file, they are made in the     *)
(* order they were asked for (wsl.dart:2688-2697 has what happened         *)
(* without it).                                                            *)
EditsAreAtomic == Atomic!Spec

(* One cycle that fails does not take those behind it along: every queued  *)
(* edit gets to read the file (wsl.dart:2704).                             *)
EveryEditTried == \A c \in Calls: edit[c].at = "waits" ~> edit[c].at = "read"

(* Save closes a dialog on an edit that was not handed over only if it was *)
(* made while a Save was running, of this dialog or of one that was left   *)
(* with Escape: a flush that broke off leaves the dialog and its draft     *)
(* alone (settings_dialog.dart:600-640).                                   *)
OnlyLateEditsDropped ==
  [][dialog.open /\ ~dialog'.open => Cancel \/ Escape \/ unsaved = {}]_vars
=============================================================================
