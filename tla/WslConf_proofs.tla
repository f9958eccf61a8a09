--------------------------- MODULE WslConf_proofs ---------------------------
(***************************************************************************)
(* Proofs about WslConf: the types, and that the queued cycles implement   *)
(* AtomicConfig, for any calls, keys, values and presses.  The argument is *)
(* the shape of the chain: by their turns, the live cycles stand in a      *)
(* line, each behind the one that was asked for just before it, and the    *)
(* queue's entry is the last of them.  So only the first can be at the     *)
(* file, and the copy it writes back is the file as it is.                 *)
(***************************************************************************)
EXTENDS WslConf, TLAPS

(* The live cycles stand in one line.                                      *)
LineOK ==
  /\ \A c \in Calls: Live(c) => edit[c].turn <= count
  /\ \A c, d \in Calls: Live(c) /\ Live(d) /\ edit[c].turn = edit[d].turn => c = d
  /\ \A c \in Calls: Live(c) /\ edit[c].after = None =>
       \A d \in Calls: Live(d) => edit[c].turn <= edit[d].turn
  /\ \A c \in Calls: Live(c) /\ edit[c].after # None =>
       /\ Live(edit[c].after)
       /\ edit[edit[c].after].turn < edit[c].turn
       /\ \A d \in Calls: Live(d) =>
            edit[d].turn <= edit[edit[c].after].turn \/ edit[c].turn <= edit[d].turn

(* The entry of the map is its end.                                        *)
TailOK ==
  /\ tail = None => \A c \in Calls: ~Live(c)
  /\ tail # None => Live(tail) /\ \A c \in Calls: Live(c) => edit[c].turn <= edit[tail].turn

(* Its first cycle is the only one at the file.                            *)
FileOK ==
  \A c \in Calls:
    /\ edit[c].at \in {"read", "write"} => edit[c].after = None
    /\ edit[c].at = "write" => edit[c].copy = text

(* What a flush has still to hand over is in the draft, unless the draft   *)
(* changed under it.                                                       *)
EntriesOK(p) ==
  flush[p] # None /\ ~flush[p].stale => \A k \in flush[p].left: Entry(p, k) # NoEdit

DraftOK ==
  /\ ~dialog.open => dialog.draft = NoDraft
  /\ \A p \in Presses: EntriesOK(p)

IInv == TypeOK /\ LineOK /\ TailOK /\ FileOK /\ DraftOK

----------------------------------------------------------------------------
LEMMA FreeType == Free \in Edits
  BY ConfAssumption DEF Free, Edits, Stages, Empty, Settings

LEMMA EmptyType == Empty \in [Keys -> Settings]
  BY DEF Empty, Settings

LEMMA NoDraftType == NoDraft \in Drafts
  BY DEF NoDraft, Drafts

(* A flush whose draft changed, and one whose dialog is left.              *)
LEMMA StaleType ==
  ASSUME NEW p \in Presses, flush[p] \in Flushes
  PROVE  /\ Stale(p) \in Flushes /\ Stale(p).stale
         /\ Stale(p).mates = flush[p].mates
  BY NoDraftType DEF Stale, Flushes

LEMMA AloneType ==
  ASSUME NEW p \in Presses, flush[p] \in Flushes, dialog.draft \in Drafts
  PROVE  /\ Alone(p) \in Flushes /\ Alone(p).mates = Here
         /\ Alone(p).left = flush[p].left
         /\ Alone(p).stale = flush[p].stale
         /\ \A k \in flush[p].left: Alone(p).own[k] = dialog.draft[k]
<1> DEFINE own == [k \in Keys |-> IF k \in flush[p].left THEN dialog.draft[k] ELSE NoEdit]
<1>1. own \in Drafts
  BY DEF Drafts
<1>2. Here \subseteq Presses
  BY DEF Here
<1>3. \A k \in flush[p].left: own[k] = dialog.draft[k]
  BY DEF Flushes
<1>4. Alone(p) = [flush[p] EXCEPT !.mates = Here, !.own = own]
  BY DEF Alone
<1> HIDE DEF own
<1> QED BY <1>1, <1>2, <1>3, <1>4 DEF Flushes

(* What becomes of the flushes when a dialog closes or its draft changes.  *)
LEMMA FlushTypes ==
  ASSUME flush \in [Presses -> {None} \cup Flushes], dialog.draft \in Drafts,
         NEW p \in Presses
  PROVE  /\ flush[p] # None => flush[p] \in Flushes /\ Stale(p) \in Flushes /\ Alone(p) \in Flushes
         /\ p \in Here => flush[p] # None
         /\ \A q \in Presses: q \in Sharing(p) => flush[q] # None
<1>1. flush[p] # None => flush[p] \in Flushes
  OBVIOUS
<1>2. \A q \in Presses: q \in Here => flush[q] # None
  BY DEF Here
<1>3. \A q \in Presses: q \in Sharing(p) => flush[q] # None
  BY <1>2 DEF Sharing
<1> QED BY <1>1, <1>2, <1>3, StaleType, AloneType

LEMMA FlushesType ==
  ASSUME flush \in [Presses -> {None} \cup Flushes], dialog.draft \in Drafts
  PROVE  /\ AllStale \in [Presses -> {None} \cup Flushes]
         /\ [p \in Presses |-> IF p \in Here THEN Alone(p) ELSE flush[p]]
              \in [Presses -> {None} \cup Flushes]
         /\ \A p \in Presses:
              [q \in Presses |->
                 IF q = p THEN None
                 ELSE IF q \in Sharing(p) THEN Stale(q)
                 ELSE IF q \in Here THEN Alone(q)
                 ELSE flush[q]] \in [Presses -> {None} \cup Flushes]
<1>1. \A p \in Presses:
        /\ flush[p] # None => flush[p] \in Flushes /\ Stale(p) \in Flushes /\ Alone(p) \in Flushes
        /\ p \in Here => flush[p] # None
        /\ \A q \in Presses: q \in Sharing(p) => flush[q] # None
  BY FlushTypes
<1> QED BY <1>1 DEF AllStale

LEMMA InitIInv == Init => IInv
<1> SUFFICES ASSUME Init PROVE IInv
  OBVIOUS
<1>1. TypeOK
  BY FreeType, NoDraftType, ConfAssumption DEF Init, TypeOK
<1>2. \A c \in Calls: ~Live(c) /\ edit[c].at = "idle"
  BY DEF Init, Live, Free
<1>3. LineOK
  BY <1>2 DEF LineOK
<1>4. TailOK
  BY <1>2 DEF TailOK, Init
<1>5. FileOK
  BY <1>2 DEF FileOK
<1>6. DraftOK
  BY DEF DraftOK, EntriesOK, Init
<1> QED BY <1>1, <1>3, <1>4, <1>5, <1>6 DEF IInv

----------------------------------------------------------------------------
(* What the two steps that move the chain leave behind.                    *)
LEMMA SubmitLine ==
  ASSUME IInv, NEW c \in Calls, NEW k \in Keys, NEW v \in Settings, Submit(c, k, v)
  PROVE  /\ edit' \in [Calls -> Edits] /\ tail' \in Calls /\ tail' = c /\ Live(c)'
         /\ count' \in 0..MaxEdits
         /\ LineOK' /\ TailOK' /\ FileOK'
<1> DEFINE e == [at |-> "waits", key |-> k, to |-> v, turn |-> count + 1,
                 after |-> tail, copy |-> Empty]
<1>1. count + 1 \in 0..MaxEdits
  BY ConfAssumption DEF IInv, TypeOK, Submit
<1>2. e \in Edits
  BY <1>1, EmptyType DEF IInv, TypeOK, Edits, Stages
<1>3. /\ edit'[c] = e
      /\ \A d \in Calls: d # c => edit'[d] = edit[d]
      /\ edit' \in [Calls -> Edits]
  BY <1>2 DEF IInv, TypeOK, Submit
<1>4. /\ e.at = "waits" /\ e.turn = count + 1 /\ e.after = tail
  OBVIOUS
<1> HIDE DEF e
<1>5. ~Live(c) /\ Live(c)' /\ \A d \in Calls: d # c => (Live(d)' <=> Live(d))
  BY <1>3, <1>4 DEF Live, Submit, Idle
<1>6. /\ count' = count + 1 /\ count \in Nat
      /\ count' \in 0..MaxEdits
      /\ tail' = c /\ text' = text
  BY <1>1, ConfAssumption DEF IInv, TypeOK, Submit
<1>7. \A d \in Calls: edit[d].turn \in Nat /\ edit[d].after \in Calls \cup {None}
  BY ConfAssumption DEF IInv, TypeOK, Edits
<1>8. tail # None => tail # c /\ tail \in Calls /\ Live(tail)
  BY <1>5 DEF IInv, TypeOK
<1>9. LineOK'
  BY <1>3, <1>4, <1>5, <1>6, <1>7, <1>8, ConfAssumption DEF IInv, LineOK, TailOK
<1>10. TailOK'
  BY <1>3, <1>4, <1>5, <1>6, <1>7, ConfAssumption DEF IInv, LineOK, TailOK
<1>11. FileOK'
  BY <1>3, <1>4, <1>6 DEF IInv, FileOK
<1> QED BY <1>3, <1>5, <1>6, <1>9, <1>10, <1>11

(* A cycle that is at the file is the first of the line.                   *)
LEMMA AtFileFirst ==
  ASSUME IInv, NEW c \in Calls, edit[c].at \in {"read", "write"}
  PROVE  /\ Live(c) /\ edit[c].after = None
         /\ \A d \in Calls: Live(d) => edit[c].turn <= edit[d].turn
         /\ \A d \in Calls: d # c => edit[d].at \notin {"read", "write"}
<1>1. Live(c) /\ edit[c].after = None
  BY DEF Live, IInv, FileOK
<1>2. \A d \in Calls: edit[d].turn \in Nat
  BY ConfAssumption DEF IInv, TypeOK, Edits
<1>3. \A d \in Calls: Live(d) => edit[c].turn <= edit[d].turn
  BY <1>1 DEF IInv, LineOK
<1>4. ASSUME NEW d \in Calls, edit[d].at \in {"read", "write"} PROVE d = c
  <2>1. Live(d) /\ edit[d].after = None
    BY <1>4 DEF Live, IInv, FileOK
  <2>2. edit[d].turn <= edit[c].turn
    BY <1>1, <2>1 DEF IInv, LineOK
  <2> QED BY <1>1, <1>2, <1>3, <2>1, <2>2 DEF IInv, LineOK
<1> QED BY <1>1, <1>3, <1>4

LEMMA DoneLine ==
  ASSUME IInv, NEW c \in Calls, edit[c].at \in {"read", "write"}, Done(c),
         count' = count
  PROVE  /\ edit' \in [Calls -> Edits] /\ tail' \in Calls \cup {None}
         /\ LineOK' /\ TailOK' /\ FileOK'
<1>1. /\ Live(c) /\ edit[c].after = None
      /\ \A d \in Calls: Live(d) => edit[c].turn <= edit[d].turn
      /\ \A d \in Calls: d # c => edit[d].at \notin {"read", "write"}
  BY AtFileFirst
<1>2. \A d \in Calls: edit[d] \in Edits /\ edit[d].turn \in Nat
                      /\ edit[d].after \in Calls \cup {None}
  BY ConfAssumption DEF IInv, TypeOK, Edits
<1>3. /\ edit'[c] = [edit[c] EXCEPT !.at = "answers", !.copy = Empty]
      /\ \A d \in Calls: d # c /\ edit[d].after = c => edit'[d] = [edit[d] EXCEPT !.after = None]
      /\ \A d \in Calls: d # c /\ edit[d].after # c => edit'[d] = edit[d]
      /\ DOMAIN edit' = Calls /\ edit' = [d \in Calls |-> edit'[d]]
  BY DEF Done
<1>4. \A d \in Calls: edit'[d] \in Edits
  <2> SUFFICES ASSUME NEW d \in Calls PROVE edit'[d] \in Edits
    OBVIOUS
  <2>1. CASE d = c
    BY <1>2, <1>3, <2>1, EmptyType DEF Edits, Stages
  <2>2. CASE d # c /\ edit[d].after = c
    BY <1>2, <1>3, <2>2 DEF Edits
  <2>3. CASE d # c /\ edit[d].after # c
    BY <1>2, <1>3, <2>3
  <2> QED BY <2>1, <2>2, <2>3
<1>5. edit'[c].at = "answers"
  BY <1>2, <1>3 DEF Edits
<1>6. \A d \in Calls: d # c =>
        /\ edit'[d].at = edit[d].at /\ edit'[d].turn = edit[d].turn
        /\ edit'[d].after = IF edit[d].after = c THEN None ELSE edit[d].after
  <2> SUFFICES ASSUME NEW d \in Calls, d # c
               PROVE  /\ edit'[d].at = edit[d].at /\ edit'[d].turn = edit[d].turn
                      /\ edit'[d].after = IF edit[d].after = c THEN None ELSE edit[d].after
    OBVIOUS
  <2>1. CASE edit[d].after = c
    BY <1>2, <1>3, <2>1 DEF Edits
  <2>2. CASE edit[d].after # c
    BY <1>3, <2>2
  <2> QED BY <2>1, <2>2
<1>7. ~Live(c)' /\ \A d \in Calls: d # c => (Live(d)' <=> Live(d))
  BY <1>5, <1>6 DEF Live
<1>8. tail' = IF tail = c THEN None ELSE tail
  BY DEF Done
<1>9. tail \in Calls \cup {None}
  BY DEF IInv, TypeOK
<1>10. LineOK'
  BY <1>1, <1>2, <1>6, <1>7, ConfAssumption DEF IInv, LineOK
<1>11. TailOK'
  <2>1. CASE tail = c
    <3>1. \A d \in Calls: Live(d) => d = c
      BY <1>1, <1>2, <2>1, ConfAssumption DEF IInv, LineOK, TailOK
    <3> QED BY <1>7, <1>8, <2>1, <3>1 DEF TailOK
  <2>2. CASE tail # c
    BY <1>1, <1>2, <1>6, <1>7, <1>8, <1>9, <2>2 DEF IInv, TailOK
  <2> QED BY <2>1, <2>2
<1>12. FileOK'
  BY <1>1, <1>5, <1>6 DEF FileOK
<1> QED BY <1>3, <1>4, <1>8, <1>9, <1>10, <1>11, <1>12

(* A step that leaves the chain alone.                                     *)
LEMMA ConfSame ==
  ASSUME IInv, UNCHANGED conf
  PROVE  LineOK' /\ TailOK' /\ FileOK'
  BY DEF IInv, LineOK, TailOK, FileOK, Live, conf

(* A step of one cycle that keeps it where it stands.                      *)
LEMMA PlaceSame ==
  ASSUME IInv, UNCHANGED <<tail, count, text>>, NEW c \in Calls,
         NEW e \in Edits, edit' = [edit EXCEPT ![c] = e],
         \/ /\ e.at \in {"read", "write"} /\ Live(c) /\ edit[c].after = None
            /\ e.turn = edit[c].turn /\ e.after = None
            /\ e.at = "write" => e.copy = text
         \/ e.at = "idle" /\ ~Live(c)
  PROVE  edit' \in [Calls -> Edits] /\ LineOK' /\ TailOK' /\ FileOK'
<1>1. /\ edit'[c] = e
      /\ \A d \in Calls: d # c => edit'[d] = edit[d]
      /\ edit' \in [Calls -> Edits]
  BY DEF IInv, TypeOK
<1>2. \A d \in Calls: Live(d)' <=> Live(d)
  BY <1>1 DEF Live
<1>3. \A d \in Calls: Live(d) =>
        edit'[d].turn = edit[d].turn /\ edit'[d].after = edit[d].after
  BY <1>1 DEF Live
<1>4. \A d \in Calls: edit[d].after \in Calls \cup {None}
  BY DEF IInv, TypeOK, Edits
<1>5. LineOK'
  BY <1>2, <1>3, <1>4 DEF IInv, LineOK
<1>6. TailOK'
  BY <1>2, <1>3 DEF IInv, TailOK, TypeOK
<1>7. FileOK'
  BY <1>1 DEF IInv, FileOK
<1> QED BY <1>1, <1>5, <1>6, <1>7

(* What each step of a cycle does.                                         *)
LEMMA BeginStep ==
  ASSUME IInv, NEW c \in Calls, Begin(c)
  PROVE  edit' \in [Calls -> Edits] /\ LineOK' /\ TailOK' /\ FileOK'
<1> DEFINE e == [edit[c] EXCEPT !.at = "read"]
<1>1. edit[c] \in Edits /\ edit[c].at = "waits" /\ edit[c].after = None
  BY DEF IInv, TypeOK, Begin
<1>2. e \in Edits /\ e.at = "read" /\ e.turn = edit[c].turn /\ e.after = None
  BY <1>1 DEF Edits, Stages
<1>3. edit' = [edit EXCEPT ![c] = e] /\ UNCHANGED <<tail, count, text>> /\ Live(c)
  BY <1>1 DEF IInv, TypeOK, Begin, Live
<1> HIDE DEF e
<1> QED BY <1>1, <1>2, <1>3, PlaceSame

LEMMA ReadStep ==
  ASSUME IInv, NEW c \in Calls, ReadFile(c)
  PROVE  edit' \in [Calls -> Edits] /\ LineOK' /\ TailOK' /\ FileOK'
<1> DEFINE e == [edit[c] EXCEPT !.at = "write", !.copy = text]
<1>1. edit[c] \in Edits /\ text \in [Keys -> Settings] /\ edit[c].at = "read"
      /\ edit[c].after = None
  BY DEF IInv, TypeOK, FileOK, ReadFile
<1>2. e \in Edits /\ e.at = "write" /\ e.turn = edit[c].turn /\ e.after = None
      /\ e.copy = text
  BY <1>1 DEF Edits, Stages
<1>3. edit' = [edit EXCEPT ![c] = e] /\ UNCHANGED <<tail, count, text>> /\ Live(c)
  BY <1>1 DEF IInv, TypeOK, ReadFile, Live
<1> HIDE DEF e
<1> QED BY <1>1, <1>2, <1>3, PlaceSame

LEMMA AnswerStep ==
  ASSUME IInv, NEW c \in Calls, edit[c].at = "answers",
         edit' = [edit EXCEPT ![c] = Free], UNCHANGED <<tail, count, text>>
  PROVE  edit' \in [Calls -> Edits] /\ LineOK' /\ TailOK' /\ FileOK'
<1>1. Free.at = "idle" /\ ~Live(c)
  BY DEF Free, Live
<1> QED BY <1>1, FreeType, PlaceSame

LEMMA EndsAtFile ==
  ASSUME NEW c \in Calls,
         NothingToRemove(c) \/ Fails(c) \/ WriteFile(c) \/ WriteTorn(c)
  PROVE  edit[c].at \in {"read", "write"} /\ Done(c)
  BY DEF NothingToRemove, Fails, WriteFile, WriteTorn

LEMMA EndStep ==
  ASSUME IInv, NEW c \in Calls,
         NothingToRemove(c) \/ Fails(c) \/ WriteFile(c) \/ WriteTorn(c)
  PROVE  /\ edit' \in [Calls -> Edits] /\ text' \in [Keys -> Settings]
         /\ tail' \in Calls \cup {None}
         /\ count' \in 0..MaxEdits
         /\ LineOK' /\ TailOK' /\ FileOK'
<1>1. /\ edit[c] \in Edits /\ text \in [Keys -> Settings]
      /\ count \in 0..MaxEdits
  BY DEF IInv, TypeOK
<1>2. text' \in [Keys -> Settings]
  <2>1. CASE NothingToRemove(c) \/ Fails(c)
    BY <1>1, <2>1 DEF NothingToRemove, Fails
  <2>2. CASE WriteFile(c)
    BY <1>1, <2>2 DEF WriteFile, Edits
  <2>3. CASE WriteTorn(c)
    BY <2>3, EmptyType DEF WriteTorn
  <2> QED BY <2>1, <2>2, <2>3
<1>3. count' \in 0..MaxEdits /\ count' = count
  BY <1>1 DEF NothingToRemove, Fails, WriteFile, WriteTorn
<1> QED BY <1>2, <1>3, EndsAtFile, DoneLine

----------------------------------------------------------------------------
(* The dialog's own state.                                                 *)
LEMMA DialogTypes ==
  ASSUME IInv, Next
  PROVE  /\ dialog' \in [open: BOOLEAN, draft: Drafts]
         /\ flush' \in [Presses -> {None} \cup Flushes]
         /\ unsaved' \subseteq Keys
<1>1. /\ dialog \in [open: BOOLEAN, draft: Drafts]
      /\ flush \in [Presses -> {None} \cup Flushes]
      /\ unsaved \subseteq Keys
  BY DEF IInv, TypeOK
<1>2. /\ AllStale \in [Presses -> {None} \cup Flushes]
      /\ [p \in Presses |-> IF p \in Here THEN Alone(p) ELSE flush[p]]
           \in [Presses -> {None} \cup Flushes]
      /\ \A p \in Presses: FlushEnds(p) => flush' \in [Presses -> {None} \cup Flushes]
  BY <1>1, FlushesType DEF FlushEnds
<1>3. Closed \in [open: BOOLEAN, draft: Drafts]
      /\ [open |-> TRUE, draft |-> NoDraft] \in [open: BOOLEAN, draft: Drafts]
  BY NoDraftType DEF Closed
<1>4. \A p \in Presses: flush[p] # None => flush[p] \in Flushes
  BY <1>1
<1>5. CASE \E c \in Calls: Cycle(c) \/ ToolCall(c) \/ ToolAnswer(c)
  BY <1>1, <1>5 DEF Cycle, ToolCall, ToolAnswer
<1>6. CASE OpenDialog \/ Cancel \/ Escape
  BY <1>1, <1>2, <1>3, <1>6 DEF OpenDialog, Cancel, Escape
<1>7. CASE SaveNothing
  BY <1>1, <1>7 DEF SaveNothing
<1>8. ASSUME NEW k \in Keys, NEW v \in Settings, EditDraft(k, v)
      PROVE  /\ dialog' \in [open: BOOLEAN, draft: Drafts]
             /\ flush' \in [Presses -> {None} \cup Flushes]
             /\ unsaved' \subseteq Keys
  <2> DEFINE d == [dialog.draft EXCEPT ![k] = v]
  <2>1. d \in Drafts
    BY <1>1 DEF Drafts
  <2>2. dialog' = [dialog EXCEPT !.draft = d]
    BY <1>1, <1>8 DEF EditDraft
  <2> HIDE DEF d
  <2> QED BY <1>1, <1>2, <1>8, <2>1, <2>2 DEF EditDraft
<1>9. ASSUME NEW p \in Presses, Save(p)
      PROVE  /\ dialog' \in [open: BOOLEAN, draft: Drafts]
             /\ flush' \in [Presses -> {None} \cup Flushes]
             /\ unsaved' \subseteq Keys
  <2> DEFINE f == [left |-> {k \in Keys: dialog.draft[k] # NoEdit},
                   call |-> None, stale |-> FALSE, own |-> NoDraft, mates |-> {}]
  <2>1. f \in Flushes
    BY NoDraftType DEF Flushes
  <2>2. flush' = [flush EXCEPT ![p] = f] /\ UNCHANGED <<dialog, unsaved>>
    BY <1>9 DEF Save
  <2> HIDE DEF f
  <2> QED BY <1>1, <2>1, <2>2
<1>10. ASSUME NEW p \in Presses, NEW k \in Keys, NEW c \in Calls, FlushHands(p, k, c)
       PROVE  /\ dialog' \in [open: BOOLEAN, draft: Drafts]
              /\ flush' \in [Presses -> {None} \cup Flushes]
              /\ unsaved' \subseteq Keys
  <2> DEFINE f == [flush[p] EXCEPT !.left = @ \ {k}, !.own[k] = NoEdit, !.call = c]
  <2>1. flush[p] \in Flushes
    BY <1>4, <1>10 DEF FlushHands
  <2>2. f \in Flushes
    <3> DEFINE own == [flush[p].own EXCEPT ![k] = NoEdit]
    <3>1. own \in Drafts
      BY <2>1 DEF Flushes, Drafts
    <3>2. f = [flush[p] EXCEPT !.left = @ \ {k}, !.own = own, !.call = c]
      OBVIOUS
    <3> HIDE DEF own, f
    <3> QED BY <2>1, <3>1, <3>2 DEF Flushes
  <2>3. flush' = [flush EXCEPT ![p] = f] /\ UNCHANGED dialog /\ unsaved' = unsaved \ {k}
    BY <1>1, <1>10, <2>1 DEF FlushHands, Flushes
  <2> HIDE DEF f
  <2> QED BY <1>1, <2>2, <2>3
<1>11. ASSUME NEW p \in Presses, FlushHears(p)
       PROVE  /\ dialog' \in [open: BOOLEAN, draft: Drafts]
              /\ flush' \in [Presses -> {None} \cup Flushes]
              /\ unsaved' \subseteq Keys
  <2> DEFINE f == [flush[p] EXCEPT !.call = None]
  <2>1. flush[p] \in Flushes
    BY <1>4, <1>11 DEF FlushHears
  <2>2. f \in Flushes
    BY <2>1 DEF Flushes
  <2>3. flush' = [flush EXCEPT ![p] = f] /\ UNCHANGED <<dialog, unsaved>>
    BY <1>1, <1>11 DEF FlushHears
  <2> HIDE DEF f
  <2> QED BY <1>1, <2>2, <2>3
<1>12. ASSUME NEW p \in Presses, FlushEnds(p) \/ FlushThrows(p)
       PROVE  /\ dialog' \in [open: BOOLEAN, draft: Drafts]
              /\ flush' \in [Presses -> {None} \cup Flushes]
              /\ unsaved' \subseteq Keys
  BY <1>1, <1>2, <1>3, <1>12 DEF FlushEnds, FlushThrows
<1> QED BY <1>5, <1>6, <1>7, <1>8, <1>9, <1>10, <1>11, <1>12 DEF Next, FlushStep

(* A flush hands over an entry that is there.                              *)
LEMMA HandsSetting ==
  ASSUME IInv, NEW p \in Presses, NEW k \in Keys, NEW c \in Calls, FlushHands(p, k, c)
  PROVE  Entry(p, k) \in Settings
<1>1. flush[p] \in Flushes /\ dialog.draft \in Drafts
  BY DEF IInv, TypeOK, FlushHands
<1>2. flush[p].own \in Drafts
  BY <1>1 DEF Flushes
<1>3. Entry(p, k) \in Settings \cup {NoEdit}
  BY <1>1, <1>2 DEF Entry, Drafts
<1> QED BY <1>3 DEF IInv, DraftOK, EntriesOK, FlushHands

(* Every step keeps the line, whoever takes it.                            *)
LEMMA ChainStep ==
  ASSUME IInv, Next
  PROVE  /\ text' \in [Keys -> Settings] /\ edit' \in [Calls -> Edits]
         /\ tail' \in Calls \cup {None}
         /\ count' \in 0..MaxEdits
         /\ LineOK' /\ TailOK' /\ FileOK'
<1> DEFINE Goal ==
      /\ text' \in [Keys -> Settings] /\ edit' \in [Calls -> Edits]
      /\ tail' \in Calls \cup {None}
      /\ count' \in 0..MaxEdits
      /\ LineOK' /\ TailOK' /\ FileOK'
<1>1. /\ text \in [Keys -> Settings] /\ edit \in [Calls -> Edits]
      /\ tail \in Calls \cup {None}
      /\ count \in 0..MaxEdits
  BY DEF IInv, TypeOK
<1>2. ASSUME NEW c \in Calls, NEW k \in Keys, NEW v \in Settings, Submit(c, k, v)
      PROVE  Goal
  BY <1>1, <1>2, SubmitLine DEF Submit
<1>3. ASSUME NEW c \in Calls, Cycle(c) PROVE Goal
  <2>1. CASE Begin(c)
    BY <1>1, <2>1, BeginStep DEF Begin
  <2>2. CASE ReadFile(c)
    BY <1>1, <2>2, ReadStep DEF ReadFile
  <2>3. CASE NothingToRemove(c) \/ Fails(c) \/ WriteFile(c) \/ WriteTorn(c)
    BY <2>3, EndStep
  <2> QED BY <1>3, <2>1, <2>2, <2>3 DEF Cycle
<1>4. ASSUME NEW c \in Calls, ToolAnswer(c) PROVE Goal
  BY <1>1, <1>4, AnswerStep DEF ToolAnswer
<1>5. ASSUME NEW p \in Presses, FlushHears(p) PROVE Goal
  <2>1. flush[p] \in Flushes /\ flush[p].call # None
    BY <1>5 DEF IInv, TypeOK, FlushHears
  <2>2. flush[p].call \in Calls
    BY <2>1 DEF Flushes
  <2> QED BY <1>1, <1>5, <2>2, AnswerStep DEF FlushHears
<1>6. ASSUME UNCHANGED conf PROVE Goal
  BY <1>1, <1>6, ConfSame DEF conf
<1>7. ASSUME NEW p \in Presses, NEW k \in Keys, NEW c \in Calls, FlushHands(p, k, c)
      PROVE  Goal
  <2>1. Entry(p, k) \in Settings
    BY <1>7, HandsSetting
  <2> QED BY <1>2, <1>7, <2>1 DEF FlushHands
<1>8. ASSUME NEW c \in Calls, ToolCall(c) PROVE Goal
  BY <1>2, <1>8 DEF ToolCall
<1>9. CASE OpenDialog \/ Cancel \/ Escape \/ SaveNothing
  BY <1>6, <1>9 DEF OpenDialog, Cancel, Escape, SaveNothing
<1>10. CASE \E k \in Keys, v \in Settings: EditDraft(k, v)
  BY <1>6, <1>10 DEF EditDraft
<1>11. CASE \E p \in Presses: Save(p) \/ FlushEnds(p) \/ FlushThrows(p)
  BY <1>6, <1>11 DEF Save, FlushEnds, FlushThrows
<1>12. CASE \E c \in Calls: Cycle(c) \/ ToolCall(c) \/ ToolAnswer(c)
  BY <1>3, <1>4, <1>8, <1>12
<1>13. CASE \E p \in Presses: FlushStep(p)
  BY <1>5, <1>7, <1>11, <1>13 DEF FlushStep
<1>14. Goal
  BY <1>9, <1>10, <1>11, <1>12, <1>13 DEF Next
<1> QED BY <1>14

(* What becomes of the entries of one flush.                               *)
LEMMA EntriesStale ==
  ASSUME NEW q \in Presses, flush'[q] # None => flush'[q].stale
  PROVE  EntriesOK(q)'
  BY DEF EntriesOK

LEMMA EntriesApart ==
  ASSUME NEW q \in Presses, EntriesOK(q), q \notin Here, flush'[q] = flush[q]
  PROVE  EntriesOK(q)'
  BY DEF EntriesOK, Entry, Here

LEMMA EntriesAlone ==
  ASSUME IInv, NEW q \in Presses, q \in Here, flush'[q] = Alone(q)
  PROVE  EntriesOK(q)'
<1>1. flush[q] # None /\ flush[q] \in Flushes /\ dialog.draft \in Drafts /\ EntriesOK(q)
  BY DEF Here, IInv, TypeOK, DraftOK
<1>2. /\ flush'[q].mates # {} /\ flush'[q].left = flush[q].left
      /\ flush'[q].stale = flush[q].stale
      /\ \A k \in flush[q].left: flush'[q].own[k] = dialog.draft[k]
  BY <1>1, AloneType
<1>3. q \notin Here'
  BY <1>2 DEF Here
<1> QED BY <1>1, <1>2, <1>3 DEF EntriesOK, Entry

LEMMA EntriesSame ==
  ASSUME NEW q \in Presses, EntriesOK(q), flush'[q] = flush[q],
         dialog'.draft = dialog.draft
  PROVE  EntriesOK(q)'
  BY DEF EntriesOK, Entry, Here

LEMMA StaleAll ==
  ASSUME IInv, NEW q \in Presses, flush' = AllStale
  PROVE  /\ EntriesOK(q)'
         /\ flush'[q] # None /\ ~flush'[q].stale => q \notin Here /\ flush'[q] = flush[q]
<1>1. flush'[q] = IF q \in Here THEN Stale(q) ELSE flush[q]
  BY DEF AllStale
<1>2. CASE q \in Here
  <2>1. flush[q] \in Flushes
    BY <1>2 DEF Here, IInv, TypeOK
  <2> QED BY <1>1, <1>2, <2>1, StaleType, EntriesStale
<1>3. CASE q \notin Here
  BY <1>1, <1>3, EntriesApart DEF IInv, DraftOK
<1> QED BY <1>2, <1>3

(* The draft and the flushes that read it.                                 *)
LEMMA DraftStep ==
  ASSUME IInv, Next
  PROVE  DraftOK'
<1>1. /\ dialog \in [open: BOOLEAN, draft: Drafts]
      /\ flush \in [Presses -> {None} \cup Flushes]
      /\ \A p \in Presses: flush[p] # None => flush[p] \in Flushes
      /\ \A p \in Presses: EntriesOK(p)
      /\ ~dialog.open => dialog.draft = NoDraft
  BY DEF IInv, TypeOK, DraftOK
<1>2. CASE UNCHANGED <<dialog, flush>>
  BY <1>1, <1>2, EntriesSame DEF DraftOK
<1>3. CASE \E c \in Calls: Cycle(c) \/ ToolCall(c) \/ ToolAnswer(c)
  BY <1>2, <1>3 DEF Cycle, ToolCall, ToolAnswer
<1>4. CASE OpenDialog
  BY <1>1, <1>4, EntriesSame DEF OpenDialog, DraftOK
<1>5. CASE Cancel
  BY <1>5, StaleAll DEF Cancel, DraftOK, Closed
<1>6. CASE Escape
  <2>1. ASSUME NEW q \in Presses PROVE EntriesOK(q)'
    <3>1. flush'[q] = IF q \in Here THEN Alone(q) ELSE flush[q]
      BY <1>6 DEF Escape
    <3> QED BY <1>1, <3>1, EntriesAlone, EntriesApart
  <2> QED BY <1>6, <2>1 DEF Escape, DraftOK, Closed
<1>7. CASE SaveNothing
  <2>1. flush' = flush /\ dialog'.draft = dialog.draft /\ dialog.draft = NoDraft
    BY <1>1, <1>7 DEF SaveNothing
  <2> QED BY <1>1, <2>1, EntriesSame DEF DraftOK
<1>8. ASSUME NEW k \in Keys, NEW v \in Settings, EditDraft(k, v) PROVE DraftOK'
  <2> DEFINE d == [dialog.draft EXCEPT ![k] = v]
  <2>1. \A j \in Keys: d[j] = IF j = k THEN v ELSE dialog.draft[j]
    BY <1>1 DEF Drafts
  <2>2. dialog'.draft = d /\ dialog'.open
    BY <1>1, <1>8 DEF EditDraft
  <2>3. v # NoEdit
    BY ConfAssumption
  <2> HIDE DEF d
  <2>4. CASE flush' = flush
    <3>1. ASSUME NEW q \in Presses PROVE EntriesOK(q)'
      <4>1. flush[q] # None => flush[q].left \subseteq Keys
        BY <1>1 DEF Flushes
      <4>2. \A j \in Keys: Entry(q, j) # NoEdit => Entry(q, j)' # NoEdit
        BY <2>1, <2>2, <2>3, <2>4 DEF Entry, Here
      <4> QED BY <1>1, <2>4, <4>1, <4>2 DEF EntriesOK
    <3> QED BY <2>2, <3>1 DEF DraftOK
  <2>5. CASE flush' = AllStale
    BY <2>2, <2>5, StaleAll DEF DraftOK
  <2> QED BY <1>8, <2>4, <2>5 DEF EditDraft
<1>9. ASSUME NEW p \in Presses, Save(p) PROVE DraftOK'
  <2> DEFINE f == [left |-> {k \in Keys: dialog.draft[k] # NoEdit},
                   call |-> None, stale |-> FALSE, own |-> NoDraft, mates |-> {}]
  <2>1. f.mates = {} /\ \A k \in f.left: dialog.draft[k] # NoEdit
    OBVIOUS
  <2>2. flush' = [flush EXCEPT ![p] = f] /\ UNCHANGED dialog
    BY <1>9 DEF Save
  <2> HIDE DEF f
  <2>3. flush'[p] = f /\ \A q \in Presses: q # p => flush'[q] = flush[q]
    BY <1>1, <2>2
  <2>4. EntriesOK(p)'
    BY <2>1, <2>2, <2>3 DEF EntriesOK, Entry, Here
  <2>5. \A q \in Presses: EntriesOK(q)'
    BY <1>1, <2>2, <2>3, <2>4, EntriesSame
  <2> QED BY <1>1, <2>2, <2>5 DEF DraftOK
<1>10. ASSUME NEW p \in Presses, NEW k \in Keys, NEW c \in Calls, FlushHands(p, k, c)
       PROVE  DraftOK'
  <2> DEFINE f == [flush[p] EXCEPT !.left = @ \ {k}, !.own[k] = NoEdit, !.call = c]
  <2>1. flush[p] # None /\ flush[p] \in Flushes
    BY <1>1, <1>10 DEF FlushHands
  <2>2. /\ f.left = flush[p].left \ {k} /\ f.stale = flush[p].stale
        /\ f.mates = flush[p].mates /\ \A j \in Keys: j # k => f.own[j] = flush[p].own[j]
        /\ flush[p].left \subseteq Keys
    BY <2>1 DEF Flushes, Drafts
  <2>3. flush' = [flush EXCEPT ![p] = f] /\ UNCHANGED dialog
    BY <1>1, <1>10, <2>1 DEF FlushHands, Flushes
  <2> HIDE DEF f
  <2>4. flush'[p] = f /\ \A q \in Presses: q # p => flush'[q] = flush[q]
    BY <1>1, <2>3
  <2>5. \A j \in Keys: j # k /\ f # None => Entry(p, j)' = Entry(p, j)
    BY <2>1, <2>2, <2>3, <2>4 DEF Entry, Here
  <2>6. EntriesOK(p)'
    BY <1>1, <2>1, <2>2, <2>4, <2>5 DEF EntriesOK
  <2>7. \A q \in Presses: EntriesOK(q)'
    BY <1>1, <2>3, <2>4, <2>6, EntriesSame
  <2> QED BY <1>1, <2>3, <2>7 DEF DraftOK
<1>11. ASSUME NEW p \in Presses, FlushHears(p) PROVE DraftOK'
  <2> DEFINE f == [flush[p] EXCEPT !.call = None]
  <2>1. flush[p] # None /\ flush[p] \in Flushes
    BY <1>1, <1>11 DEF FlushHears
  <2>2. f.left = flush[p].left /\ f.stale = flush[p].stale
        /\ f.mates = flush[p].mates /\ f.own = flush[p].own
    BY <2>1 DEF Flushes
  <2>3. flush' = [flush EXCEPT ![p] = f] /\ UNCHANGED dialog
    BY <1>1, <1>11 DEF FlushHears
  <2> HIDE DEF f
  <2>4. flush'[p] = f /\ \A q \in Presses: q # p => flush'[q] = flush[q]
    BY <1>1, <2>3
  <2>5. EntriesOK(p)'
    BY <1>1, <2>1, <2>2, <2>3, <2>4 DEF EntriesOK, Entry, Here
  <2>6. \A q \in Presses: EntriesOK(q)'
    BY <1>1, <2>3, <2>4, <2>5, EntriesSame
  <2> QED BY <1>1, <2>3, <2>6 DEF DraftOK
<1>12. ASSUME NEW p \in Presses, FlushEnds(p) PROVE DraftOK'
  <2>1. ASSUME NEW q \in Presses PROVE EntriesOK(q)'
    <3>1. flush'[q] = IF q = p THEN None
                      ELSE IF q \in Sharing(p) THEN Stale(q)
                      ELSE IF q \in Here THEN Alone(q) ELSE flush[q]
      BY <1>12 DEF FlushEnds
    <3>2. CASE q = p
      BY <3>1, <3>2, EntriesStale
    <3>3. CASE q # p /\ q \in Sharing(p)
      <4>1. flush[q] \in Flushes
        BY <1>1, <3>3, FlushTypes
      <4> QED BY <3>1, <3>3, <4>1, StaleType, EntriesStale
    <3>4. CASE q # p /\ q \notin Sharing(p)
      BY <1>1, <3>1, <3>4, EntriesAlone, EntriesApart
    <3> QED BY <3>2, <3>3, <3>4
  <2> QED BY <1>12, <2>1 DEF FlushEnds, DraftOK, Closed
<1>13. ASSUME NEW p \in Presses, FlushThrows(p) PROVE DraftOK'
  <2>1. /\ flush'[p] = None /\ dialog' = dialog
        /\ \A q \in Presses: q # p => flush'[q] = flush[q]
    BY <1>1, <1>13 DEF FlushThrows
  <2>2. \A q \in Presses: EntriesOK(q)'
    BY <1>1, <2>1, EntriesSame, EntriesStale
  <2> QED BY <1>1, <2>1, <2>2 DEF DraftOK
<1> QED BY <1>3, <1>4, <1>5, <1>6, <1>7, <1>8, <1>9, <1>10, <1>11, <1>12, <1>13 DEF Next, FlushStep

LEMMA StepIInv == IInv /\ [Next]_vars => IInv'
<1> SUFFICES ASSUME IInv, [Next]_vars PROVE IInv'
  OBVIOUS
<1>1. CASE Next
  <2>1. TypeOK'
    BY <1>1, DialogTypes, ChainStep DEF TypeOK, TailOK
  <2> QED BY <1>1, <2>1, ChainStep, DraftStep DEF IInv
<1>2. CASE UNCHANGED vars
  <2>1. TypeOK'
    BY <1>2 DEF IInv, TypeOK, Live, vars, conf
  <2>2. LineOK' /\ TailOK' /\ FileOK'
    BY <1>2, ConfSame DEF vars
  <2>3. DraftOK'
    BY <1>2, EntriesSame DEF IInv, DraftOK, vars
  <2> QED BY <2>1, <2>2, <2>3 DEF IInv
<1> QED BY <1>1, <1>2

LEMMA Invariant == Spec => []IInv
<1>1. Init => IInv
  BY InitIInv
<1>2. IInv /\ [Next]_vars => IInv'
  BY StepIInv
<1> QED BY <1>1, <1>2, PTL DEF Spec

(* Every variable keeps its type, and the queue's entry is never a cycle   *)
(* that has ended.                                                         *)
THEOREM TypeCorrect == Spec => []TypeOK
<1>1. IInv => TypeOK
  BY DEF IInv
<1> QED BY <1>1, Invariant, PTL

----------------------------------------------------------------------------
(* The refinement                                                          *)

(* What AtomicConfig sees of one call.                                     *)
LEMMA Seen ==
  ASSUME NEW c \in Calls
  PROVE  outAsked[c] = IF edit[c].at = "idle" THEN None
                       ELSE [key |-> edit[c].key, to |-> edit[c].to,
                             turn |-> edit[c].turn, over |-> edit[c].at = "answers"]
  BY DEF outAsked, Idle

LEMMA SeenSame ==
  ASSUME NEW c \in Calls,
         edit'[c].key = edit[c].key, edit'[c].to = edit[c].to,
         edit'[c].turn = edit[c].turn,
         (edit'[c].at = "idle") <=> (edit[c].at = "idle"),
         (edit'[c].at = "answers") <=> (edit[c].at = "answers")
  PROVE  outAsked'[c] = outAsked[c]
<1>1. (edit'[c].at = "answers") = (edit[c].at = "answers")
  OBVIOUS
<1> QED BY <1>1 DEF outAsked, Idle

LEMMA PendingSeen ==
  ASSUME IInv, NEW c \in Calls
  PROVE  /\ Atomic!Pending(c) <=> Live(c)
         /\ Live(c) => outAsked[c].turn = edit[c].turn
         /\ edit[c].at = "answers" => outAsked[c] # None /\ outAsked[c].over
<1>1. edit[c] \in Edits
  BY DEF IInv, TypeOK
<1> DEFINE r == [key |-> edit[c].key, to |-> edit[c].to,
                 turn |-> edit[c].turn, over |-> edit[c].at = "answers"]
<1>2. r \in Atomic!Asked
  BY <1>1 DEF Edits, Atomic!Asked
<1>3. r # None /\ r.turn = edit[c].turn /\ r.over = (edit[c].at = "answers")
  BY <1>2, ConfAssumption DEF Atomic!Asked
<1>4. outAsked[c] = IF edit[c].at = "idle" THEN None ELSE r
  BY Seen
<1> HIDE DEF r
<1>5. edit[c].at \in Stages
  BY <1>1 DEF Edits
<1>6. CASE edit[c].at = "idle"
  BY <1>4, <1>6 DEF Atomic!Pending, Live
<1>7. CASE edit[c].at = "answers"
  BY <1>3, <1>4, <1>7 DEF Atomic!Pending, Live
<1>8. CASE edit[c].at \in {"waits", "read", "write"}
  BY <1>3, <1>4, <1>8 DEF Atomic!Pending, Live
<1> QED BY <1>5, <1>6, <1>7, <1>8 DEF Stages

(* An edit is asked for.                                                   *)
LEMMA SubmitAsks ==
  ASSUME IInv, NEW c \in Calls, NEW k \in Keys, NEW v \in Settings, Submit(c, k, v)
  PROVE  Atomic!Ask(c)
<1> DEFINE r == [key |-> k, to |-> v, turn |-> count + 1, over |-> FALSE]
<1>1. /\ edit[c].at = "idle" /\ text' = text
      /\ edit' = [edit EXCEPT ![c] = [at |-> "waits", key |-> k, to |-> v,
                                      turn |-> count + 1, after |-> tail,
                                      copy |-> Empty]]
      /\ edit \in [Calls -> Edits]
  BY DEF IInv, TypeOK, Submit, Idle
<1>2. count + 1 \in 0..MaxEdits /\ count \in Nat
  BY ConfAssumption DEF IInv, TypeOK, Submit
<1>3. outAsked[c] = None
  BY <1>1, Seen
<1>4. outAsked'[c] = r
  BY <1>1 DEF outAsked, Idle
<1>5. \A d \in Calls: d # c => outAsked'[d] = outAsked[d]
  BY <1>1 DEF outAsked, Idle
<1>6. outAsked' = [outAsked EXCEPT ![c] = r]
  BY <1>4, <1>5 DEF outAsked
<1>7. \A d \in Calls: Atomic!Pending(d) => outAsked[d].turn < count + 1
  <2> SUFFICES ASSUME NEW d \in Calls, Atomic!Pending(d)
               PROVE  outAsked[d].turn < count + 1
    OBVIOUS
  <2>1. Live(d) /\ outAsked[d].turn = edit[d].turn
    BY PendingSeen
  <2>2. edit[d].turn <= count /\ edit[d].turn \in Nat
    BY <2>1, ConfAssumption DEF IInv, LineOK, TypeOK, Edits
  <2> QED BY <1>2, <2>1, <2>2
<1>8. r \in Atomic!Asked /\ ~r.over /\ r.turn = count + 1
  BY <1>2 DEF Atomic!Asked
<1> HIDE DEF r
<1> QED BY <1>1, <1>3, <1>4, <1>6, <1>7, <1>8 DEF Atomic!Ask

LEMMA OverRecord ==
  ASSUME NEW k \in Keys, NEW v \in Settings, NEW t \in 0..MaxEdits, NEW r,
         r = [key |-> k, to |-> v, turn |-> t, over |-> FALSE]
  PROVE  [r EXCEPT !.over = TRUE] = [key |-> k, to |-> v, turn |-> t, over |-> TRUE]
<1> DEFINE e == [r EXCEPT !.over = TRUE]
           x == [key |-> k, to |-> v, turn |-> t, over |-> TRUE]
<1>1. r \in Atomic!Asked /\ x \in Atomic!Asked
  BY DEF Atomic!Asked
<1>2. e \in Atomic!Asked
  BY <1>1 DEF Atomic!Asked
<1>3. e.key = r.key /\ e.to = r.to /\ e.turn = r.turn
  BY <1>1 DEF Atomic!Asked
<1>4. e.over = TRUE
  BY <1>1 DEF Atomic!Asked
<1>5. x.key = r.key /\ x.to = r.to /\ x.turn = r.turn /\ x.over = TRUE
  OBVIOUS
<1> HIDE DEF e, x
<1>6. e = x
  BY <1>1, <1>2, <1>3, <1>4, <1>5 DEF Atomic!Asked
<1> QED BY <1>6 DEF e, x

(* Its cycle ends, and it was the first.                                   *)
LEMMA DoneIsOver ==
  ASSUME IInv, NEW c \in Calls, edit[c].at \in {"read", "write"}, Done(c)
  PROVE  Atomic!First(c) /\ Atomic!Over(c)
<1>1. Live(c) /\ \A d \in Calls: Live(d) => edit[c].turn <= edit[d].turn
  BY AtFileFirst
<1>2. Atomic!First(c)
  BY <1>1, PendingSeen DEF Atomic!First
<1>3. \A d \in Calls: edit[d] \in Edits
  BY DEF IInv, TypeOK
<1> DEFINE e == [edit[c] EXCEPT !.at = "answers", !.copy = Empty]
<1>4. /\ e.at = "answers" /\ e.key = edit[c].key /\ e.to = edit[c].to
      /\ e.turn = edit[c].turn
  BY <1>3 DEF Edits
<1>5. edit'[c] = e
  BY DEF Done
<1> HIDE DEF e
<1>6. \A d \in Calls: d # c => outAsked'[d] = outAsked[d]
  <2> SUFFICES ASSUME NEW d \in Calls, d # c PROVE outAsked'[d] = outAsked[d]
    OBVIOUS
  <2>1. CASE edit[d].after = c
    <3>1. edit'[d] = [edit[d] EXCEPT !.after = None]
      BY <2>1 DEF Done
    <3>2. /\ edit'[d].at = edit[d].at /\ edit'[d].key = edit[d].key
          /\ edit'[d].to = edit[d].to /\ edit'[d].turn = edit[d].turn
      BY <1>3, <3>1 DEF Edits
    <3> QED BY <3>2, SeenSame
  <2>2. CASE edit[d].after # c
    <3>1. edit'[d] = edit[d]
      BY <2>2 DEF Done
    <3> QED BY <3>1, SeenSame
  <2> QED BY <2>1, <2>2
<1>7. outAsked'[c] = [key |-> edit[c].key, to |-> edit[c].to,
                      turn |-> edit[c].turn, over |-> TRUE]
  BY <1>4, <1>5 DEF outAsked, Idle
<1>8. outAsked[c] = [key |-> edit[c].key, to |-> edit[c].to,
                     turn |-> edit[c].turn, over |-> FALSE]
  BY Seen
<1>9. outAsked'[c] = [outAsked[c] EXCEPT !.over = TRUE]
  <2>1. edit[c].key \in Keys /\ edit[c].to \in Settings /\ edit[c].turn \in 0..MaxEdits
    BY <1>3 DEF Edits
  <2> QED BY <1>7, <1>8, <2>1, OverRecord
<1>10. outAsked' = [outAsked EXCEPT ![c].over = TRUE]
  BY <1>6, <1>9 DEF outAsked
<1> QED BY <1>2, <1>10 DEF Atomic!Over

LEMMA EndMakes ==
  ASSUME IInv, NEW c \in Calls,
         NothingToRemove(c) \/ Fails(c) \/ WriteFile(c) \/ WriteTorn(c)
  PROVE  Atomic!Next
<1>1. Atomic!First(c) /\ Atomic!Over(c)
  BY EndsAtFile, DoneIsOver
<1>2. CASE NothingToRemove(c) \/ Fails(c)
  <2>1. Atomic!GiveUp(c)
    BY <1>1, <1>2 DEF NothingToRemove, Fails, Atomic!GiveUp
  <2> QED BY <2>1 DEF Atomic!Next
<1>3. CASE WriteFile(c)
  <2>1. edit[c].at = "write" /\ edit[c].copy = text
    BY <1>3 DEF WriteFile, IInv, FileOK
  <2>2. outAsked[c] = [key |-> edit[c].key, to |-> edit[c].to,
                       turn |-> edit[c].turn, over |-> edit[c].at = "answers"]
    BY <2>1, Seen
  <2>3. text' = [text EXCEPT ![outAsked[c].key] = outAsked[c].to]
    BY <1>3, <2>1, <2>2 DEF WriteFile
  <2>4. Atomic!Make(c)
    BY <1>1, <2>3 DEF Atomic!Make
  <2> QED BY <2>4 DEF Atomic!Next
<1>4. CASE WriteTorn(c)
  <2>1. Atomic!BreakOff(c)
    BY <1>1, <1>4 DEF WriteTorn, Empty, Atomic!BreakOff
  <2> QED BY <2>1 DEF Atomic!Next
<1> QED BY <1>2, <1>3, <1>4

LEMMA AnswerAnswers ==
  ASSUME IInv, NEW c \in Calls, edit[c].at = "answers",
         edit' = [edit EXCEPT ![c] = Free], text' = text
  PROVE  Atomic!Answer(c)
<1>1. outAsked[c] # None /\ outAsked[c].over
  BY PendingSeen
<1>2. edit'[c].at = "idle" /\ \A d \in Calls: d # c => edit'[d] = edit[d]
  BY DEF IInv, TypeOK, Free
<1>3. outAsked'[c] = None
  BY <1>2 DEF outAsked, Idle
<1>4. \A d \in Calls: d # c => outAsked'[d] = outAsked[d]
  BY <1>2, SeenSame
<1>5. outAsked' = [outAsked EXCEPT ![c] = None]
  BY <1>3, <1>4 DEF outAsked
<1> QED BY <1>1, <1>5 DEF Atomic!Answer

(* A cycle that starts, and reads, is not seen.                            *)
LEMMA InnerUnseen ==
  ASSUME IInv, NEW c \in Calls, Begin(c) \/ ReadFile(c)
  PROVE  UNCHANGED <<text, outAsked>>
<1>1. edit[c] \in Edits /\ edit \in [Calls -> Edits] /\ text' = text
  BY DEF IInv, TypeOK, Begin, ReadFile
<1>2. /\ \A d \in Calls: d # c => edit'[d] = edit[d]
      /\ edit'[c].key = edit[c].key /\ edit'[c].to = edit[c].to
      /\ edit'[c].turn = edit[c].turn
      /\ {edit[c].at, edit'[c].at} \subseteq {"waits", "read", "write"}
  <2>1. CASE Begin(c)
    <3>1. edit' = [edit EXCEPT ![c] = [edit[c] EXCEPT !.at = "read"]] /\ edit[c].at = "waits"
      BY <1>1, <2>1 DEF Begin
    <3> QED BY <1>1, <3>1 DEF Edits
  <2>2. CASE ReadFile(c)
    <3>1. edit' = [edit EXCEPT ![c] = [edit[c] EXCEPT !.at = "write", !.copy = text]]
          /\ edit[c].at = "read"
      BY <1>1, <2>2 DEF ReadFile
    <3> QED BY <1>1, <3>1 DEF Edits
  <2> QED BY <2>1, <2>2
<1>3. \A d \in Calls: outAsked'[d] = outAsked[d]
  BY <1>2, SeenSame
<1>4. outAsked' = outAsked
  BY <1>3 DEF outAsked
<1> QED BY <1>1, <1>4

LEMMA ConfUnseen ==
  ASSUME UNCHANGED conf
  PROVE  UNCHANGED <<text, outAsked>>
  BY DEF conf, outAsked, Idle

LEMMA StepMaps ==
  ASSUME IInv, Next
  PROVE  Atomic!Next \/ UNCHANGED <<text, outAsked>>
<1> DEFINE Goal == Atomic!Next \/ UNCHANGED <<text, outAsked>>
<1>1. ASSUME NEW c \in Calls, Cycle(c) PROVE Goal
  BY <1>1, InnerUnseen, EndMakes DEF Cycle
<1>2. ASSUME NEW c \in Calls, ToolCall(c) PROVE Goal
  BY <1>2, SubmitAsks DEF ToolCall, Atomic!Next
<1>3. ASSUME NEW c \in Calls, ToolAnswer(c) PROVE Goal
  BY <1>3, AnswerAnswers DEF ToolAnswer, Atomic!Next
<1>4. ASSUME NEW p \in Presses, FlushHears(p) PROVE Goal
  <2>1. flush[p] \in Flushes /\ flush[p].call # None
    BY <1>4 DEF IInv, TypeOK, FlushHears
  <2>2. flush[p].call \in Calls
    BY <2>1 DEF Flushes
  <2> QED BY <1>4, <2>2, AnswerAnswers DEF FlushHears, Atomic!Next
<1>5. ASSUME NEW p \in Presses, NEW k \in Keys, NEW c \in Calls, FlushHands(p, k, c)
      PROVE  Goal
  <2>1. Entry(p, k) \in Settings
    BY <1>5, HandsSetting
  <2> QED BY <1>5, <2>1, SubmitAsks DEF FlushHands, Atomic!Next
<1>6. ASSUME NEW p \in Presses, Save(p) \/ FlushEnds(p) \/ FlushThrows(p) PROVE Goal
  BY <1>6, ConfUnseen DEF Save, FlushEnds, FlushThrows
<1>7. CASE OpenDialog \/ Cancel \/ Escape \/ SaveNothing
  BY <1>7, ConfUnseen DEF OpenDialog, Cancel, Escape, SaveNothing
<1>8. CASE \E k \in Keys, v \in Settings: EditDraft(k, v)
  BY <1>8, ConfUnseen DEF EditDraft
<1>9. CASE \E c \in Calls: Cycle(c) \/ ToolCall(c) \/ ToolAnswer(c)
  BY <1>1, <1>2, <1>3, <1>9
<1>10. CASE \E p \in Presses: FlushStep(p)
  BY <1>4, <1>5, <1>6, <1>10 DEF FlushStep
<1> QED BY <1>6, <1>7, <1>8, <1>9, <1>10 DEF Next

(* The queue implements edits that are made at once and in turn: no edit   *)
(* is lost to another one, whatever overlaps.                              *)
THEOREM Refines == Spec => EditsAreAtomic
<1>1. Init => Atomic!Init
  <2> SUFFICES ASSUME Init PROVE Atomic!Init
    OBVIOUS
  <2>1. \A c \in Calls: edit[c].at = "idle"
    BY DEF Init, Free
  <2>2. outAsked = [c \in Calls |-> None]
    BY <2>1 DEF outAsked, Idle
  <2> QED BY <2>2 DEF Init, Atomic!Init
<1>2. IInv /\ [Next]_vars => [Atomic!Next]_<<text, outAsked>>
  BY StepMaps, ConfUnseen DEF vars
<1>3. IInv /\ [Next]_vars => [Atomic!Next]_(Atomic!avars)
  BY <1>2 DEF Atomic!avars
<1> QED BY <1>1, <1>3, Invariant, PTL DEF Spec, EditsAreAtomic, Atomic!Spec

----------------------------------------------------------------------------
(* What Save leaves behind                                                 *)

(* What was edited before Save is in the draft, and in what is left to any *)
(* flush whose iteration is still good.                                    *)
UnsavedOK ==
  /\ \A k \in unsaved: dialog.draft[k] # NoEdit
  /\ \A p \in Presses: flush[p] # None /\ ~flush[p].stale => unsaved \subseteq flush[p].left

LEMMA UnsavedStep ==
  ASSUME IInv, UnsavedOK, [Next]_vars
  PROVE  UnsavedOK'
<1>1. /\ dialog \in [open: BOOLEAN, draft: Drafts]
      /\ flush \in [Presses -> {None} \cup Flushes]
      /\ unsaved \subseteq Keys
      /\ \A p \in Presses: flush[p] # None => flush[p] \in Flushes
  BY DEF IInv, TypeOK
<1>2. CASE UNCHANGED <<dialog, flush, unsaved>>
  BY <1>2 DEF UnsavedOK
<1>3. CASE OpenDialog
  BY <1>1, <1>3 DEF OpenDialog, IInv, DraftOK, UnsavedOK
<1>4. CASE Cancel
  BY <1>4 DEF Cancel, UnsavedOK
<1>15. CASE Escape
  BY <1>15 DEF Escape, UnsavedOK
<1>5. CASE SaveNothing
  BY <1>1, <1>5 DEF SaveNothing, UnsavedOK
<1>6. ASSUME NEW k \in Keys, NEW v \in Settings, EditDraft(k, v) PROVE UnsavedOK'
  <2> DEFINE d == [dialog.draft EXCEPT ![k] = v]
  <2>1. d[k] # NoEdit /\ \A j \in Keys: j # k => d[j] = dialog.draft[j]
    BY <1>1, ConfAssumption DEF Drafts
  <2>2. dialog'.draft = d
    BY <1>1, <1>6 DEF EditDraft
  <2> HIDE DEF d
  <2>3. unsaved' \subseteq unsaved \cup {k} /\ (Flushing => unsaved' \subseteq unsaved)
    BY <1>6 DEF EditDraft
  <2>4. \A j \in unsaved': dialog'.draft[j] # NoEdit
    BY <1>1, <2>1, <2>2, <2>3 DEF UnsavedOK
  <2>5. CASE flush' = flush
    BY <2>3, <2>4, <2>5 DEF UnsavedOK, Flushing
  <2>6. CASE flush' = AllStale
    <3>1. ASSUME NEW q \in Presses, flush'[q] # None, ~flush'[q].stale
          PROVE  unsaved' \subseteq flush'[q].left
      BY <2>3, <2>6, <3>1, StaleAll DEF UnsavedOK, Flushing
    <3> QED BY <2>4, <3>1 DEF UnsavedOK
  <2> QED BY <1>6, <2>5, <2>6 DEF EditDraft
<1>7. ASSUME NEW p \in Presses, Save(p) PROVE UnsavedOK'
  <2> DEFINE f == [left |-> {k \in Keys: dialog.draft[k] # NoEdit},
                   call |-> None, stale |-> FALSE, own |-> NoDraft, mates |-> {}]
  <2>1. unsaved \subseteq f.left
    BY <1>1 DEF UnsavedOK
  <2>2. flush' = [flush EXCEPT ![p] = f] /\ UNCHANGED <<dialog, unsaved>>
    BY <1>7 DEF Save
  <2> HIDE DEF f
  <2> QED BY <1>1, <2>1, <2>2 DEF UnsavedOK
<1>8. ASSUME NEW p \in Presses, NEW k \in Keys, NEW c \in Calls, FlushHands(p, k, c)
      PROVE  UnsavedOK'
  <2> DEFINE f == [flush[p] EXCEPT !.left = @ \ {k}, !.own[k] = NoEdit, !.call = c]
  <2>1. flush[p] # None /\ flush[p] \in Flushes
    BY <1>1, <1>8 DEF FlushHands
  <2>2. f.left = flush[p].left \ {k} /\ f.stale = flush[p].stale
    BY <2>1 DEF Flushes
  <2>3. flush' = [flush EXCEPT ![p] = f] /\ UNCHANGED dialog /\ unsaved' = unsaved \ {k}
    BY <1>1, <1>8, <2>1 DEF FlushHands, Flushes
  <2> HIDE DEF f
  <2> QED BY <1>1, <2>1, <2>2, <2>3 DEF UnsavedOK
<1>9. ASSUME NEW p \in Presses, FlushHears(p) PROVE UnsavedOK'
  <2> DEFINE f == [flush[p] EXCEPT !.call = None]
  <2>1. flush[p] # None /\ flush[p] \in Flushes
    BY <1>1, <1>9 DEF FlushHears
  <2>2. f.left = flush[p].left /\ f.stale = flush[p].stale
    BY <2>1 DEF Flushes
  <2>3. flush' = [flush EXCEPT ![p] = f] /\ UNCHANGED <<dialog, unsaved>>
    BY <1>1, <1>9 DEF FlushHears
  <2> HIDE DEF f
  <2> QED BY <1>1, <2>1, <2>2, <2>3 DEF UnsavedOK
<1>10. ASSUME NEW p \in Presses, FlushEnds(p) PROVE UnsavedOK'
  BY <1>10 DEF FlushEnds, UnsavedOK
<1>11. ASSUME NEW p \in Presses, FlushThrows(p) PROVE UnsavedOK'
  BY <1>1, <1>11 DEF FlushThrows, UnsavedOK
<1>12. CASE \E c \in Calls: Cycle(c) \/ ToolCall(c) \/ ToolAnswer(c)
  BY <1>2, <1>12 DEF Cycle, ToolCall, ToolAnswer
<1>13. CASE \E p \in Presses: Save(p) \/ FlushStep(p)
  BY <1>7, <1>8, <1>9, <1>10, <1>11, <1>13 DEF FlushStep
<1>14. CASE UNCHANGED vars
  BY <1>2, <1>14 DEF vars
<1> QED BY <1>3, <1>4, <1>5, <1>6, <1>12, <1>13, <1>14, <1>15 DEF Next

(* A step that closes the dialog, but for Cancel and Escape, ends a flush  *)
(* that has nothing left, or a Save with nothing to write.                 *)
LEMMA ClosesSaved ==
  ASSUME IInv, UnsavedOK, [Next]_vars, dialog.open, ~dialog'.open
  PROVE  Cancel \/ Escape \/ unsaved = {}
<1>1. dialog \in [open: BOOLEAN, draft: Drafts] /\ unsaved \subseteq Keys
  BY DEF IInv, TypeOK
<1>2. CASE SaveNothing
  BY <1>1, <1>2 DEF SaveNothing, UnsavedOK, NoDraft
<1>3. ASSUME NEW p \in Presses, FlushEnds(p) PROVE unsaved = {}
  BY <1>3 DEF FlushEnds, UnsavedOK
<1>4. ASSUME UNCHANGED dialog PROVE FALSE
  BY <1>4
<1>5. CASE \E c \in Calls: Cycle(c) \/ ToolCall(c) \/ ToolAnswer(c)
  BY <1>4, <1>5 DEF Cycle, ToolCall, ToolAnswer
<1>6. ~OpenDialog
  BY DEF OpenDialog
<1>7. ASSUME NEW k \in Keys, NEW v \in Settings, EditDraft(k, v) PROVE FALSE
  BY <1>1, <1>7 DEF EditDraft
<1>8. ASSUME NEW p \in Presses, Save(p) \/ FlushStep(p) PROVE unsaved = {}
  BY <1>3, <1>4, <1>8 DEF Save, FlushStep, FlushHands, FlushHears, FlushThrows
<1>9. CASE UNCHANGED vars
  BY <1>4, <1>9 DEF vars
<1> QED BY <1>2, <1>5, <1>6, <1>7, <1>8, <1>9 DEF Next

(* The dialog closes on Cancel or Escape, or when all that was edited while*)
(* no Save was running has been handed to the queue.                       *)
THEOREM SaveSaves == Spec => OnlyLateEditsDropped
<1>1. Init => UnsavedOK
  BY DEF Init, UnsavedOK
<1>2. IInv /\ UnsavedOK /\ [Next]_vars => UnsavedOK'
  BY UnsavedStep
<1>3. IInv /\ UnsavedOK /\ [Next]_vars =>
        [dialog.open /\ ~dialog'.open => Cancel \/ Escape \/ unsaved = {}]_vars
  BY ClosesSaved
<1> QED BY <1>1, <1>2, <1>3, Invariant, PTL DEF Spec, OnlyLateEditsDropped
=============================================================================
