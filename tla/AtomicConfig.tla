---------------------------- MODULE AtomicConfig ----------------------------
(***************************************************************************)
(* What editing a configuration file key by key promises: each edit        *)
(* changes its own key and nothing else, at once, while its call is out,   *)
(* and edits that are out together are made in the order they were asked   *)
(* for.  An edit that fails may still have been made, or have emptied the  *)
(* file when its write broke off.                                          *)
(***************************************************************************)
EXTENDS Naturals

CONSTANTS
  Calls, Keys, Settings,
  Turns,  \* the order of the edits, a set of numbers
  Unset, None

VARIABLES
  text,   \* [Keys -> Settings]: the file
  out     \* [Calls -> None or the edit that was asked for]

avars == <<text, out>>

(* over: made or given up. *)
Asked == [key: Keys, to: Settings, turn: Turns, over: BOOLEAN]

Init ==
  /\ text \in [Keys -> Settings]
  /\ out = [c \in Calls |-> None]

Pending(c) == out[c] # None /\ ~out[c].over
Over(c) == out' = [out EXCEPT ![c].over = TRUE]

(* The edit whose turn it is. *)
First(c) == Pending(c) /\ \A d \in Calls: Pending(d) => out[c].turn <= out[d].turn

Ask(c) ==
  /\ out[c] = None
  /\ out'[c] \in Asked /\ ~out'[c].over
  /\ \A d \in Calls: Pending(d) => out[d].turn < out'[c].turn
  /\ out' = [out EXCEPT ![c] = out'[c]]
  /\ UNCHANGED text

Make(c) ==
  /\ First(c) /\ Over(c)
  /\ text' = [text EXCEPT ![out[c].key] = out[c].to]

GiveUp(c) ==
  /\ First(c) /\ Over(c)
  /\ UNCHANGED text

BreakOff(c) ==
  /\ First(c) /\ Over(c)
  /\ text' = [k \in Keys |-> Unset]

Answer(c) ==
  /\ out[c] # None /\ out[c].over
  /\ out' = [out EXCEPT ![c] = None]
  /\ UNCHANGED text

Next == \E c \in Calls: Ask(c) \/ Make(c) \/ GiveUp(c) \/ BreakOff(c) \/ Answer(c)

Spec == Init /\ [][Next]_avars
=============================================================================
