--------------------------- MODULE ExecutionBroker ---------------------------
(***************************************************************************)
(* lib/api/execution/broker.dart: the one place the application starts     *)
(* child processes from.  A captured call (run) has a timeout and reaps    *)
(* its child; a streamed one (runStream) has none.  Both write an audit    *)
(* entry when they start and replace "the last entry" when they end, with  *)
(* awaits in between, so requests in flight together share the log.        *)
(*                                                                         *)
(* A request is a model value; the policy's verdict on it is the constant  *)
(* Blocked.  Output bytes, durations and timestamps are not modelled.      *)
(***************************************************************************)
EXTENDS Naturals, Sequences, FiniteSets

CONSTANTS
  Calls,      \* requests handed to run()
  Streams,    \* requests handed to runStream()
  Blocked,    \* requests _checkPolicy refuses
  MaxClears   \* bound: how often clearAuditLog() is called

Requests == Calls \cup Streams

ASSUME RequestAssumption ==
  /\ IsFiniteSet(Requests)
  /\ Calls \cap Streams = {}
  /\ Blocked \subseteq Requests
  /\ MaxClears \in Nat

VARIABLES
  log,      \* _auditLog
  pc,       \* where each request's async body stands
  child,    \* the process each request started
  events,   \* what a stream's controller has been given, in order
  clears,   \* clearAuditLog() calls so far
  beside    \* history: the requests in flight when each one ended

vars == <<log, pc, child, events, clears, beside>>

Stages == {"idle", "rejected", "spawning", "running", "reaping", "done", "threw"}

(* "held": the child has exited but a descendant still holds its pipes;    *)
(* "eof": exited and both pipes are at their end; "killed": SIGKILL sent.  *)
ChildStates == {"none", "alive", "held", "eof", "killed"}
Severities == {"info", "error"}

Entry(r, s) == [request |-> r, status |-> s]
Entries == [request: Requests, status: {"pending"} \cup Severities]

InFlight == {r \in Requests: pc[r] \in {"spawning", "running", "reaping"}}

Init ==
  /\ log = <<>>
  /\ pc = [r \in Requests |-> "idle"]
  /\ child = [r \in Requests |-> "none"]
  /\ events = [r \in Streams |-> <<>>]
  /\ clears = 0
  /\ beside = [r \in Requests |-> {}]

(* Mutants: the pending line is kept, or the first line is taken for it.   *)
ReplaceNothing(r, s) == log' = Append(log, Entry(r, s))
ReplaceFirst(r, s) == log' = Append(Tail(log), Entry(r, s))

(* The two lines every way out of a request shares: removeLast, then add.  *)
ReplaceLast(r, s) ==
  log' = Append(SubSeq(log, 1, Len(log) - 1), Entry(r, s))

(* r leaves: its result is on record, or removeLast threw on an empty log  *)
(* where nothing is left to catch it: run()'s future fails, a stream's     *)
(* controller is never closed.                                             *)
Leave(r, s) ==
  /\ beside' = [beside EXCEPT ![r] = InFlight \ {r}]
  /\ IF log = <<>>
       THEN pc' = [pc EXCEPT ![r] = "threw"] /\ UNCHANGED log
       ELSE pc' = [pc EXCEPT ![r] = "done"] /\ ReplaceLast(r, s)

(* The policy is asked before the audit entry is written.                  *)
Submit(r) ==
  /\ pc[r] = "idle"
  /\ IF r \in Blocked
       THEN pc' = [pc EXCEPT ![r] = "rejected"] /\ UNCHANGED log
       ELSE /\ pc' = [pc EXCEPT ![r] = "spawning"]
            /\ log' = Append(log, Entry(r, "pending"))
  /\ UNCHANGED <<child, events, clears, beside>>

(* _shell.start hands the process back.                                    *)
Spawn(r) ==
  /\ pc[r] = "spawning"
  /\ pc' = [pc EXCEPT ![r] = "running"]
  /\ child' = [child EXCEPT ![r] = "alive"]
  /\ events' = IF r \in Streams THEN [events EXCEPT ![r] = Append(@, "started")]
                                ELSE events
  /\ UNCHANGED <<log, clears, beside>>

(* Mutant: "started" is only said once the process is there.               *)
SaidLate == <<"error">>

(* What a stream whose process did not start has said.                     *)
SaidOnFailedStart == <<"started", "error">>

(* _shell.start throws: straight to the catch block.                       *)
SpawnFails(r) ==
  /\ pc[r] = "spawning"
  /\ events' = IF r \in Streams THEN [events EXCEPT ![r] = SaidOnFailedStart]
                                ELSE events
  /\ Leave(r, "error")
  /\ UNCHANGED <<child, clears>>

(* The success path.  On a cleared log its removeLast throws into the      *)
(* catch block, whose own throws again; a stream has said "exited" by then.*)
Finish(r, s) ==
  /\ pc[r] = "running"
  /\ IF r \in Calls THEN child[r] = "eof" ELSE child[r] \in {"held", "eof"}
  /\ Leave(r, s)
  /\ events' =
       IF r \in Calls THEN events
       ELSE [events EXCEPT ![r] = @ \o
               IF log = <<>> THEN <<"exited", "error">> ELSE <<"exited">>]
  /\ UNCHANGED <<child, clears>>

(* Mutant: only the drain is under the timeout, not the exit code.         *)
OverdueDraining(c) == c = "held"

(* completion is what the timeout is on: the exit code and both pipes.     *)
Overdue(c) == c # "eof"

(* completion.timeout fires: terminate() sends the first signal and waits. *)
Timeout(r) ==
  /\ r \in Calls
  /\ pc[r] = "running"
  /\ Overdue(child[r])
  /\ pc' = [pc EXCEPT ![r] = "reaping"]
  /\ UNCHANGED <<log, child, events, clears, beside>>

(* Mutants: the escalation is forgotten.                                   *)
OnlyWait(c) == c

AfterTerminate(c) == IF c = "alive" THEN "killed" ELSE c

(* terminate() returns: the child went by itself, or its two seconds are   *)
(* over and it is sent SIGKILL.  The TimeoutException reaches the catch.   *)
Reap(r) ==
  /\ pc[r] = "reaping"
  /\ child' = [child EXCEPT ![r] = AfterTerminate(@)]
  /\ Leave(r, "error")
  /\ UNCHANGED <<events, clears>>

ClearAuditLog ==
  /\ clears < MaxClears
  /\ clears' = clears + 1
  /\ log' = <<>>
  /\ UNCHANGED <<pc, child, events, beside>>

(* The child itself: it exits, with or without a descendant on its pipes.  *)
ChildExits(r) ==
  /\ child[r] = "alive"
  /\ \E s \in {"held", "eof"}: child' = [child EXCEPT ![r] = s]
  /\ UNCHANGED <<log, pc, events, clears, beside>>

PipesClose(r) ==
  /\ child[r] = "held"
  /\ child' = [child EXCEPT ![r] = "eof"]
  /\ UNCHANGED <<log, pc, events, clears, beside>>

Ends(r) == Reap(r) \/ \E s \in Severities: Finish(r, s)
Starts(r) == Spawn(r) \/ SpawnFails(r)

Next ==
  \/ \E r \in Requests:
       Submit(r) \/ Starts(r) \/ Timeout(r) \/ Ends(r) \/ ChildExits(r) \/ PipesClose(r)
  \/ ClearAuditLog

(* The event loop runs what is ready and a timer fires; nobody has to      *)
(* submit a request or clear the log, and a child need never exit.         *)
Fairness ==
  \A r \in Requests: WF_vars(Starts(r)) /\ WF_vars(Timeout(r)) /\ WF_vars(Ends(r))

Spec == Init /\ [][Next]_vars /\ Fairness
-----------------------------------------------------------------------------
TypeOK ==
  /\ log \in Seq(Entries)
  /\ pc \in [Requests -> Stages]
  /\ child \in [Requests -> ChildStates]
  /\ events \in [Streams -> Seq({"started", "exited", "error"})]
  /\ clears \in 0..MaxClears
  /\ beside \in [Requests -> SUBSET Requests]

Submitted == {r \in Requests: pc[r] \notin {"idle", "rejected"}}
EntriesOf(r) == {i \in DOMAIN log: log[i].request = r}
FinalOf(r) == {i \in EntriesOf(r): log[i].status # "pending"}

(* While nobody clears it, the log has one line per request that passed    *)
(* the policy, however the requests overlap (test/wsl_test.dart counts on  *)
(* it), although what the lines say may be wrong.                          *)
OneLinePerAttempt == clears = 0 => Len(log) = Cardinality(Submitted)

(* A request's outcome is in the log, once, until somebody clears it or a  *)
(* request that was in flight when it was written ends in its turn: the    *)
(* price of replacing "the last entry", and all of it.                     *)
OutcomeKeptUntilOverlapEnds ==
  \A r \in Requests:
    (pc[r] = "done" /\ clears = 0 /\ beside[r] \subseteq InFlight)
      => Cardinality(FinalOf(r)) = 1

(* broker.dart:217: a call that has returned, with whatever result, has no *)
(* child it did not at least send SIGKILL.                                 *)
NoChildOutlivesItsCall ==
  \A r \in Requests: pc[r] \in {"done", "threw"} => child[r] # "alive"

(* While nobody clears the log a stream says "started" first and ends with *)
(* one terminal event.                                                     *)
OneTerminalEvent ==
  \A r \in Streams:
    /\ events[r] # <<>> => events[r][1] = "started"
    /\ clears = 0 => Len(events[r]) <= 2
    /\ pc[r] = "done" => events[r] \in {<<"started", "exited">>, <<"started", "error">>}

(* A call returns in the end, also when its child never exits.             *)
CallsReturn == \A r \in Calls: pc[r] = "spawning" ~> pc[r] \in {"done", "threw"}
=============================================================================
