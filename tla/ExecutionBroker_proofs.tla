------------------------ MODULE ExecutionBroker_proofs ------------------------
(***************************************************************************)
(* What the audit log of the execution broker keeps, for any number of     *)
(* overlapping requests.                                                   *)
(***************************************************************************)
EXTENDS ExecutionBroker, FiniteSetTheorems, SequenceTheorems, TLAPS

LEMMA PrefixFacts ==
  ASSUME NEW S, NEW s \in Seq(S), NEW n \in Nat, n <= Len(s)
  PROVE  /\ SubSeq(s, 1, n) \in Seq(S)
         /\ Len(SubSeq(s, 1, n)) = n
         /\ \A i \in 1..n: SubSeq(s, 1, n)[i] = s[i]
<1>1. \A i \in 1..n: s[i] \in S
  OBVIOUS
<1>2. SubSeq(s, 1, n) \in Seq(S)
  BY <1>1
<1>3. Len(SubSeq(s, 1, n)) = n
  BY <1>1, SMTT(60)
<1>4. \A i \in 1..n: SubSeq(s, 1, n)[i] = s[i]
  OBVIOUS
<1> QED
  BY <1>2, <1>3, <1>4

(* Replacing the last line of a non-empty log touches no other line.       *)
LEMMA ReplaceLastFacts ==
  ASSUME NEW s \in Seq(Entries), s # <<>>, NEW e \in Entries
  PROVE  LET t == Append(SubSeq(s, 1, Len(s) - 1), e)
         IN  /\ t \in Seq(Entries)
             /\ Len(t) = Len(s)
             /\ Len(s) \in Nat \ {0}
             /\ t[Len(s)] = e
             /\ \A i \in 1..(Len(s) - 1): t[i] = s[i]
<1>1. Len(s) \in Nat \ {0}
  OBVIOUS
<1> DEFINE u == SubSeq(s, 1, Len(s) - 1)
<1>2. /\ u \in Seq(Entries)
      /\ Len(u) = Len(s) - 1
      /\ \A i \in 1..(Len(s) - 1): u[i] = s[i]
  <2>1. Len(s) - 1 \in Nat /\ Len(s) - 1 <= Len(s)
    BY <1>1
  <2> QED BY <2>1, PrefixFacts, Zenon
<1> HIDE DEF u
<1>3. LET t == Append(u, e)
      IN  /\ t \in Seq(Entries)
          /\ Len(t) = Len(s)
          /\ t[Len(s)] = e
          /\ \A i \in 1..(Len(s) - 1): t[i] = s[i]
  BY <1>1, <1>2
<1> QED
  BY <1>1, <1>3 DEF u

LEMMA EntryTyped == ASSUME NEW r \in Requests, NEW s \in {"pending"} \cup Severities
                    PROVE  Entry(r, s) \in Entries
BY DEF Entry, Entries

-----------------------------------------------------------------------------
LEMMA TypeStep == TypeOK /\ [Next]_vars => TypeOK'
<1> SUFFICES ASSUME TypeOK, [Next]_vars PROVE TypeOK'
  OBVIOUS
<1>1. ASSUME NEW r \in Requests, NEW s \in Severities, Leave(r, s)
      PROVE  /\ log' \in Seq(Entries)
             /\ pc' \in [Requests -> Stages]
             /\ beside' \in [Requests -> SUBSET Requests]
  <2>1. Entry(r, s) \in Entries
    BY <1>1, EntryTyped
  <2>2. CASE log = <<>>
    BY <1>1, <2>2 DEF Leave, TypeOK, Stages, InFlight
  <2>3. CASE log # <<>>
    BY <1>1, <2>1, <2>3, ReplaceLastFacts DEF Leave, ReplaceLast, TypeOK, Stages, InFlight
  <2> QED
    BY <2>2, <2>3
<1>2. ASSUME NEW r \in Requests, Submit(r) PROVE TypeOK'
  <2>1. Entry(r, "pending") \in Entries
    BY EntryTyped
  <2>2. log' \in Seq(Entries)
    BY <1>2, <2>1 DEF Submit, TypeOK
  <2>3. pc' \in [Requests -> Stages]
    BY <1>2 DEF Submit, TypeOK, Stages
  <2> QED
    BY <1>2, <2>2, <2>3 DEF Submit, TypeOK
<1>3. ASSUME NEW r \in Requests, Spawn(r) PROVE TypeOK'
  BY <1>3 DEF Spawn, TypeOK, Stages, ChildStates
<1>4. ASSUME NEW r \in Requests, SpawnFails(r) PROVE TypeOK'
  <2>1. Leave(r, "error")
    BY <1>4 DEF SpawnFails
  <2>2. events' \in [Streams -> Seq({"started", "exited", "error"})]
    BY <1>4 DEF SpawnFails, TypeOK, SaidOnFailedStart
  <2> QED
    BY <1>1, <1>4, <2>1, <2>2 DEF SpawnFails, TypeOK, Severities
<1>5. ASSUME NEW r \in Requests, NEW s \in Severities, Finish(r, s) PROVE TypeOK'
  <2>1. CASE r \in Calls
    <3>1. events' = events
      BY <1>5, <2>1 DEF Finish
    <3> QED BY <1>1, <1>5, <3>1 DEF Finish, TypeOK
  <2>2. CASE r \notin Calls
    <3> DEFINE word == IF log = <<>> THEN <<"exited", "error">> ELSE <<"exited">>
    <3>1. word \in Seq({"started", "exited", "error"})
      <4>1. <<"exited", "error">> \in Seq({"started", "exited", "error"})
        OBVIOUS
      <4>2. <<"exited">> \in Seq({"started", "exited", "error"})
        OBVIOUS
      <4> QED BY <4>1, <4>2, Zenon
    <3>2. events' = [events EXCEPT ![r] = @ \o word]
      BY <1>5, <2>2 DEF Finish
    <3>3. events' \in [Streams -> Seq({"started", "exited", "error"})]
      <4> HIDE DEF word
      <4> QED BY <2>2, <3>1, <3>2 DEF TypeOK, Requests
    <3> QED BY <1>1, <1>5, <3>3 DEF Finish, TypeOK
  <2> QED
    BY <2>1, <2>2
<1>6. ASSUME NEW r \in Requests, Timeout(r) PROVE TypeOK'
  BY <1>6 DEF Timeout, TypeOK, Stages
<1>7. ASSUME NEW r \in Requests, Reap(r) PROVE TypeOK'
  <2>1. Leave(r, "error")
    BY <1>7 DEF Reap
  <2> QED
    BY <1>1, <1>7, <2>1 DEF Reap, TypeOK, Severities, AfterTerminate, ChildStates
<1>8. ASSUME NEW r \in Requests, ChildExits(r) \/ PipesClose(r) PROVE TypeOK'
  BY <1>8 DEF ChildExits, PipesClose, TypeOK, ChildStates
<1>9. CASE ClearAuditLog
  BY <1>9, RequestAssumption DEF ClearAuditLog, TypeOK
<1>10. CASE UNCHANGED vars
  BY <1>10 DEF vars, TypeOK
<1> QED
  BY <1>2, <1>3, <1>4, <1>5, <1>6, <1>7, <1>8, <1>9, <1>10 DEF Next, Starts, Ends

(* The type invariant of the broker's state.                               *)
THEOREM TypeCorrect == Spec => []TypeOK
<1>1. Init => TypeOK
  BY RequestAssumption DEF Init, TypeOK, Stages, ChildStates
<1>2. TypeOK /\ [Next]_vars => TypeOK'
  BY TypeStep
<1> QED
  BY <1>1, <1>2, PTL DEF Spec

-----------------------------------------------------------------------------
(* The invariant that makes OutcomeKeptUntilOverlapEnds inductive: while    *)
(* the antecedent holds, a request in flight that was not so when r ended  *)
(* was submitted later, so r's line is no longer the last one.             *)
Unwritten(r) == pc[r] # "done" => FinalOf(r) = {}
BesideStarted(r) == \A q \in beside[r]: pc[q] \notin {"idle", "rejected"}
Kept(r) ==
  (pc[r] = "done" /\ clears = 0 /\ beside[r] \subseteq InFlight)
    => \E i \in 1..Len(log): /\ FinalOf(r) = {i}
                             /\ InFlight \ beside[r] # {} => i < Len(log)
LogInv == \A r \in Requests: Unwritten(r) /\ BesideStarted(r) /\ Kept(r)

Finals(l, r) == {i \in 1..Len(l): l[i].request = r /\ l[i].status # "pending"}

LEMMA FinalsOf ==
  /\ log \in Seq(Entries) => \A r: FinalOf(r) = Finals(log, r)
  /\ log' \in Seq(Entries) => \A r: FinalOf(r)' = Finals(log', r)
BY DEF FinalOf, EntriesOf, Finals

LEMMA LeaveStep ==
  ASSUME TypeOK, LogInv, NEW q \in Requests, NEW s \in Severities,
         q \in InFlight, Leave(q, s), clears' = clears
  PROVE  LogInv'
<1> SUFFICES ASSUME NEW r \in Requests
             PROVE  Unwritten(r)' /\ BesideStarted(r)' /\ Kept(r)'
  BY DEF LogInv
<1>1. pc[q] \notin {"idle", "rejected", "done"}
  BY DEF InFlight
<1>2. pc' \in [Requests -> {"idle", "rejected", "spawning", "running", "reaping", "done", "threw"}]
  BY DEF Leave, TypeOK, Stages
<1>3. BesideStarted(r)'
  BY <1>1 DEF LogInv, BesideStarted, Leave, TypeOK, InFlight
<1>4. CASE log = <<>>
  BY <1>1, <1>3, <1>4 DEF LogInv, Unwritten, Kept, Leave, TypeOK, FinalOf, EntriesOf, InFlight
<1>5. CASE log # <<>>
  <2> DEFINE n == Len(log)
  <2>1. /\ log' \in Seq(Entries) /\ Len(log') = n /\ n \in Nat \ {0}
        /\ log'[n] = Entry(q, s)
        /\ \A i \in 1..(n - 1): log'[i] = log[i]
    <3>1. Entry(q, s) \in Entries
      BY EntryTyped
    <3>2. log' = Append(SubSeq(log, 1, Len(log) - 1), Entry(q, s))
      BY <1>5 DEF Leave, ReplaceLast
    <3>3. log \in Seq(Entries)
      BY DEF TypeOK
    <3> DEFINE u == Append(SubSeq(log, 1, Len(log) - 1), Entry(q, s))
    <3>4. /\ u \in Seq(Entries) /\ Len(u) = n /\ n \in Nat \ {0}
          /\ u[n] = Entry(q, s)
          /\ \A i \in 1..(n - 1): u[i] = log[i]
      BY <1>5, <3>1, <3>3, ReplaceLastFacts, Zenon
    <3>5. log' = u
      BY <3>2
    <3> HIDE DEF n, u
    <3> QED
      BY <3>4, <3>5
  <2>2. pc' = [pc EXCEPT ![q] = "done"] /\ InFlight' = InFlight \ {q}
    BY <1>5 DEF Leave, TypeOK, InFlight
  <2>3. CASE r = q
    <3>1. FinalOf(q) = {}
      BY <1>1 DEF LogInv, Unwritten
    <3>2. FinalOf(q)' = {n}
      <4>1. Finals(log, q) = {} /\ FinalOf(q)' = Finals(log', q)
        BY <2>1, <3>1, FinalsOf DEF TypeOK
      <4>2. n \in Finals(log', q)
        BY <2>1 DEF Finals, Entry, Severities
      <4>3. \A i \in Finals(log', q): i = n
        BY <2>1, <4>1 DEF Finals
      <4> QED BY <4>1, <4>2, <4>3
    <3>3. InFlight' \ beside'[q] = {}
      BY <2>2 DEF Leave, TypeOK
    <3> QED
      <4>1. pc'[r] = "done" /\ FinalOf(r)' = {n} /\ (InFlight \ beside[r])' = {}
        BY <2>2, <2>3, <3>2, <3>3 DEF TypeOK
      <4>2. n \in 1..Len(log')
        BY <2>1
      <4> HIDE DEF n
      <4> QED
        BY <1>3, <4>1, <4>2 DEF Unwritten, Kept
  <2>4. CASE r # q
    <3>1. FinalOf(r)' = FinalOf(r) \ {n}
      <4>1. FinalOf(r) = Finals(log, r) /\ FinalOf(r)' = Finals(log', r)
        BY <2>1, FinalsOf DEF TypeOK
      <4>2. Finals(log', r) = Finals(log, r) \ {n}
        BY <2>1, <2>4 DEF Finals, Entry
      <4> QED BY <4>1, <4>2
    <3>2. Unwritten(r)'
      BY <2>2, <2>4, <3>1 DEF LogInv, Unwritten, TypeOK
    <3>3. ASSUME (pc[r] = "done" /\ clears = 0 /\ beside[r] \subseteq InFlight)'
          PROVE  \E i \in 1..Len(log'): /\ FinalOf(r)' = {i}
                                        /\ (InFlight \ beside[r])' # {} => i < Len(log')
      <4>1. pc[r] = "done" /\ clears = 0 /\ beside'[r] = beside[r]
        BY <2>2, <2>4, <3>3 DEF TypeOK, Leave
      <4>2. beside[r] \subseteq InFlight /\ q \in InFlight \ beside[r]
        BY <2>2, <3>3, <4>1
      <4>3. PICK i \in 1..n: FinalOf(r) = {i} /\ i < n
        <5>1. Kept(r)
          BY DEF LogInv
        <5>2. \E i \in 1..n: FinalOf(r) = {i} /\ (InFlight \ beside[r] # {} => i < n)
          BY <4>1, <4>2, <5>1 DEF Kept
        <5> QED BY <4>2, <5>2
      <4> QED
        BY <2>1, <3>1, <4>3
    <3> QED
      BY <1>3, <3>2, <3>3 DEF Kept
  <2> QED
    BY <2>3, <2>4
<1> QED
  BY <1>4, <1>5

LEMMA SubmitStep ==
  ASSUME TypeOK, LogInv, NEW q \in Requests, Submit(q)
  PROVE  LogInv'
<1> SUFFICES ASSUME NEW r \in Requests
             PROVE  Unwritten(r)' /\ BesideStarted(r)' /\ Kept(r)'
  BY DEF LogInv
<1>1. BesideStarted(r)'
  BY DEF LogInv, BesideStarted, Submit, TypeOK
<1>2. CASE q \in Blocked
  <2>1. InFlight' = InFlight /\ log' = log /\ beside' = beside /\ clears' = clears
    BY <1>2 DEF Submit, TypeOK, InFlight
  <2>2. pc'[r] = "done" <=> pc[r] = "done"
    BY <1>2 DEF Submit, TypeOK
  <2> QED
    BY <1>1, <2>1, <2>2 DEF LogInv, Unwritten, Kept, FinalOf, EntriesOf
<1>3. CASE q \notin Blocked
  <2>1. /\ Len(log') = Len(log) + 1 /\ Len(log) \in Nat
        /\ log' \in Seq(Entries)
        /\ log'[Len(log) + 1] = Entry(q, "pending")
        /\ \A i \in 1..Len(log): log'[i] = log[i]
    <3>1. Entry(q, "pending") \in Entries
      BY EntryTyped
    <3>2. log' = Append(log, Entry(q, "pending")) /\ log \in Seq(Entries)
      BY <1>3 DEF Submit, TypeOK
    <3> QED
      BY <3>1, <3>2, AppendProperties
  <2>2. FinalOf(r)' = FinalOf(r)
    <3>1. FinalOf(r) = Finals(log, r) /\ FinalOf(r)' = Finals(log', r)
      BY <2>1, FinalsOf DEF TypeOK
    <3>2. Finals(log', r) = Finals(log, r)
      BY <2>1 DEF Finals, Entry
    <3> QED BY <3>1, <3>2
  <2>3. /\ InFlight' = InFlight \cup {q} /\ beside' = beside /\ clears' = clears
        /\ pc'[r] = "done" <=> pc[r] = "done"
    BY <1>3 DEF Submit, TypeOK, InFlight
  <2>4. q \notin beside[r]
    BY DEF LogInv, BesideStarted, Submit
  <2>5. ASSUME (pc[r] = "done" /\ clears = 0 /\ beside[r] \subseteq InFlight)'
        PROVE  \E i \in 1..Len(log'): FinalOf(r)' = {i} /\ i < Len(log')
    <3>1. PICK i \in 1..Len(log): FinalOf(r) = {i}
      <4>1. Kept(r)
        BY DEF LogInv
      <4>2. pc[r] = "done" /\ clears = 0 /\ beside[r] \subseteq InFlight
        BY <2>3, <2>4, <2>5
      <4> QED BY <4>1, <4>2 DEF Kept
    <3> QED
      BY <2>1, <2>2, <3>1
  <2> QED
    BY <1>1, <2>2, <2>3, <2>5 DEF LogInv, Unwritten, Kept
<1> QED
  BY <1>2, <1>3

LEMMA LogStep == TypeOK /\ LogInv /\ [Next]_vars => LogInv'
<1> SUFFICES ASSUME TypeOK, LogInv, [Next]_vars PROVE LogInv'
  OBVIOUS
<1>1. ASSUME log' = log, beside' = beside, clears' = clears,
             \A r \in Requests: /\ pc'[r] = "done" <=> pc[r] = "done"
                                /\ pc'[r] \in {"idle", "rejected"} <=> pc[r] \in {"idle", "rejected"},
             InFlight' = InFlight
      PROVE  LogInv'
  BY <1>1 DEF LogInv, Unwritten, BesideStarted, Kept, FinalOf, EntriesOf, TypeOK
<1>2. ASSUME NEW r \in Requests, Spawn(r) \/ Timeout(r) \/ ChildExits(r) \/ PipesClose(r)
      PROVE  LogInv'
  BY <1>1, <1>2 DEF Spawn, Timeout, ChildExits, PipesClose, InFlight, TypeOK
<1>3. ASSUME NEW r \in Requests, SpawnFails(r) PROVE LogInv'
  BY <1>3, LeaveStep DEF SpawnFails, InFlight, Severities
<1>4. ASSUME NEW r \in Requests, NEW s \in Severities, Finish(r, s) PROVE LogInv'
  BY <1>4, LeaveStep DEF Finish, InFlight
<1>5. ASSUME NEW r \in Requests, Reap(r) PROVE LogInv'
  BY <1>5, LeaveStep DEF Reap, InFlight, Severities
<1>6. CASE ClearAuditLog
  BY <1>6 DEF ClearAuditLog, LogInv, Unwritten, BesideStarted, Kept, FinalOf, EntriesOf, TypeOK
<1>7. CASE UNCHANGED vars
  BY <1>1, <1>7 DEF vars, InFlight
<1> QED
  BY <1>2, <1>3, <1>4, <1>5, <1>6, <1>7, SubmitStep DEF Next, Starts, Ends

(* A request's outcome stays in the audit log until the log is cleared or  *)
(* a request that was in flight when it was written ends.                  *)
THEOREM OutcomeKept == Spec => []OutcomeKeptUntilOverlapEnds
<1>1. Init => LogInv
  BY DEF Init, LogInv, Unwritten, BesideStarted, Kept, FinalOf, EntriesOf
<1>2. LogInv => OutcomeKeptUntilOverlapEnds
  <2> SUFFICES ASSUME LogInv, NEW r \in Requests,
                      pc[r] = "done" /\ clears = 0 /\ beside[r] \subseteq InFlight
               PROVE  Cardinality(FinalOf(r)) = 1
    BY DEF OutcomeKeptUntilOverlapEnds
  <2>1. PICK i \in 1..Len(log): FinalOf(r) = {i}
    BY DEF LogInv, Kept
  <2> QED
    BY <2>1, FS_Singleton
<1> QED
  BY <1>1, <1>2, LogStep, TypeCorrect, PTL DEF Spec
-----------------------------------------------------------------------------
(* The number of lines.  A request that leaves was counted when it came,   *)
(* so before the log is cleared there is a line for it to replace.         *)
LEMMA SubmittedFinite == IsFiniteSet(Submitted) /\ Cardinality(Submitted) \in Nat
<1>1. Submitted \subseteq Requests
  BY DEF Submitted
<1>. QED
  BY <1>1, RequestAssumption, FS_Subset, FS_CardinalityType

LEMMA LeaveCount ==
  ASSUME TypeOK, OneLinePerAttempt, NEW q \in InFlight, NEW s \in Severities,
         Leave(q, s), clears' = clears
  PROVE  OneLinePerAttempt' /\ (clears = 0 => log # <<>>)
<1>1. q \in Submitted /\ q \in Requests
  BY DEF InFlight, Submitted
<1>2. Cardinality(Submitted) # 0
  BY <1>1, SubmittedFinite, FS_EmptySet
<1>3. log = <<>> => Len(log) = 0
  OBVIOUS
<1>4. clears = 0 => log # <<>>
  BY <1>2, <1>3 DEF OneLinePerAttempt
<1>5. pc' \in {[pc EXCEPT ![q] = "done"], [pc EXCEPT ![q] = "threw"]}
  BY DEF Leave
<1>6. Submitted' = Submitted
  BY <1>1, <1>5 DEF Submitted, TypeOK
<1>7. log # <<>> => Len(log') = Len(log)
  <2>1. ASSUME log # <<>> PROVE log' = Append(SubSeq(log, 1, Len(log) - 1), Entry(q, s))
    BY <2>1 DEF Leave, ReplaceLast
  <2>2. Entry(q, s) \in Entries /\ log \in Seq(Entries)
    BY <1>1, EntryTyped DEF TypeOK
  <2>. QED
    BY <2>1, <2>2, ReplaceLastFacts
<1>. QED
  BY <1>4, <1>6, <1>7 DEF OneLinePerAttempt

LEMMA SubmitCount ==
  ASSUME TypeOK, OneLinePerAttempt, NEW q \in Requests, Submit(q)
  PROVE  OneLinePerAttempt'
<1>1. CASE q \in Blocked
  <2>1. Submitted' = Submitted /\ log' = log /\ clears' = clears
    BY <1>1 DEF Submit, Submitted, TypeOK
  <2>. QED
    BY <2>1 DEF OneLinePerAttempt
<1>2. CASE q \notin Blocked
  <2>1. Submitted' = Submitted \cup {q} /\ q \notin Submitted /\ clears' = clears
    BY <1>2 DEF Submit, Submitted, TypeOK
  <2>2. Len(log') = Len(log) + 1
    BY <1>2, EntryTyped DEF Submit, TypeOK
  <2>3. Cardinality(Submitted') = Cardinality(Submitted) + 1
    BY <2>1, SubmittedFinite, FS_AddElement
  <2>. QED
    BY <2>1, <2>2, <2>3 DEF OneLinePerAttempt
<1>. QED
  BY <1>1, <1>2

LEMMA CountStep == TypeOK /\ OneLinePerAttempt /\ [Next]_vars => OneLinePerAttempt'
<1>. SUFFICES ASSUME TypeOK, OneLinePerAttempt, [Next]_vars PROVE OneLinePerAttempt'
  OBVIOUS
<1>1. ASSUME NEW r \in Requests, SpawnFails(r) \/ Ends(r) PROVE OneLinePerAttempt'
  <2>1. r \in InFlight /\ clears' = clears /\ \E s \in Severities: Leave(r, s)
    BY <1>1 DEF SpawnFails, Ends, Reap, Finish, InFlight, Severities
  <2>. QED
    BY <2>1, LeaveCount
<1>2. ASSUME NEW r \in Requests, Spawn(r) \/ Timeout(r) \/ ChildExits(r) \/ PipesClose(r)
      PROVE  OneLinePerAttempt'
  <2>1. log' = log /\ clears' = clears
    BY <1>2 DEF Spawn, Timeout, ChildExits, PipesClose
  <2>2. Submitted' = Submitted
    BY <1>2 DEF Spawn, Timeout, ChildExits, PipesClose, Submitted, TypeOK
  <2>. QED
    BY <2>1, <2>2 DEF OneLinePerAttempt
<1>3. CASE ClearAuditLog
  BY <1>3, RequestAssumption DEF ClearAuditLog, OneLinePerAttempt, TypeOK
<1>4. CASE UNCHANGED vars
  BY <1>4 DEF vars, OneLinePerAttempt, Submitted
<1>. QED
  BY <1>1, <1>2, <1>3, <1>4, SubmitCount DEF Next, Starts

(* While nobody clears the log it has one line for each request that       *)
(* passed the policy, however many overlap (broker.dart: _auditLog).       *)
THEOREM LinesCounted == Spec => []OneLinePerAttempt
<1>1. Init => OneLinePerAttempt
  <2>. SUFFICES ASSUME Init PROVE OneLinePerAttempt
    OBVIOUS
  <2>1. Submitted = {} /\ Len(log) = 0
    BY DEF Init, Submitted
  <2>. QED
    BY <2>1, FS_EmptySet DEF OneLinePerAttempt
<1>. QED
  BY <1>1, CountStep, TypeCorrect, PTL DEF Spec

-----------------------------------------------------------------------------
(* The child: there is none before the start, and none alive after the end.*)
ChildInv ==
  \A r \in Requests:
    /\ pc[r] \in {"idle", "rejected", "spawning"} => child[r] = "none"
    /\ pc[r] \in {"done", "threw"} => child[r] # "alive"

LEMMA LeaveStage ==
  ASSUME TypeOK, NEW r \in Requests, NEW s \in Severities, Leave(r, s)
  PROVE  /\ pc'[r] \in {"done", "threw"}
         /\ pc'[r] = "done" <=> log # <<>>
         /\ \A q \in Requests \ {r}: pc'[q] = pc[q]
BY DEF Leave, TypeOK

LEMMA ChildStep == TypeOK /\ ChildInv /\ [Next]_vars => ChildInv'
<1>. SUFFICES ASSUME TypeOK, ChildInv, [Next]_vars PROVE ChildInv'
  OBVIOUS
<1>. USE DEF ChildInv
<1>1. ASSUME NEW r \in Requests, Submit(r) \/ Spawn(r) \/ Timeout(r) PROVE ChildInv'
  BY <1>1 DEF Submit, Spawn, Timeout, TypeOK
<1>2. ASSUME NEW r \in Requests, SpawnFails(r) \/ \E s \in Severities: Finish(r, s)
      PROVE  ChildInv'
  <2>1. child' = child /\ child[r] # "alive" /\ \E s \in Severities: Leave(r, s)
    BY <1>2 DEF SpawnFails, Finish, Severities
  <2>. QED
    BY <2>1, LeaveStage
<1>3. ASSUME NEW r \in Requests, Reap(r) PROVE ChildInv'
  <2>1. Leave(r, "error") /\ child' = [child EXCEPT ![r] = AfterTerminate(child[r])]
    BY <1>3 DEF Reap
  <2>. QED
    BY <2>1, LeaveStage DEF AfterTerminate, TypeOK, Severities
<1>4. ASSUME NEW r \in Requests, ChildExits(r) \/ PipesClose(r) PROVE ChildInv'
  BY <1>4 DEF ChildExits, PipesClose, TypeOK
<1>5. CASE ClearAuditLog \/ UNCHANGED vars
  BY <1>5 DEF ClearAuditLog, vars
<1>. QED
  BY <1>1, <1>2, <1>3, <1>4, <1>5 DEF Next, Starts, Ends

(* A request that has returned, with whatever result, left no child that   *)
(* was not at least sent SIGKILL (broker.dart:217).                        *)
THEOREM NoOrphan == Spec => []NoChildOutlivesItsCall
<1>1. Init => ChildInv
  BY DEF Init, ChildInv
<1>2. ChildInv => NoChildOutlivesItsCall
  BY DEF ChildInv, NoChildOutlivesItsCall
<1>. QED
  BY <1>1, <1>2, ChildStep, TypeCorrect, PTL DEF Spec

-----------------------------------------------------------------------------
(* The events: what a stream has said, by where it stands.  Only one whose *)
(* audit line is gone says a second terminal event.                        *)
EventsInv ==
  \A r \in Streams:
    /\ pc[r] \in {"idle", "rejected", "spawning"} => events[r] = <<>>
    /\ pc[r] = "running" => events[r] = <<"started">>
    /\ pc[r] # "reaping"
    /\ pc[r] = "done" => events[r] \in {<<"started", "exited">>, <<"started", "error">>}
    /\ pc[r] = "threw" => events[r] \in {<<"started", "exited", "error">>, <<"started", "error">>}
    /\ pc[r] = "threw" => clears # 0

LEMMA EventsJoined ==
  /\ <<"started">> \o <<"exited", "error">> = <<"started", "exited", "error">>
  /\ <<"started">> \o <<"exited">> = <<"started", "exited">>
<1>. DEFINE S == {"started", "exited", "error"}
           a == <<"started">>
           b == <<"exited", "error">>
           ab == <<"started", "exited", "error">>
<1>1. /\ a \in Seq(S) /\ b \in Seq(S) /\ ab \in Seq(S)
      /\ Len(a) = 1 /\ Len(b) = 2 /\ Len(ab) = 3
  OBVIOUS
<1>2. a \o b = ab
  <2>1. a \o b \in Seq(S) /\ Len(a \o b) = 3
    BY <1>1
  <2>2. ASSUME NEW i \in 1..3 PROVE (a \o b)[i] = ab[i]
    <3>1. CASE i = 1
      BY <3>1
    <3>2. CASE i = 2
      BY <3>2
    <3>3. CASE i = 3
      BY <3>3
    <3>. QED
      BY <3>1, <3>2, <3>3
  <2>. QED
    BY <1>1, <2>1, <2>2, SeqEqual
<1>3. a \o <<"exited">> = <<"started", "exited">>
  <2>. DEFINE ac == <<"started", "exited">>
  <2>1. /\ ac \in Seq(S) /\ Len(ac) = 2
        /\ a \o <<"exited">> \in Seq(S) /\ Len(a \o <<"exited">>) = 2
    BY <1>1
  <2>2. ASSUME NEW i \in 1..2 PROVE (a \o <<"exited">>)[i] = ac[i]
    <3>1. CASE i = 1
      BY <3>1
    <3>2. CASE i = 2
      BY <3>2
    <3>. QED
      BY <3>1, <3>2
  <2>. QED
    BY <2>1, <2>2, SeqEqual
<1>. QED
  BY <1>2, <1>3

LEMMA EventsStep ==
  ASSUME TypeOK, OneLinePerAttempt, EventsInv, [Next]_vars
  PROVE  EventsInv'
<1>. USE RequestAssumption DEF EventsInv
<1>1. ASSUME NEW r \in Requests, Submit(r) \/ Timeout(r) \/ ChildExits(r) \/ PipesClose(r)
      PROVE  EventsInv'
  <2>1. events' = events /\ clears' = clears
    BY <1>1 DEF Submit, Timeout, ChildExits, PipesClose
  <2>2. /\ \A q \in Requests \ {r}: pc'[q] = pc[q]
        /\ \/ pc'[r] = pc[r]
           \/ pc[r] = "idle" /\ pc'[r] \in {"rejected", "spawning"}
           \/ r \in Calls /\ pc'[r] = "reaping"
    BY <1>1 DEF Submit, Timeout, ChildExits, PipesClose, TypeOK
  <2>. QED
    BY <2>1, <2>2 DEF Requests
<1>2. ASSUME NEW r \in Requests, Spawn(r) PROVE EventsInv'
  <2>1. /\ pc[r] = "spawning" /\ pc'[r] = "running" /\ clears' = clears
        /\ \A q \in Requests \ {r}: pc'[q] = pc[q]
    BY <1>2 DEF Spawn, TypeOK
  <2>2. \A q \in Streams \ {r}: events'[q] = events[q]
    BY <1>2 DEF Spawn, TypeOK
  <2>3. r \in Streams => events'[r] = Append(events[r], "started")
    BY <1>2 DEF Spawn, TypeOK
  <2>4. r \in Streams => events'[r] = <<"started">>
    BY <2>1, <2>3
  <2>. QED
    BY <2>1, <2>2, <2>4 DEF Requests
<1>3. ASSUME NEW r \in Requests, SpawnFails(r) \/ Ends(r) PROVE EventsInv'
  <2>1. /\ r \in InFlight /\ clears' = clears
        /\ \E s \in Severities: Leave(r, s)
    BY <1>3 DEF SpawnFails, Ends, Reap, Finish, InFlight, Severities
  <2>2. /\ pc'[r] \in {"done", "threw"} /\ (pc'[r] = "done" <=> log # <<>>)
        /\ \A q \in Requests \ {r}: pc'[q] = pc[q]
        /\ pc'[r] = "threw" => clears # 0
    BY <2>1, LeaveStage, LeaveCount
  <2>3. \A q \in Streams \ {r}: events'[q] = events[q]
    BY <1>3 DEF SpawnFails, Ends, Reap, Finish, TypeOK, Requests
  <2>4. ASSUME r \in Streams
        PROVE  /\ pc'[r] = "done" => events'[r] \in {<<"started", "exited">>, <<"started", "error">>}
               /\ pc'[r] = "threw" =>
                    events'[r] \in {<<"started", "exited", "error">>, <<"started", "error">>}
    <3>1. CASE SpawnFails(r)
      BY <2>4, <3>1 DEF SpawnFails, SaidOnFailedStart, TypeOK
    <3>2. CASE Reap(r)
      BY <2>4, <3>2 DEF Reap
    <3>3. CASE \E s \in Severities: Finish(r, s)
      <4>1. events[r] = <<"started">> /\ r \notin Calls
        BY <2>4, <3>3 DEF Finish
      <4>2. events'[r] = events[r] \o IF log = <<>> THEN <<"exited", "error">> ELSE <<"exited">>
        BY <2>4, <3>3, <4>1 DEF Finish, TypeOK
      <4>3. /\ <<"started">> \o <<"exited", "error">> = <<"started", "exited", "error">>
            /\ <<"started">> \o <<"exited">> = <<"started", "exited">>
        BY EventsJoined
      <4>. QED
        BY <2>2, <4>1, <4>2, <4>3
    <3>. QED
      BY <1>3, <3>1, <3>2, <3>3 DEF Ends
  <2>. QED
    BY <2>1, <2>2, <2>3, <2>4 DEF Requests
<1>4. CASE ClearAuditLog \/ UNCHANGED vars
  BY <1>4 DEF ClearAuditLog, vars, TypeOK
<1>. QED
  BY <1>1, <1>2, <1>3, <1>4 DEF Next, Starts

(* While nobody clears the log a stream says "started" first and ends with *)
(* one terminal event (broker.dart: runStream).                            *)
THEOREM EventsInOrder == Spec => []OneTerminalEvent
<1>1. Init => EventsInv
  BY DEF Init, EventsInv, Requests
<1>2. TypeOK /\ EventsInv => OneTerminalEvent
  <2>. SUFFICES ASSUME TypeOK, EventsInv, NEW r \in Streams
                PROVE  /\ events[r] # <<>> => events[r][1] = "started"
                       /\ clears = 0 => Len(events[r]) <= 2
                       /\ pc[r] = "done" =>
                            events[r] \in {<<"started", "exited">>, <<"started", "error">>}
    BY DEF OneTerminalEvent
  <2>1. pc[r] \in Stages
    BY DEF TypeOK, Requests
  <2>2. \/ events[r] = <<>>
        \/ events[r] \in {<<"started">>, <<"started", "exited">>, <<"started", "error">>}
        \/ events[r] = <<"started", "exited", "error">> /\ clears # 0
    BY <2>1 DEF EventsInv, Stages
  <2>3. pc[r] = "done" => events[r] \in {<<"started", "exited">>, <<"started", "error">>}
    BY DEF EventsInv
  <2>4. events[r] # <<>> => events[r][1] = "started"
    BY <2>2
  <2>5. clears = 0 => Len(events[r]) <= 2
    <3>1. CASE events[r] = <<>>
      BY <3>1
    <3>2. CASE events[r] = <<"started">>
      BY <3>2
    <3>3. CASE events[r] = <<"started", "exited">>
      BY <3>3
    <3>4. CASE events[r] = <<"started", "error">>
      BY <3>4
    <3>. QED
      BY <2>2, <3>1, <3>2, <3>3, <3>4
  <2>. QED
    BY <2>3, <2>4, <2>5
<1>. QED
  BY <1>1, <1>2, EventsStep, LinesCounted, TypeCorrect, PTL DEF Spec
=============================================================================
