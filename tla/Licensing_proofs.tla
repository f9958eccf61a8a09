--------------------------- MODULE Licensing_proofs ---------------------------
(***************************************************************************)
(* What holds of Licensing for any installs, seats and limits; and, at the *)
(* end, of the two other modules about licences: StoreEntitlement, for any *)
(* number of kills and sign-outs, and LicenseManager, for any keys and any *)
(* number of checks.                                                       *)
(***************************************************************************)
EXTENDS Licensing, StoreEntitlement, LicenseManager, FiniteSetTheorems, WellFoundedInduction, TLAPS

(* What touching, pruning and deciding return is a row. *)
LEMMA TouchType ==
  ASSUME NEW r \in Rows, NEW d \in Devices, NEW t \in BOOLEAN
  PROVE  Touch(r, d, t) \in Rows
<1>1. KeepDays \in Nat /\ 0 \in 0..(KeepDays + 1)
  BY LimitAssumption
<1>. QED
  BY <1>1 DEF Touch, Rows

LEMMA PruneType ==
  ASSUME NEW r \in Rows
  PROVE  Prune(r) \in Rows
<1>1. KeepDays \in Nat /\ KeepDays + 1 \in 0..(KeepDays + 1)
  BY LimitAssumption
<1>2. SeatHolders(r) \subseteq Devices
  BY DEF SeatHolders, Present, Rows
<1>. DEFINE kept == SeatHolders(r) \cup {d \in r.known: r.seen[d] <= KeepDays}
<1>3. kept \subseteq Devices
  BY <1>2 DEF Rows
<1>. HIDE DEF kept
<1>. DEFINE seen == [d \in Devices |-> IF d \in kept THEN r.seen[d]
                                     ELSE KeepDays + 1]
            later == [d \in Devices |-> IF d \in kept THEN r.later[d] \cap kept
                                      ELSE {}]
<1>4. Prune(r) = [r EXCEPT !.known = kept, !.seen = seen, !.later = later]
  BY DEF Prune, kept, Rows
<1>5. seen \in [Devices -> 0..(KeepDays + 1)] /\ later \in [Devices -> SUBSET Devices]
  BY <1>1, <1>3 DEF Rows
<1>. HIDE DEF seen, later
<1>. QED
  BY <1>3, <1>4, <1>5 DEF Rows

LEMMA DecideType ==
  ASSUME NEW r \in Rows, NEW d \in Devices, NEW a \in Actions
  PROVE  /\ Decide(r, d, a).row \in Rows
         /\ Decide(r, d, a).verdict \in Verdicts
         /\ Decide(r, d, a).takes \in BOOLEAN
<1>1. Takes(r, d, a) \in BOOLEAN
  BY DEF Takes
<1>2. Prune(Touch(r, d, Takes(r, d, a))) \in Rows
  BY <1>1, TouchType, PruneType
<1>. QED
  BY <1>1, <1>2 DEF Decide, Verdicts

LEMMA OlderType ==
  ASSUME NEW l \in Nat, NEW a \in 0..(l + 1)
  PROVE  Older(a, l) \in 0..(l + 1)
BY DEF Older

LEMMA NewRowType == NewRow \in Rows
<1>1. {KeepDays, OfflineGrace} \subseteq Nat
  BY LimitAssumption
<1>. QED
  BY <1>1 DEF NewRow, Rows

(* A request is what the table says, or None, which is no request. *)
LEMMA UnderwayType ==
  ASSUME TypeOK, NEW q \in Requests, Underway(q)
  PROVE  reqs[q] \in RequestRecords
BY DEF TypeOK, Underway

LEMMA HeardType ==
  ASSUME TypeOK, NEW q \in Requests, Underway(q)
  PROVE  Heard(q) \in [Requests -> {None} \cup RequestRecords]
BY UnderwayType DEF TypeOK, Heard, RequestRecords

LEMMA RequestType ==
  ASSUME TypeOK, NEW q \in Requests, NEW d \in Devices, NEW a \in Actions
  PROVE  Request(q, d, a) \in [Requests -> {None} \cup RequestRecords]
BY NewRowType DEF TypeOK, Request, RequestRecords, Stages

THEOREM TypeCorrect == Spec => []TypeOK
<1>. USE LimitAssumption, SwitchAssumption
<1>1. Init => TypeOK
  BY NewRowType DEF Init, TypeOK, Apps
<1>2. TypeOK /\ [Next]_vars => TypeOK'
  <2>. SUFFICES ASSUME TypeOK, [Next]_vars PROVE TypeOK'
    OBVIOUS
  <2>1. ASSUME NEW d \in Devices, Load(d) PROVE TypeOK'
    <3>1. KeyLicensed(apps[d]) \in BOOLEAN
      BY DEF KeyLicensed, TypeOK, Apps
    <3>2. apps' \in [Devices -> Apps]
      BY <2>1, <3>1 DEF Load, TypeOK, Apps
    <3>3. reqs' \in [Requests -> {None} \cup RequestRecords]
      BY <2>1, RequestType DEF Load, TypeOK, Actions
    <3>. QED
      BY <2>1, <3>2, <3>3 DEF Load, TypeOK
  <2>2. ASSUME NEW d \in Devices, Enter(d) PROVE TypeOK'
    <3>1. reqs' \in [Requests -> {None} \cup RequestRecords]
      BY <2>2, RequestType DEF Enter, TypeOK, Actions
    <3>. QED
      BY <2>2, <3>1 DEF Enter, TypeOK
  <2>3. ASSUME NEW d \in Devices, Quit(d) PROVE TypeOK'
    <3>1. apps' \in [Devices -> Apps]
      BY <2>3 DEF Quit, TypeOK, Apps
    <3>2. ASSUME NEW q \in Requests, Underway(q)
          PROVE  Heard(q)[q] \in {None} \cup RequestRecords
      BY <3>2, HeardType
    <3>3. reqs' \in [Requests -> {None} \cup RequestRecords]
      BY <2>3, <3>2 DEF Quit, TypeOK
    <3>. QED
      BY <2>3, <3>1, <3>3 DEF Quit, TypeOK
  <2>4. ASSUME NEW q \in Requests, FindLicence(q) PROVE TypeOK'
    <3>1. reqs[q] \in RequestRecords
      BY <2>4, UnderwayType DEF FindLicence, At, Underway
    <3>2. reqs' \in [Requests -> {None} \cup RequestRecords]
      BY <2>4, <3>1 DEF FindLicence, TypeOK, RequestRecords, Stages
    <3>. QED
      BY <2>4, <3>2 DEF FindLicence, TypeOK
  <2>5. ASSUME NEW q \in Requests, SeatCheck(q) PROVE TypeOK'
    <3>1. reqs[q] \in RequestRecords
      BY <2>5, UnderwayType DEF SeatCheck, At, Underway
    <3>. DEFINE d == reqs[q].device
                out == Decide(reqs[q].copy, d, reqs[q].action)
    <3>2. d \in Devices /\ reqs[q].copy \in Rows /\ reqs[q].action \in Actions
      BY <3>1 DEF RequestRecords
    <3>3. out.row \in Rows /\ out.verdict \in Verdicts
      BY <3>2, DecideType
    <3>4. reqs' = [reqs EXCEPT ![q].stage = "checked",
                               ![q].verdict = out.verdict, ![q].copy = out.row]
      BY <2>5 DEF SeatCheck
    <3>5. /\ since' = IF out.takes
                    THEN [e \in Devices |-> IF e = d THEN {} ELSE since[e] \cup {d}]
                    ELSE since
          /\ last' = IF out.takes THEN d ELSE last
          /\ told' \subseteq told \cup {d}
          /\ UNCHANGED <<row, apps>>
      BY <2>5 DEF SeatCheck
    <3>. HIDE DEF out, d
    <3>6. reqs' \in [Requests -> {None} \cup RequestRecords]
      BY <3>1, <3>3, <3>4 DEF TypeOK, RequestRecords, Stages
    <3>7. since' \in [Devices -> SUBSET Devices]
      BY <3>2, <3>5 DEF TypeOK
    <3>. QED
      BY <3>2, <3>5, <3>6, <3>7 DEF TypeOK
  <2>6. ASSUME NEW q \in Requests, StoreDevices(q) PROVE TypeOK'
    <3>1. reqs[q] \in RequestRecords
      BY <2>6, UnderwayType DEF StoreDevices, At, Underway
    <3>2. row' \in Rows
      BY <2>6, <3>1 DEF StoreDevices, TypeOK, RequestRecords, Rows
    <3>3. reqs' \in [Requests -> {None} \cup RequestRecords]
      BY <2>6, <3>1, NewRowType DEF StoreDevices, TypeOK, RequestRecords, Stages
    <3>. QED
      BY <2>6, <3>2, <3>3 DEF StoreDevices, TypeOK
  <2>7. ASSUME NEW q \in Requests, Answer(q) PROVE TypeOK'
    <3>1. reqs[q] \in RequestRecords
      BY <2>7, UnderwayType DEF Answer
    <3>. DEFINE d == reqs[q].device
    <3>a. d \in Devices /\ apps[d] \in Apps
      BY <3>1 DEF RequestRecords, TypeOK
    <3>b. 0 \in 0..(OfflineGrace + 1)
      OBVIOUS
    <3>2. Accepted(apps[d]) \in Apps /\ Rejected(apps[d]) \in Apps
      BY <3>a, <3>b DEF Accepted, Rejected, Apps
    <3>3. apps' \in [Devices -> Apps]
      BY <2>7, <3>a, <3>2 DEF Answer, TypeOK
    <3>4. reqs' \in [Requests -> {None} \cup RequestRecords]
      BY <2>7, HeardType DEF Answer
    <3>. QED
      BY <2>7, <3>3, <3>4 DEF Answer, TypeOK
  <2>8. ASSUME NEW q \in Requests, GiveUp(q) PROVE TypeOK'
    <3>1. reqs' \in [Requests -> {None} \cup RequestRecords]
      BY <2>8, HeardType DEF GiveUp, TypeOK
    <3>. QED
      BY <2>8, <3>1 DEF GiveUp, TypeOK
  <2>9. ASSUME Revoke PROVE TypeOK'
    BY <2>9 DEF Revoke, TypeOK, Rows
  <2>10. ASSUME Tick PROVE TypeOK'
    <3>1. \A a \in 0..(KeepDays + 1): Older(a, KeepDays) \in 0..(KeepDays + 1)
      BY OlderType
    <3>2. \A a \in 0..(OfflineGrace + 1):
             Older(a, OfflineGrace) \in 0..(OfflineGrace + 1)
      BY OlderType
    <3>3. 0 \in 0..(OfflineGrace + 1)
      OBVIOUS
    <3>4. row' \in Rows
      BY <2>10, <3>1, <3>2, <3>3 DEF Tick, TypeOK, Rows
    <3>5. apps' \in [Devices -> Apps]
      BY <2>10, <3>2 DEF Tick, TypeOK, Apps
    <3>. QED
      BY <2>10, <3>4, <3>5 DEF Tick, TypeOK
  <2>11. CASE UNCHANGED vars
    BY <2>11 DEF vars, TypeOK
  <2>. QED
    BY <2>1, <2>2, <2>3, <2>4, <2>5, <2>6, <2>7, <2>8, <2>9, <2>10, <2>11 DEF Next
<1>. QED
  BY <1>1, <1>2, PTL DEF Spec

----------------------------------------------------------------------------
(* Pro ends with the licence.  What an install stored as valid is at least *)
(* as old as the revocation, since an answer that says valid was decided   *)
(* on a row that was still active, and no request outlives a period.       *)
LapseInv ==
  /\ row.active => row.revokedFor = 0
  /\ \A q \in Requests:
       /\ At(q, "found") /\ reqs[q].copy.active => row.revokedFor = 0
       /\ Underway(q) /\ reqs[q].verdict = "valid" => row.revokedFor = 0
       /\ Underway(q) /\ reqs[q].waits => apps[reqs[q].device].up
  /\ \A d \in Devices:
       /\ apps[d].licensed => apps[d].up /\ apps[d].valid
       /\ apps[d].valid /\ ~row.active => row.revokedFor <= apps[d].age

LEMMA LapseStep ==
  ASSUME TypeOK, LapseInv, [Next]_vars
  PROVE  LapseInv'
<1>. USE LimitAssumption, SwitchAssumption
<1>1. ASSUME NEW d \in Devices, Load(d) PROVE LapseInv'
  <2>1. /\ row' = row
        /\ apps' = [apps EXCEPT ![d] =
                      [apps[d] EXCEPT !.up = TRUE, !.licensed = KeyLicensed(apps[d])]]
    BY <1>1 DEF Load
  <2>2. \A q \in Requests:
          \/ reqs'[q] = reqs[q]
          \/ /\ reqs'[q].stage = "sent" /\ reqs'[q].verdict = "none"
             /\ reqs'[q].device = d
    BY <1>1 DEF Load, Request, TypeOK
  <2>3. \A e \in Devices: apps[e].up => apps'[e].up
    BY <2>1 DEF TypeOK, Apps
  <2>4. apps'[d].up /\ apps'[d].valid = apps[d].valid /\ apps'[d].age = apps[d].age
        /\ (apps'[d].licensed => apps[d].valid)
    BY <2>1 DEF TypeOK, Apps, KeyLicensed
  <2>5. \A e \in Devices: e # d => apps'[e] = apps[e]
    BY <2>1 DEF TypeOK
  <2>6. ASSUME NEW q \in Requests
        PROVE  /\ At(q, "found")' /\ reqs'[q].copy.active => row.revokedFor = 0
               /\ Underway(q)' /\ reqs'[q].verdict = "valid" => row.revokedFor = 0
               /\ Underway(q)' /\ reqs'[q].waits => apps'[reqs'[q].device].up
    <3>1. CASE reqs'[q] = reqs[q]
      <4>1. Underway(q) => reqs[q].device \in Devices
        BY UnderwayType DEF RequestRecords
      <4>. QED
        BY <3>1, <4>1, <2>3 DEF LapseInv, At, Underway
    <3>2. CASE reqs'[q] # reqs[q]
      BY <3>2, <2>2, <2>4 DEF At, Underway
    <3>. QED
      BY <3>1, <3>2
  <2>. QED
    BY <2>1, <2>4, <2>5, <2>6 DEF LapseInv
<1>2. ASSUME NEW d \in Devices, Enter(d) PROVE LapseInv'
  <2>1. row' = row /\ apps' = apps /\ apps[d].up
    BY <1>2 DEF Enter
  <2>2. \A q \in Requests:
          \/ reqs'[q] = reqs[q]
          \/ /\ reqs'[q].stage = "sent" /\ reqs'[q].verdict = "none"
             /\ reqs'[q].device = d
    BY <1>2 DEF Enter, Request, TypeOK
  <2>. QED
    BY <2>1, <2>2 DEF LapseInv, At, Underway
<1>3. ASSUME NEW d \in Devices, Quit(d) PROVE LapseInv'
  <2>1. /\ row' = row
        /\ apps' = [apps EXCEPT ![d].up = FALSE, ![d].licensed = FALSE]
    BY <1>3 DEF Quit
  <2>2. ASSUME NEW q \in Requests, reqs'[q] # None
        PROVE  /\ reqs[q] # None
               /\ reqs'[q].stage = reqs[q].stage /\ reqs'[q].copy = reqs[q].copy
               /\ reqs'[q].verdict = reqs[q].verdict
               /\ reqs'[q].device = reqs[q].device
               /\ reqs'[q].waits => reqs[q].waits /\ reqs[q].device # d
    <3>1. CASE Underway(q) /\ reqs[q].device = d /\ reqs[q].waits
      <4>1. reqs'[q] = Heard(q)[q]
        BY <1>3, <3>1 DEF Quit
      <4>2. reqs[q] \in RequestRecords
        BY <3>1, UnderwayType
      <4>. QED
        BY <2>2, <3>1, <4>1, <4>2 DEF Heard, Underway, RequestRecords, TypeOK
    <3>2. CASE ~(Underway(q) /\ reqs[q].device = d /\ reqs[q].waits)
      BY <1>3, <2>2, <3>2 DEF Quit, Underway
    <3>. QED
      BY <3>1, <3>2
  <2>3. \A e \in Devices: /\ e # d => apps'[e] = apps[e]
                          /\ apps'[e].valid = apps[e].valid
                          /\ apps'[e].age = apps[e].age
                          /\ apps'[e].licensed => e # d
    BY <2>1 DEF TypeOK, Apps
  <2>4. \A q \in Requests: Underway(q) => reqs[q].device \in Devices
    BY UnderwayType DEF RequestRecords
  <2>5. ASSUME NEW q \in Requests
        PROVE  /\ At(q, "found")' /\ reqs'[q].copy.active => row.revokedFor = 0
               /\ Underway(q)' /\ reqs'[q].verdict = "valid" => row.revokedFor = 0
               /\ Underway(q)' /\ reqs'[q].waits => apps'[reqs'[q].device].up
    <3>1. CASE reqs'[q] = None
      BY <3>1 DEF At, Underway
    <3>2. CASE reqs'[q] # None
      BY <3>2, <2>2, <2>3, <2>4 DEF LapseInv, At, Underway
    <3>. QED
      BY <3>1, <3>2
  <2>6. ASSUME NEW e \in Devices
        PROVE  /\ apps'[e].licensed => apps'[e].up /\ apps'[e].valid
               /\ apps'[e].valid /\ ~row'.active => row'.revokedFor <= apps'[e].age
    BY <2>1, <2>3 DEF LapseInv
  <2>. QED
    BY <2>1, <2>5, <2>6 DEF LapseInv
<1>4. ASSUME NEW q \in Requests, FindLicence(q) PROVE LapseInv'
  <2>1. /\ row' = row /\ apps' = apps /\ At(q, "sent")
        /\ reqs' = [reqs EXCEPT ![q].stage = "found", ![q].copy = row]
    BY <1>4 DEF FindLicence
  <2>2. reqs[q] \in RequestRecords
    BY <2>1, UnderwayType DEF At, Underway
  <2>3. /\ reqs'[q].copy = row /\ reqs'[q].verdict = reqs[q].verdict
        /\ reqs'[q].waits = reqs[q].waits /\ reqs'[q].device = reqs[q].device
        /\ \A p \in Requests: p # q => reqs'[p] = reqs[p]
    BY <2>1, <2>2 DEF TypeOK, RequestRecords
  <2>. QED
    BY <2>1, <2>3 DEF LapseInv, At, Underway
<1>5. ASSUME NEW q \in Requests, SeatCheck(q) PROVE LapseInv'
  <2>. DEFINE out == Decide(reqs[q].copy, reqs[q].device, reqs[q].action)
  <2>1. /\ row' = row /\ apps' = apps /\ At(q, "found")
        /\ reqs' = [reqs EXCEPT ![q].stage = "checked",
                                ![q].verdict = out.verdict, ![q].copy = out.row]
    BY <1>5 DEF SeatCheck
  <2>2. reqs[q] \in RequestRecords
    BY <2>1, UnderwayType DEF At, Underway
  <2>3. out.verdict = "valid" => reqs[q].copy.active
    BY DEF Decide
  <2>. HIDE DEF out
  <2>4. /\ reqs'[q].stage = "checked" /\ reqs'[q].verdict = out.verdict
        /\ reqs'[q].waits = reqs[q].waits /\ reqs'[q].device = reqs[q].device
        /\ \A p \in Requests: p # q => reqs'[p] = reqs[p]
    BY <2>1, <2>2 DEF TypeOK, RequestRecords
  <2>. QED
    BY <2>1, <2>3, <2>4 DEF LapseInv, At, Underway
<1>6. ASSUME NEW q \in Requests, StoreDevices(q) PROVE LapseInv'
  <2>1. /\ apps' = apps /\ At(q, "checked")
        /\ reqs' = [reqs EXCEPT ![q] = IF @.waits
                        THEN [@ EXCEPT !.stage = "stored", !.copy = NewRow]
                        ELSE None]
    BY <1>6 DEF StoreDevices
  <2>2. row'.active = row.active /\ row'.revokedFor = row.revokedFor
    BY <1>6 DEF StoreDevices, TypeOK, Rows
  <2>3. reqs[q] \in RequestRecords
    BY <2>1, UnderwayType DEF At, Underway
  <2>4. /\ reqs'[q] # None =>
              /\ reqs'[q].stage = "stored" /\ reqs'[q].verdict = reqs[q].verdict
              /\ reqs'[q].waits = reqs[q].waits
              /\ reqs'[q].device = reqs[q].device
        /\ \A p \in Requests: p # q => reqs'[p] = reqs[p]
    BY <2>1, <2>3 DEF TypeOK, RequestRecords
  <2>. QED
    BY <2>1, <2>2, <2>4 DEF LapseInv, At, Underway
<1>7. ASSUME NEW q \in Requests, Answer(q) PROVE LapseInv'
  <2>. DEFINE d == reqs[q].device
  <2>1. /\ row' = row /\ Underway(q) /\ reqs[q].waits
        /\ reqs' = Heard(q)
        /\ apps' = [apps EXCEPT ![d] =
                      IF reqs[q].verdict = "valid" THEN Accepted(@)
                      ELSE IF reqs[q].action = "revalidate" THEN Rejected(@)
                      ELSE @]
    BY <1>7 DEF Answer
  <2>2. reqs[q] \in RequestRecords /\ d \in Devices
    BY <2>1, UnderwayType DEF RequestRecords
  <2>3. \A p \in Requests: p # q => reqs'[p] = reqs[p]
    BY <2>1 DEF Heard, TypeOK
  <2>4. reqs'[q] # None => /\ reqs'[q].stage = reqs[q].stage
                           /\ reqs'[q].copy = reqs[q].copy
                           /\ reqs'[q].verdict = reqs[q].verdict
                           /\ ~reqs'[q].waits
    BY <2>1, <2>2 DEF Heard, TypeOK, RequestRecords
  <2>5. \A e \in Devices: e # d => apps'[e] = apps[e]
    BY <2>1 DEF TypeOK
  <2>6. apps[d] \in Apps /\ apps[d].up
    BY <2>1, <2>2 DEF LapseInv, TypeOK
  <2>7. apps'[d].up
    BY <2>1, <2>2, <2>6 DEF TypeOK, Apps, Accepted, Rejected
  <2>8. /\ apps'[d].licensed => apps'[d].valid
        /\ apps'[d].valid /\ ~row.active => row.revokedFor <= apps'[d].age
    <3>1. CASE reqs[q].verdict = "valid"
      <4>1. row.revokedFor = 0
        BY <2>1, <3>1 DEF LapseInv
      <4>2. apps'[d].age = 0 /\ apps'[d].valid
        BY <2>1, <2>2, <2>6, <3>1 DEF TypeOK, Apps, Accepted
      <4>. QED
        BY <4>1, <4>2
    <3>2. CASE reqs[q].verdict # "valid"
      <4>1. apps'[d] = IF reqs[q].action = "revalidate" THEN Rejected(apps[d])
                       ELSE apps[d]
        BY <2>1, <2>2, <3>2 DEF TypeOK
      <4>. HIDE DEF d
      <4>2. ~Rejected(apps[d]).licensed /\ ~Rejected(apps[d]).valid
        BY <2>6 DEF Rejected, Apps
      <4>. QED
        BY <2>2, <4>1, <4>2 DEF LapseInv
    <3>. QED
      BY <3>1, <3>2
  <2>9. \A e \in Devices: apps[e].up => apps'[e].up
    BY <2>5, <2>7
  <2>10. \A p \in Requests: Underway(p) => reqs[p].device \in Devices
    BY UnderwayType DEF RequestRecords
  <2>. HIDE DEF d
  <2>11. ASSUME NEW p \in Requests
         PROVE  /\ At(p, "found")' /\ reqs'[p].copy.active => row.revokedFor = 0
                /\ Underway(p)' /\ reqs'[p].verdict = "valid" => row.revokedFor = 0
                /\ Underway(p)' /\ reqs'[p].waits => apps'[reqs'[p].device].up
    BY <2>1, <2>3, <2>4, <2>9, <2>10 DEF LapseInv, At, Underway
  <2>. QED
    BY <2>1, <2>2, <2>5, <2>7, <2>8, <2>11 DEF LapseInv
<1>8. ASSUME NEW q \in Requests, GiveUp(q) PROVE LapseInv'
  <2>1. row' = row /\ apps' = apps /\ Underway(q)
    BY <1>8 DEF GiveUp
  <2>2. reqs[q] \in RequestRecords
    BY <2>1, UnderwayType
  <2>3. /\ reqs'[q] # None => /\ reqs'[q].stage = reqs[q].stage
                              /\ reqs'[q].copy = reqs[q].copy
                              /\ reqs'[q].verdict = reqs[q].verdict
                              /\ ~reqs'[q].waits
        /\ \A p \in Requests: p # q => reqs'[p] = reqs[p]
    BY <1>8, <2>2 DEF GiveUp, Heard, TypeOK, RequestRecords
  <2>. QED
    BY <2>1, <2>3 DEF LapseInv, At, Underway
<1>9. ASSUME Revoke PROVE LapseInv'
  <2>1. /\ row.active /\ ~row'.active /\ row'.revokedFor = row.revokedFor
        /\ apps' = apps /\ reqs' = reqs
    BY <1>9 DEF Revoke, TypeOK, Rows
  <2>2. \A d \in Devices: apps[d].age \in Nat
    BY DEF TypeOK, Apps
  <2>. QED
    BY <2>1, <2>2 DEF LapseInv, At, Underway
<1>10. ASSUME Tick PROVE LapseInv'
  <2>1. /\ reqs' = reqs /\ row'.active = row.active
        /\ row'.revokedFor = IF row.active THEN 0
                             ELSE Older(row.revokedFor, OfflineGrace)
        /\ \A q \in Requests: ~Underway(q)
    BY <1>10 DEF Tick, TypeOK, Rows
  <2>2. \A d \in Devices: /\ apps'[d].age = Older(apps[d].age, OfflineGrace)
                          /\ apps'[d].valid = apps[d].valid
                          /\ apps'[d].licensed = apps[d].licensed
                          /\ apps'[d].up = apps[d].up
                          /\ apps[d].age \in 0..(OfflineGrace + 1)
    BY <1>10 DEF Tick, TypeOK, Apps
  <2>3. row.revokedFor \in 0..(OfflineGrace + 1)
    BY DEF TypeOK, Rows
  <2>4. \A a, b \in 0..(OfflineGrace + 1):
          a <= b => Older(a, OfflineGrace) <= Older(b, OfflineGrace)
    BY DEF Older
  <2>. QED
    BY <2>1, <2>2, <2>3, <2>4 DEF LapseInv, At, Underway
<1>11. CASE UNCHANGED vars
  BY <1>11 DEF vars, LapseInv, At, Underway
<1>. QED
  BY <1>1, <1>2, <1>3, <1>4, <1>5, <1>6, <1>7, <1>8, <1>9, <1>10, <1>11 DEF Next

LEMMA LapseHolds == Spec => [](TypeOK /\ LapseInv)
<1>1. Init => LapseInv
  BY DEF Init, LapseInv, NewRow, At, Underway
<1>2. TypeOK /\ LapseInv /\ [Next]_vars => LapseInv'
  BY LapseStep
<1>. QED
  BY <1>1, <1>2, TypeCorrect, PTL DEF Spec

(* Once a licence has been revoked for longer than the grace, what an      *)
(* install stored as valid is past the grace, and no request is underway   *)
(* that was decided valid.                                                 *)
LEMMA Revoked ==
  ASSUME TypeOK, LapseInv, row.revokedFor > OfflineGrace
  PROVE  /\ \A d \in Devices: ~KeyLicensed(apps[d])
         /\ \A q \in Requests: Underway(q) => reqs[q].verdict # "valid"
<1>1. OfflineGrace \in Nat /\ row.revokedFor \in Nat /\ row.active \in BOOLEAN
  BY LimitAssumption DEF TypeOK, Rows
<1>2. ~row.active
  BY <1>1 DEF LapseInv
<1>3. \A d \in Devices: apps[d].age \in Nat
  BY DEF TypeOK, Apps
<1>4. ASSUME NEW d \in Devices, KeyLicensed(apps[d]) PROVE FALSE
  BY <1>1, <1>2, <1>3, <1>4 DEF KeyLicensed, LapseInv
<1>5. ASSUME NEW q \in Requests, Underway(q), reqs[q].verdict = "valid"
      PROVE  FALSE
  BY <1>1, <1>5 DEF LapseInv
<1>. QED
  BY <1>4, <1>5

LEMMA RevokedStep ==
  ASSUME TypeOK, LapseInv, [Next]_vars, NEW d \in Devices,
         row.revokedFor > OfflineGrace, d \notin Pro \/ Load(d)
  PROVE  d \notin Pro'
<1>. USE LimitAssumption, SwitchAssumption
<1>1. /\ \A e \in Devices: ~KeyLicensed(apps[e])
      /\ \A q \in Requests: Underway(q) => reqs[q].verdict # "valid"
  BY Revoked
<1>2. ASSUME NEW e \in Devices, Load(e), e = d \/ ~apps[d].licensed
      PROVE  ~apps'[d].licensed
  <2>1. apps' = [apps EXCEPT ![e] =
                   [apps[e] EXCEPT !.up = TRUE, !.licensed = KeyLicensed(apps[e])]]
    BY <1>2 DEF Load
  <2>2. CASE e = d
    <3>1. apps[d] \in Apps /\ KeyLicensed(apps[d]) = FALSE
      BY <1>1 DEF TypeOK, KeyLicensed
    <3>2. apps'[d] = [apps[d] EXCEPT !.up = TRUE, !.licensed = FALSE]
      BY <2>1, <2>2, <3>1 DEF TypeOK
    <3>. QED
      BY <3>1, <3>2 DEF Apps
  <2>3. CASE e # d
    BY <1>2, <2>1, <2>3 DEF TypeOK
  <2>. QED
    BY <2>2, <2>3
<1>3. CASE Load(d)
  BY <1>2, <1>3 DEF Pro
<1>4. CASE ~apps[d].licensed
  <2>1. ASSUME NEW e \in Devices, Enter(e) PROVE ~apps'[d].licensed
    <3>1. apps' = apps
      BY <2>1 DEF Enter
    <3>. QED
      BY <1>4, <3>1
  <2>2. ASSUME NEW e \in Devices, Quit(e) PROVE ~apps'[d].licensed
    BY <1>4, <2>2 DEF Quit, TypeOK, Apps
  <2>3. ASSUME NEW q \in Requests, Answer(q) PROVE ~apps'[d].licensed
    <3>. DEFINE e == reqs[q].device
    <3>1. /\ Underway(q)
          /\ apps' = [apps EXCEPT ![e] =
                        IF reqs[q].verdict = "valid" THEN Accepted(@)
                        ELSE IF reqs[q].action = "revalidate" THEN Rejected(@)
                        ELSE @]
      BY <2>3 DEF Answer
    <3>2. e \in Devices /\ reqs[q].verdict # "valid"
      BY <3>1, <1>1, UnderwayType DEF RequestRecords
    <3>. HIDE DEF e
    <3>3. apps' = [apps EXCEPT ![e] =
                     IF reqs[q].action = "revalidate" THEN Rejected(@) ELSE @]
      BY <3>1, <3>2
    <3>4. apps[e] \in Apps
      BY <3>2 DEF TypeOK
    <3>5. ~Rejected(apps[e]).licensed
      BY <3>4 DEF Rejected, Apps
    <3>. QED
      BY <1>4, <3>2, <3>3, <3>5 DEF TypeOK
  <2>4. ASSUME NEW q \in Requests,
               FindLicence(q) \/ SeatCheck(q) \/ StoreDevices(q) \/ GiveUp(q)
        PROVE  ~apps'[d].licensed
    <3>1. apps' = apps
      BY <2>4 DEF FindLicence, SeatCheck, StoreDevices, GiveUp
    <3>. QED
      BY <1>4, <3>1
  <2>5. CASE Revoke \/ UNCHANGED vars
    <3>1. apps' = apps
      BY <2>5 DEF Revoke, vars
    <3>. QED
      BY <1>4, <3>1 DEF Pro
  <2>6. CASE Tick
    BY <1>4, <2>6 DEF Tick, TypeOK, Apps, Pro
  <2>. QED
    BY <1>2, <1>4, <2>1, <2>2, <2>3, <2>4, <2>5, <2>6 DEF Next, Pro
<1>. QED
  BY <1>3, <1>4 DEF Pro

(* A licence revoked for longer than the grace gives Pro to no install     *)
(* that did not have it, and to none that loads its record, however long   *)
(* the processes run and however the requests overlap.                     *)
THEOREM RevocationReaches ==
  Spec => RevokedStops
<1>1. TypeOK /\ LapseInv /\ [Next]_vars =>
        \A d \in Devices:
          row.revokedFor > OfflineGrace /\ (d \notin Pro \/ Load(d))
            => d \notin Pro'
  BY RevokedStep
<1>. QED
  BY <1>1, LapseHolds, PTL DEF Spec, RevokedStops

----------------------------------------------------------------------------
(* Nobody is denied for nothing.  Whoever stands before a device in the    *)
(* row took a seat after it did; handled one at a time, the copy a request *)
(* works on says the same.                                                 *)
FairIn(r) == \A d \in Devices: r.later[d] \subseteq since[d]

FairInv ==
  /\ \A p, q \in Requests: Busy(p) /\ Busy(q) => p = q
  /\ \A q \in Requests:
       /\ At(q, "found") => FairIn(reqs[q].copy)
       /\ At(q, "checked") => FairIn(reqs[q].copy)
       /\ At(q, "checked") /\ reqs[q].verdict = "inactive" => FairIn(row)
       /\ At(q, "sent") \/ At(q, "found") => reqs[q].verdict = "none"
  /\ (\A q \in Requests: ~At(q, "checked")) => FairIn(row)

(* Pruning takes devices out of the order and puts none in. *)
LEMMA PruneShrinks ==
  ASSUME NEW r \in Rows, NEW d \in Devices
  PROVE  Prune(r).later[d] \subseteq r.later[d]
<1>. DEFINE kept == SeatHolders(r) \cup {e \in r.known: r.seen[e] <= KeepDays}
<1>1. Prune(r).later = [e \in Devices |-> IF e \in kept THEN r.later[e] \cap kept
                                         ELSE {}]
  BY DEF Prune, Rows
<1>. QED
  BY <1>1

(* Deciding puts at most the device that takes a seat in the order, before *)
(* every other one.                                                        *)
LEMMA DecideOrder ==
  ASSUME NEW r \in Rows, NEW d \in Devices, NEW a \in Actions, NEW e \in Devices
  PROVE  LET out == Decide(r, d, a)
         IN out.row.later[e] \subseteq
              IF out.takes THEN IF e = d THEN {} ELSE r.later[e] \cup {d}
              ELSE r.later[e]
<1>1. Takes(r, d, a) \in BOOLEAN
  BY DEF Takes
<1>. DEFINE t == Takes(r, d, a)
            touched == Touch(r, d, t)
<1>2. touched \in Rows
  BY <1>1, TouchType
<1>3. touched.later[e] \subseteq IF t THEN IF e = d THEN {} ELSE r.later[e] \cup {d}
                                ELSE r.later[e]
  BY DEF Touch, Rows
<1>4. Prune(touched).later[e] \subseteq touched.later[e]
  BY <1>2, PruneShrinks
<1>5. CASE r.active
  <2>1. Decide(r, d, a).takes = t /\ Decide(r, d, a).row = Prune(touched)
    BY <1>5 DEF Decide
  <2>. HIDE DEF t, touched
  <2>. QED
    BY <2>1, <1>3, <1>4
<1>6. CASE ~r.active
  BY <1>6 DEF Decide
<1>. QED
  BY <1>5, <1>6

(* Whoever is denied had as many other devices before it as seats.         *)
LEMMA DeniedBehind ==
  ASSUME NEW r \in Rows, NEW d \in Devices, NEW a \in Actions,
         Decide(r, d, a).verdict = "seat_taken"
  PROVE  Cardinality(r.later[d]) >= Seats
<1>. DEFINE t == Takes(r, d, a)
            touched == Touch(r, d, t)
<1>. USE LimitAssumption, SwitchAssumption
<1>1. t \in BOOLEAN
  BY DEF Takes
<1>2. touched \in Rows
  BY <1>1, TouchType
<1>3. d \notin SeatHolders(touched)
  BY DEF Decide
<1>4. d \in Present(touched)
  BY DEF Present, Touch, Rows
<1>5. ~(Cardinality(touched.later[d] \cap Present(touched)) < Seats)
  BY <1>3, <1>4 DEF SeatHolders
<1>6. touched.later[d] = IF t THEN {} ELSE r.later[d]
  BY DEF Touch, Rows
<1>7. r.later[d] \subseteq Devices /\ IsFiniteSet(r.later[d])
  <2>1. r.later[d] \subseteq Devices
    BY DEF Rows
  <2>. QED
    BY <2>1, FS_Subset
<1>8. CASE t
  <2>1. Cardinality(touched.later[d] \cap Present(touched)) = 0
    <3>1. touched.later[d] \cap Present(touched) = {}
      BY <1>6, <1>8
    <3>. HIDE DEF touched
    <3>. QED
      BY <3>1, FS_EmptySet
  <2>. QED
    BY <2>1, <1>5
<1>9. CASE ~t
  <2>. DEFINE s == touched.later[d] \cap Present(touched)
  <2>1. s \subseteq r.later[d]
    BY <1>6, <1>9
  <2>2. ~(Cardinality(s) < Seats)
    BY <1>5
  <2>. HIDE DEF s
  <2>3. IsFiniteSet(s) /\ Cardinality(s) <= Cardinality(r.later[d])
    BY <2>1, <1>7, FS_Subset
  <2>4. Cardinality(s) \in Nat /\ Cardinality(r.later[d]) \in Nat
    BY <2>3, <1>7, FS_CardinalityType
  <2>. QED
    BY <2>2, <2>3, <2>4
<1>. QED
  BY <1>8, <1>9

(* What an install that takes an answer, gives up or quits does to the     *)
(* requests: one it stops waiting for goes on, unless it is at its end or  *)
(* never arrived.                                                          *)
LEMMA HeardReqs ==
  ASSUME TypeOK, NEW q \in Requests,
         \/ \E d \in Devices: Quit(d)
         \/ \E p \in Requests: Answer(p) \/ GiveUp(p)
  PROVE  \/ reqs'[q] = reqs[q]
         \/ reqs'[q] = None /\ reqs[q].stage \in {"sent", "stored"}
         \/ /\ reqs'[q].stage = reqs[q].stage /\ reqs'[q].copy = reqs[q].copy
            /\ reqs'[q].verdict = reqs[q].verdict
            /\ reqs'[q].device = reqs[q].device /\ reqs'[q].action = reqs[q].action
            /\ reqs[q] # None /\ reqs'[q] # None
<1>1. Underway(q) => reqs[q] \in RequestRecords
  BY UnderwayType
<1>2. ASSUME NEW p \in Requests, Underway(p)
      PROVE  /\ p # q => Heard(p)[q] = reqs[q]
             /\ Heard(q)[q] = IF reqs[q].stage = "stored" THEN None
                              ELSE [reqs[q] EXCEPT !.waits = FALSE]
  BY DEF Heard, TypeOK
<1>3. Underway(q) =>
        LET r == [reqs[q] EXCEPT !.waits = FALSE]
        IN  /\ r.stage = reqs[q].stage /\ r.copy = reqs[q].copy
            /\ r.verdict = reqs[q].verdict
            /\ r.device = reqs[q].device /\ r.action = reqs[q].action
  BY <1>1 DEF RequestRecords
<1>4. \/ reqs'[q] = reqs[q]
      \/ Underway(q) /\ reqs'[q] = Heard(q)[q]
      \/ reqs[q].stage = "sent" /\ reqs'[q] = None
  <2>1. CASE \E d \in Devices: Quit(d)
    BY <2>1 DEF Quit
  <2>2. ASSUME NEW p \in Requests, Answer(p) \/ GiveUp(p)
        PROVE  <1>4
    BY <2>2, <1>2 DEF Answer, GiveUp, TypeOK
  <2>. QED
    BY <2>1, <2>2
<1>5. ASSUME Underway(q), reqs'[q] = Heard(q)[q]
      PROVE  \/ reqs'[q] = None /\ reqs[q].stage = "stored"
             \/ reqs'[q] = [reqs[q] EXCEPT !.waits = FALSE]
  BY <1>2, <1>5
<1>6. Underway(q) => [reqs[q] EXCEPT !.waits = FALSE] # None
  <2>1. ASSUME Underway(q) PROVE [reqs[q] EXCEPT !.waits = FALSE] \in RequestRecords
    BY <1>1, <2>1 DEF RequestRecords
  <2>. QED
    BY <2>1, NoneAssumption
<1>. QED
  BY <1>3, <1>4, <1>5, <1>6 DEF Underway

(* An install that starts or enters its key may send a request.            *)
LEMMA SentReqs ==
  ASSUME TypeOK, NEW q \in Requests, NEW d \in Devices, Load(d) \/ Enter(d)
  PROVE  \/ reqs'[q] = reqs[q]
         \/ /\ ~Underway(q) /\ reqs'[q].stage = "sent"
            /\ reqs'[q].verdict = "none" /\ reqs'[q].copy = NewRow
BY DEF Load, Enter, Request, TypeOK

(* Steps that move no request between finding and storing.                 *)
LEMMA FairSame ==
  ASSUME FairInv, row'.later = row.later, since' = since,
         \A q \in Requests:
           /\ At(q, "found")' \/ At(q, "checked")' =>
                /\ At(q, "found")' = At(q, "found")
                /\ At(q, "checked")' = At(q, "checked")
                /\ reqs'[q].copy = reqs[q].copy
                /\ reqs'[q].verdict = reqs[q].verdict
           /\ At(q, "checked") => At(q, "checked")'
           /\ At(q, "sent")' => reqs'[q].verdict = "none"
  PROVE  FairInv'
<1>1. FairIn(row)' = FairIn(row)
  BY DEF FairIn
<1>2. ASSUME NEW q \in Requests, At(q, "found")' \/ At(q, "checked")'
      PROVE  FairIn(reqs[q].copy)' = FairIn(reqs[q].copy)
  BY <1>2 DEF FairIn
<1>3. \A q \in Requests: Busy(q)' => Busy(q)
  BY DEF Busy
<1>4. ASSUME NEW q \in Requests
      PROVE  /\ At(q, "found")' => FairIn(reqs[q].copy)'
             /\ At(q, "checked")' => FairIn(reqs[q].copy)'
             /\ At(q, "checked")' /\ reqs'[q].verdict = "inactive" => FairIn(row)'
             /\ At(q, "sent")' \/ At(q, "found")' => reqs'[q].verdict = "none"
  BY <1>1, <1>2 DEF FairInv
<1>. QED
  BY <1>1, <1>3, <1>4 DEF FairInv

LEMMA FairStep ==
  ASSUME TypeOK, FairInv, Serial, [Next]_vars
  PROVE  FairInv'
<1>1. ASSUME NEW d \in Devices, Load(d) \/ Enter(d) PROVE FairInv'
  <2>1. row' = row /\ since' = since
    BY <1>1 DEF Load, Enter
  <2>2. \A q \in Requests:
          \/ reqs'[q] = reqs[q]
          \/ /\ reqs'[q].stage = "sent" /\ reqs'[q].verdict = "none"
             /\ ~Underway(q)
    BY <1>1 DEF Load, Enter, Request, TypeOK
  <2>3. \A q \in Requests:
           /\ At(q, "found")' \/ At(q, "checked")' =>
                /\ At(q, "found")' = At(q, "found")
                /\ At(q, "checked")' = At(q, "checked")
                /\ reqs'[q].copy = reqs[q].copy
                /\ reqs'[q].verdict = reqs[q].verdict
           /\ At(q, "checked") => At(q, "checked")'
           /\ At(q, "sent")' => reqs'[q].verdict = "none"
    BY <2>2 DEF At, Underway, FairInv
  <2>. QED
    BY <2>1, <2>3, FairSame
<1>2. ASSUME \/ \E d \in Devices: Quit(d)
             \/ \E q \in Requests: Answer(q) \/ GiveUp(q)
      PROVE  FairInv'
  <2>1. row' = row /\ since' = since
    BY <1>2 DEF Quit, Answer, GiveUp
  <2>2. ASSUME NEW q \in Requests
        PROVE  \/ reqs'[q] = reqs[q]
               \/ reqs'[q] = None /\ reqs[q].stage \in {"sent", "stored"}
               \/ /\ reqs'[q].stage = reqs[q].stage /\ reqs'[q].copy = reqs[q].copy
                  /\ reqs'[q].verdict = reqs[q].verdict /\ reqs[q] # None
                  /\ reqs'[q] # None
    BY <1>2, HeardReqs
  <2>3. \A q \in Requests:
           /\ At(q, "found")' \/ At(q, "checked")' =>
                /\ At(q, "found")' = At(q, "found")
                /\ At(q, "checked")' = At(q, "checked")
                /\ reqs'[q].copy = reqs[q].copy
                /\ reqs'[q].verdict = reqs[q].verdict
           /\ At(q, "checked") => At(q, "checked")'
           /\ At(q, "sent")' => reqs'[q].verdict = "none"
    BY <2>2 DEF At, FairInv
  <2>. QED
    BY <2>1, <2>3, FairSame
<1>3. ASSUME NEW q \in Requests, FindLicence(q) PROVE FairInv'
  <2>1. /\ row' = row /\ since' = since /\ At(q, "sent")
        /\ reqs' = [reqs EXCEPT ![q].stage = "found", ![q].copy = row]
        /\ \A p \in Requests: ~Busy(p)
    BY <1>3 DEF FindLicence
  <2>2. reqs[q] \in RequestRecords
    BY <2>1, UnderwayType DEF At, Underway
  <2>3. /\ reqs'[q].stage = "found" /\ reqs'[q].copy = row
        /\ reqs'[q].verdict = "none"
        /\ \A p \in Requests: p # q => reqs'[p] = reqs[p]
    BY <2>1, <2>2 DEF TypeOK, RequestRecords, FairInv
  <2>4. FairIn(row)
    BY <2>1 DEF FairInv, Busy
  <2>5. FairIn(row)' /\ FairIn(reqs[q].copy)'
    BY <2>1, <2>3, <2>4 DEF FairIn
  <2>6. \A p \in Requests: p # q => ~Busy(p)'
    BY <2>1, <2>3 DEF Busy, At
  <2>. QED
    BY <2>1, <2>3, <2>5, <2>6 DEF FairInv, Busy, At
<1>4. ASSUME NEW q \in Requests, SeatCheck(q) PROVE FairInv'
  <2>. DEFINE d == reqs[q].device
              out == Decide(reqs[q].copy, d, reqs[q].action)
  <2>1. /\ row' = row /\ At(q, "found")
        /\ reqs' = [reqs EXCEPT ![q].stage = "checked",
                                ![q].verdict = out.verdict, ![q].copy = out.row]
        /\ since' = IF out.takes
                    THEN [e \in Devices |-> IF e = d THEN {} ELSE since[e] \cup {d}]
                    ELSE since
    BY <1>4 DEF SeatCheck
  <2>2. reqs[q] \in RequestRecords /\ reqs[q].copy \in Rows /\ d \in Devices
        /\ reqs[q].action \in Actions
    BY <2>1, UnderwayType DEF At, Underway, RequestRecords
  <2>3. \A e \in Devices: out.row.later[e] \subseteq
              IF out.takes THEN IF e = d THEN {} ELSE reqs[q].copy.later[e] \cup {d}
              ELSE reqs[q].copy.later[e]
    BY <2>2, DecideOrder
  <2>4. out.verdict = "inactive" => out.takes = FALSE
    BY DEF Decide
  <2>12. out.row \in Rows /\ out.verdict \in Verdicts
    BY <2>2, DecideType
  <2>. HIDE DEF out, d
  <2>5. /\ reqs'[q].stage = "checked" /\ reqs'[q].verdict = out.verdict
        /\ reqs'[q].copy = out.row
        /\ \A p \in Requests: p # q => reqs'[p] = reqs[p]
    BY <2>1, <2>2 DEF TypeOK, RequestRecords
  <2>6. \A p \in Requests: p # q => ~Busy(p) /\ ~Busy(p)'
    BY <2>1, <2>5 DEF FairInv, Busy, At
  <2>7. FairIn(reqs[q].copy) /\ FairIn(row)
    BY <2>1, <2>6 DEF FairInv, Busy, At
  <2>8. FairIn(reqs[q].copy)'
    <3>1. CASE out.takes
      BY <2>1, <2>2, <2>3, <2>5, <2>7, <3>1 DEF FairIn, TypeOK
    <3>2. CASE ~out.takes
      BY <2>1, <2>2, <2>3, <2>5, <2>7, <3>2 DEF FairIn, TypeOK
    <3>. QED
      BY <3>1, <3>2
  <2>9. out.verdict = "inactive" => FairIn(row)'
    BY <2>1, <2>4, <2>7 DEF FairIn
  <2>10. Busy(q)' /\ At(q, "checked")' /\ ~At(q, "found")' /\ ~At(q, "sent")'
    <3>1. reqs'[q] # None
      <4>1. reqs'[q] \in RequestRecords
        BY <2>1, <2>2, <2>12 DEF TypeOK, RequestRecords, Stages
      <4>. QED
        BY <4>1, NoneAssumption
    <3>. QED
      BY <2>5, <3>1 DEF Busy, At
  <2>11. \A p \in Requests: p # q /\ At(p, "sent")' => reqs'[p].verdict = "none"
    BY <2>5 DEF FairInv, At
  <2>. QED
    BY <2>5, <2>6, <2>8, <2>9, <2>10, <2>11 DEF FairInv, Busy
<1>5. ASSUME NEW q \in Requests, StoreDevices(q) PROVE FairInv'
  <2>1. /\ since' = since /\ At(q, "checked")
        /\ reqs' = [reqs EXCEPT ![q] = IF @.waits
                        THEN [@ EXCEPT !.stage = "stored", !.copy = NewRow]
                        ELSE None]
        /\ row' = IF reqs[q].verdict = "inactive" THEN row
                  ELSE [row EXCEPT !.known = reqs[q].copy.known,
                                   !.seen = reqs[q].copy.seen,
                                   !.later = reqs[q].copy.later]
    BY <1>5 DEF StoreDevices
  <2>2. reqs[q] \in RequestRecords
    BY <2>1, UnderwayType DEF At, Underway
  <2>3. reqs'[q] = None \/ reqs'[q].stage = "stored"
    BY <2>1, <2>2 DEF TypeOK, RequestRecords
  <2>4. \A p \in Requests: p # q => reqs'[p] = reqs[p]
    BY <2>1 DEF TypeOK
  <2>5. \A p \in Requests: ~Busy(p)'
    BY <2>1, <2>3, <2>4 DEF FairInv, Busy, At
  <2>6. (row'.later = row.later /\ FairIn(row)) \/ row'.later = reqs[q].copy.later
    BY <2>1 DEF TypeOK, Rows, FairInv
  <2>7. FairIn(row)'
    BY <2>1, <2>6 DEF FairIn, FairInv
  <2>8. \A p \in Requests: At(p, "sent")' => reqs'[p].verdict = "none"
    BY <2>3, <2>4 DEF At, FairInv
  <2>. QED
    BY <2>5, <2>7, <2>8 DEF FairInv, Busy
<1>6. ASSUME Revoke \/ Tick \/ UNCHANGED vars PROVE FairInv'
  <2>1. row'.later = row.later /\ since' = since /\ reqs' = reqs
    BY <1>6 DEF Revoke, Tick, vars, TypeOK, Rows
  <2>. QED
    BY <2>1, FairSame DEF At, FairInv
<1>. QED
  BY <1>1, <1>2, <1>3, <1>4, <1>5, <1>6 DEF Next

(* Only the seat check turns a request away.                               *)
LEMMA DenialStep ==
  ASSUME TypeOK, FairInv, [Next]_vars, NEW q \in Requests, At(q, "found"),
         reqs'[q] # None, reqs'[q].verdict = "seat_taken"
  PROVE  Cardinality(since[reqs[q].device]) >= Seats
<1>. DEFINE d == reqs[q].device
<1>1. reqs[q] \in RequestRecords /\ reqs[q].copy \in Rows /\ d \in Devices
      /\ reqs[q].action \in Actions /\ reqs[q].verdict = "none"
  BY UnderwayType DEF At, Underway, RequestRecords, FairInv
<1>2. ASSUME \A p \in Requests: Underway(p) => Heard(p)[q] = None \/
                 Heard(p)[q].verdict = reqs[q].verdict
      PROVE  SeatCheck(q)
  <2>1. CASE \E e \in Devices: Load(e) \/ Enter(e)
    BY <2>1, <1>1 DEF Load, Enter, Request, TypeOK
  <2>2. CASE \E e \in Devices: Quit(e)
    BY <2>2, <1>1, <1>2 DEF Quit
  <2>3. ASSUME NEW p \in Requests, FindLicence(p) PROVE FALSE
    BY <2>3, <1>1 DEF FindLicence, At, TypeOK
  <2>4. ASSUME NEW p \in Requests, SeatCheck(p) PROVE p = q
    BY <2>4, <1>1 DEF SeatCheck, TypeOK
  <2>5. ASSUME NEW p \in Requests, StoreDevices(p) PROVE FALSE
    BY <2>5, <1>1 DEF StoreDevices, At, TypeOK
  <2>6. ASSUME NEW p \in Requests, Answer(p) \/ GiveUp(p) PROVE FALSE
    BY <2>6, <1>1, <1>2 DEF Answer, GiveUp, TypeOK
  <2>7. CASE Revoke \/ Tick \/ UNCHANGED vars
    BY <2>7, <1>1 DEF Revoke, Tick, vars
  <2>. QED
    BY <2>1, <2>2, <2>3, <2>4, <2>5, <2>6, <2>7 DEF Next
<1>3. ASSUME NEW p \in Requests, Underway(p)
      PROVE  Heard(p)[q] = None \/ Heard(p)[q].verdict = reqs[q].verdict
  BY <1>1 DEF Heard, TypeOK, RequestRecords
<1>4. SeatCheck(q)
  BY <1>2, <1>3
<1>5. Decide(reqs[q].copy, d, reqs[q].action).verdict = "seat_taken"
  <2>. DEFINE out == Decide(reqs[q].copy, d, reqs[q].action)
  <2>1. reqs' = [reqs EXCEPT ![q].stage = "checked",
                             ![q].verdict = out.verdict, ![q].copy = out.row]
    BY <1>4 DEF SeatCheck
  <2>. HIDE DEF out
  <2>2. reqs'[q].verdict = out.verdict
    BY <1>1, <2>1 DEF TypeOK, RequestRecords
  <2>. QED
    BY <2>2 DEF out
<1>6. Cardinality(reqs[q].copy.later[d]) >= Seats
  BY <1>1, <1>5, DeniedBehind
<1>7. reqs[q].copy.later[d] \subseteq since[d]
  BY <1>1 DEF FairInv, FairIn
<1>8. IsFiniteSet(since[d])
  <2>1. since[d] \subseteq Devices
    BY <1>1 DEF TypeOK
  <2>. QED
    BY <2>1, FS_Subset, SwitchAssumption
<1>. HIDE DEF d
<1>9. Cardinality(reqs[q].copy.later[d]) <= Cardinality(since[d])
  BY <1>7, <1>8, FS_Subset
<1>10. /\ Cardinality(reqs[q].copy.later[d]) \in Nat
       /\ Cardinality(since[d]) \in Nat
  BY <1>7, <1>8, FS_Subset, FS_CardinalityType
<1>11. Cardinality(since[d]) >= Seats
  BY <1>6, <1>9, <1>10, LimitAssumption
<1>. QED
  BY <1>11 DEF d

(* Handled one request at a time, the service turns a device away only     *)
(* when as many others as there are seats took one after it did            *)
(* (seat_check.js, decide()).                                              *)
THEOREM Fair ==
  ASSUME Serial
  PROVE  Spec => DeniedFairly
<1>1. Init => FairInv
  BY DEF Init, FairInv, FairIn, NewRow, Busy, At
<1>2. TypeOK /\ FairInv /\ [Next]_vars => FairInv'
  BY FairStep
<1>3. TypeOK /\ FairInv /\ [Next]_vars =>
        \A q \in Requests:
          At(q, "found") /\ reqs'[q] # None /\ reqs'[q].verdict = "seat_taken"
            => Cardinality(since[reqs[q].device]) >= Seats
  BY DenialStep
<1>. QED
  BY <1>1, <1>2, <1>3, TypeCorrect, PTL DEF Spec, DeniedFairly

----------------------------------------------------------------------------
(* A row's order of activation is a strict total order of the devices it   *)
(* knows, and a device it does not know has the age "dropped".             *)
OrderIn(r) ==
  /\ \A d \in Devices \ r.known: r.seen[d] = KeepDays + 1
  /\ \A d \in Devices: r.later[d] \subseteq r.known
  /\ \A d \in r.known: d \notin r.later[d]
  /\ \A d, e \in r.known: d # e => d \in r.later[e] \/ e \in r.later[d]
  /\ \A d, e \in r.known: e \in r.later[d] => r.later[e] \subseteq r.later[d]

OrderInv ==
  /\ OrderIn(row)
  /\ \A q \in Requests: Underway(q) => OrderIn(reqs[q].copy)

(* A non-empty set of known devices has one that activated before all the  *)
(* others of the set.                                                      *)
LEMMA Earliest ==
  ASSUME NEW r \in Rows, OrderIn(r), NEW S \in SUBSET r.known, S # {}
  PROVE  \E d \in S: S \ {d} \subseteq r.later[d]
<1>. DEFINE Before(d) == S \ r.later[d]
            T == {Before(d): d \in S}
<1>1. S \subseteq Devices /\ IsFiniteSet(S)
  <2>1. S \subseteq Devices
    BY DEF Rows
  <2>. QED
    BY <2>1, FS_Subset, SwitchAssumption
<1>2. T \subseteq FiniteSubsetsOf(S) /\ T # {}
  <2>1. FiniteSubsetsOf(S) = SUBSET S
    BY <1>1, FS_FiniteSubsetsOfFinite
  <2>2. T \subseteq SUBSET S /\ T # {}
    OBVIOUS
  <2>. QED
    BY <2>1, <2>2
<1>3. IsWellFoundedOn(StrictSubsetOrdering(S), FiniteSubsetsOf(S))
  BY FS_StrictSubsetOrderingWellFounded
<1>4. PICK x \in T: \A y \in T: ~(<<y, x>> \in StrictSubsetOrdering(S))
  BY <1>2, <1>3, WFMin
<1>5. PICK d \in S: x = Before(d)
  OBVIOUS
<1>6. ASSUME NEW e \in S, e # d, e \notin r.later[d] PROVE FALSE
  <2>1. d \in r.known /\ e \in r.known
    OBVIOUS
  <2>2. d \in r.later[e] /\ r.later[d] \subseteq r.later[e] /\ d \notin r.later[d]
    BY <1>6, <2>1 DEF OrderIn
  <2>3. Before(e) \in T /\ Before(e) \subseteq x /\ Before(e) # x
    BY <1>5, <2>2
  <2>4. Before(e) \in SUBSET S /\ x \in SUBSET S
    BY <1>5
  <2>. HIDE DEF Before, T
  <2>5. <<Before(e), x>> \in StrictSubsetOrdering(S)
    BY <2>3, <2>4 DEF StrictSubsetOrdering
  <2>. QED
    BY <1>4, <2>3, <2>5
<1>. QED
  BY <1>6

(* No row has more seat holders than seats.                                *)
LEMMA HoldersBounded ==
  ASSUME NEW r \in Rows, OrderIn(r)
  PROVE  IsFiniteSet(SeatHolders(r)) /\ Cardinality(SeatHolders(r)) <= Seats
<1>. DEFINE H == SeatHolders(r)
<1>1. H \subseteq r.known /\ H \subseteq Present(r) /\ r.known \subseteq Devices
  BY DEF SeatHolders, Present, Rows
<1>2. IsFiniteSet(H)
  BY <1>1, FS_Subset, SwitchAssumption
<1>3. CASE H = {}
  BY <1>2, <1>3, FS_EmptySet, LimitAssumption
<1>4. CASE H # {}
  <2>1. PICK d \in H: H \ {d} \subseteq r.later[d]
    BY <1>1, <1>4, Earliest
  <2>. DEFINE after == r.later[d] \cap Present(r)
  <2>2. Cardinality(after) < Seats
    BY <2>1 DEF SeatHolders
  <2>3. H \ {d} \subseteq after
    BY <1>1, <2>1
  <2>4. IsFiniteSet(after)
    <3>1. after \subseteq Devices
      BY <1>1 DEF Present
    <3>. QED
      BY <3>1, FS_Subset, SwitchAssumption
  <2>. HIDE DEF after, H
  <2>5. Cardinality(H \ {d}) <= Cardinality(after)
    BY <2>3, <2>4, FS_Subset
  <2>6. Cardinality(H \ {d}) = Cardinality(H) - 1 /\ IsFiniteSet(H \ {d})
    BY <1>2, <2>1, FS_RemoveElement
  <2>7. Cardinality(H) \in Nat /\ Cardinality(after) \in Nat /\ Seats \in Nat
    BY <1>2, <2>4, FS_CardinalityType, LimitAssumption
  <2>. QED
    BY <1>2, <2>2, <2>5, <2>6, <2>7 DEF H
<1>. QED
  BY <1>3, <1>4

(* What touching does to a row's fields.                                   *)
LEMMA TouchFacts ==
  ASSUME NEW r \in Rows, NEW d \in Devices, NEW t \in BOOLEAN, OrderIn(r), d \notin r.known => t
  PROVE  LET touched == Touch(r, d, t)
         IN  /\ touched \in Rows /\ OrderIn(touched)
             /\ touched.known = r.known \cup {d}
             /\ touched.seen[d] = 0
             /\ \A e \in Devices: e # d => touched.seen[e] = r.seen[e]
             /\ t => touched.later[d] = {}
             /\ ~t => touched.later = r.later
<1>. DEFINE touched == Touch(r, d, t)
<1>1. touched \in Rows
  BY TouchType
<1>2. /\ touched.known = r.known \cup {d}
      /\ touched.seen = [r.seen EXCEPT ![d] = 0]
      /\ touched.later = IF t THEN [e \in Devices |->
                                      IF e = d THEN {}
                                      ELSE IF e \in r.known THEN r.later[e] \cup {d}
                                      ELSE r.later[e]]
                         ELSE r.later
  BY DEF Touch, Rows
<1>. HIDE DEF touched
<1>3. touched.seen[d] = 0 /\ \A e \in Devices: e # d => touched.seen[e] = r.seen[e]
  BY <1>2 DEF Rows
<1>4. r.known \subseteq Devices
  BY DEF Rows
<1>5. t => /\ touched.later[d] = {}
           /\ \A e \in r.known: e # d => touched.later[e] = r.later[e] \cup {d}
           /\ \A e \in Devices: e # d /\ e \notin r.known => touched.later[e] = r.later[e]
  BY <1>2, <1>4
<1>6. ~t => touched.later = r.later /\ touched.known = r.known
  BY <1>2
<1>7. OrderIn(touched)
  <2>1. \A e \in Devices \ touched.known: touched.seen[e] = KeepDays + 1
    BY <1>2, <1>3 DEF OrderIn
  <2>2. \A e \in Devices: touched.later[e] \subseteq touched.known
    BY <1>2, <1>5, <1>6 DEF OrderIn
  <2>3. \A e \in touched.known: e \notin touched.later[e]
    BY <1>2, <1>5, <1>6 DEF OrderIn
  <2>4. \A e, f \in touched.known: e # f => e \in touched.later[f] \/ f \in touched.later[e]
    BY <1>2, <1>5, <1>6 DEF OrderIn
  <2>5. ASSUME NEW e \in touched.known, NEW f \in touched.known, f \in touched.later[e]
        PROVE  touched.later[f] \subseteq touched.later[e]
    <3>1. CASE ~t
      BY <1>6, <2>5, <3>1 DEF OrderIn
    <3>2. CASE t /\ f = d
      BY <1>5, <3>2
    <3>3. CASE t /\ f # d
      BY <1>2, <1>5, <2>5, <3>3 DEF OrderIn
    <3>. QED
      BY <3>1, <3>2, <3>3
  <2>. QED
    BY <2>1, <2>2, <2>3, <2>4, <2>5 DEF OrderIn
<1>. QED
  BY <1>1, <1>2, <1>3, <1>5, <1>6, <1>7 DEF touched

(* Pruning forgets devices that are long gone and hold no seat: whoever is *)
(* around stays, and so do the holders.                                    *)
LEMMA PruneFacts ==
  ASSUME NEW r \in Rows, OrderIn(r)
  PROVE  LET p == Prune(r)
         IN  /\ p \in Rows /\ OrderIn(p)
             /\ \A d \in Devices: \/ d \in p.known /\ p.seen[d] = r.seen[d]
                                  \/ r.seen[d] > KeepDays /\ p.seen[d] = KeepDays + 1
             /\ \A d \in Devices: p.later[d] \subseteq r.later[d]
             /\ Present(p) = Present(r)
             /\ SeatHolders(p) = SeatHolders(r)
<1>. DEFINE kept == SeatHolders(r) \cup {d \in r.known: r.seen[d] <= KeepDays}
            p == Prune(r)
<1>1. p \in Rows
  BY PruneType
<1>2. /\ p.known = kept
      /\ p.seen = [d \in Devices |-> IF d \in kept THEN r.seen[d] ELSE KeepDays + 1]
      /\ p.later = [d \in Devices |-> IF d \in kept THEN r.later[d] \cap kept ELSE {}]
  BY DEF Prune, Rows
<1>3. /\ kept \subseteq r.known /\ r.known \subseteq Devices
      /\ Present(r) \subseteq kept
      /\ \A d \in r.known: d \notin kept => ~(r.seen[d] <= KeepDays)
  <2>1. \A d \in Devices: r.seen[d] \in Nat /\ (r.seen[d] <= SeatWindow => r.seen[d] <= KeepDays)
    BY LimitAssumption DEF Rows
  <2>. QED
    BY <2>1 DEF SeatHolders, Present, Rows
<1>4. \A d \in Devices: d \notin r.known => r.seen[d] = KeepDays + 1
  BY DEF OrderIn
<1>. HIDE DEF kept, p
<1>5. \A d \in Devices: r.seen[d] \in Nat /\ KeepDays \in Nat /\ SeatWindow \in Nat
                        /\ SeatWindow <= KeepDays
  BY LimitAssumption DEF Rows
<1>6. \A d \in Devices: \/ d \in p.known /\ p.seen[d] = r.seen[d]
                        \/ r.seen[d] > KeepDays /\ p.seen[d] = KeepDays + 1
  BY <1>2, <1>3, <1>4, <1>5
<1>7. Present(p) = Present(r)
  BY <1>2, <1>3, <1>5 DEF Present
<1>8. \A d \in Present(r): p.later[d] \cap Present(p) = r.later[d] \cap Present(r)
  BY <1>2, <1>3, <1>7
<1>9. SeatHolders(p) = SeatHolders(r)
  BY <1>7, <1>8 DEF SeatHolders
<1>10. OrderIn(p)
  <2>1. \A d \in Devices \ p.known: p.seen[d] = KeepDays + 1
    BY <1>2
  <2>2. \A d \in Devices: p.later[d] \subseteq p.known
    BY <1>2
  <2>3. \A d \in p.known: d \in r.known /\ p.later[d] = r.later[d] \cap kept
    BY <1>2, <1>3
  <2>4. \A d \in p.known: d \notin p.later[d]
    BY <2>3 DEF OrderIn
  <2>5. \A d, e \in p.known: d # e => d \in p.later[e] \/ e \in p.later[d]
    BY <1>2, <2>3 DEF OrderIn
  <2>6. \A d, e \in p.known: e \in p.later[d] => p.later[e] \subseteq p.later[d]
    BY <1>2, <2>3 DEF OrderIn
  <2>. QED
    BY <2>1, <2>2, <2>4, <2>5, <2>6 DEF OrderIn
<1>11. \A d \in Devices: p.later[d] \subseteq r.later[d]
  BY <1>2
<1>. QED
  BY <1>1, <1>6, <1>7, <1>9, <1>10, <1>11 DEF p

(* What deciding on an active row does to its seats: a device turned away  *)
(* displaces nobody, and neither does a re-check by one that is around.    *)
LEMMA DecideSeats ==
  ASSUME NEW r \in Rows, OrderIn(r), r.active, NEW d \in Devices, NEW a \in Actions
  PROVE  LET out == Decide(r, d, a)
         IN  /\ out.row \in Rows /\ OrderIn(out.row)
             /\ out.verdict = IF d \in SeatHolders(out.row) THEN "valid" ELSE "seat_taken"
             /\ out.row.seen[d] = 0
             /\ \A e \in Devices:
                  e # d => \/ out.row.seen[e] = r.seen[e]
                           \/ r.seen[e] > KeepDays /\ out.row.seen[e] = KeepDays + 1
             /\ out.takes => out.row.later[d] = {}
             /\ ~out.takes => \A e \in Devices: out.row.later[e] \subseteq r.later[e]
             /\ out.verdict = "seat_taken" =>
                  \A e \in SeatHolders(r): e # d => e \in SeatHolders(out.row)
             /\ a = "revalidate" /\ d \in Present(r) => SeatHolders(out.row) = SeatHolders(r)
<1>. DEFINE t == Takes(r, d, a)
            touched == Touch(r, d, t)
            p == Prune(touched)
            out == Decide(r, d, a)
<1>1. t \in BOOLEAN /\ (d \notin r.known => t) /\ (a = "revalidate" /\ d \in r.known => ~t)
  BY DEF Takes, Actions
<1>2. /\ out.takes = t /\ out.row = p
      /\ out.verdict = IF d \in SeatHolders(touched) THEN "valid" ELSE "seat_taken"
  BY DEF Decide
<1>. HIDE DEF out, p, t
<1>3. /\ touched \in Rows /\ OrderIn(touched)
      /\ touched.known = r.known \cup {d}
      /\ touched.seen[d] = 0
      /\ \A e \in Devices: e # d => touched.seen[e] = r.seen[e]
      /\ t => touched.later[d] = {}
      /\ ~t => touched.later = r.later
  BY <1>1, TouchFacts
<1>. HIDE DEF touched
<1>4. /\ p \in Rows /\ OrderIn(p)
      /\ \A e \in Devices: \/ e \in p.known /\ p.seen[e] = touched.seen[e]
                           \/ touched.seen[e] > KeepDays /\ p.seen[e] = KeepDays + 1
      /\ \A e \in Devices: p.later[e] \subseteq touched.later[e]
      /\ SeatHolders(p) = SeatHolders(touched)
  BY <1>3, PruneFacts DEF p
<1>5. p.seen[d] = 0
  BY <1>3, <1>4, LimitAssumption
<1>6. Present(touched) = Present(r) \cup {d}
  <2>1. 0 <= SeatWindow /\ r.known \subseteq Devices
    BY LimitAssumption DEF Rows
  <2>. QED
    BY <1>3, <2>1 DEF Present
<1>7. ASSUME NEW e \in Devices
      PROVE  /\ IsFiniteSet(r.later[e]) /\ IsFiniteSet(touched.later[e])
             /\ e # d /\ d \notin touched.later[e] /\ ~t =>
                  (e \in SeatHolders(touched) <=> e \in SeatHolders(r))
  <2>1. r.later[e] \subseteq Devices /\ touched.later[e] \subseteq Devices
    BY <1>3 DEF Rows
  <2>2. IsFiniteSet(r.later[e]) /\ IsFiniteSet(touched.later[e])
    BY <2>1, FS_Subset, SwitchAssumption
  <2>3. ~t /\ d \notin touched.later[e] =>
          touched.later[e] \cap Present(touched) = r.later[e] \cap Present(r)
    BY <1>3, <1>6
  <2>. QED
    BY <1>6, <2>2, <2>3 DEF SeatHolders
<1>8. ASSUME out.verdict = "seat_taken", NEW e \in SeatHolders(r), e # d
      PROVE  e \in SeatHolders(p)
  <2>1. d \notin SeatHolders(touched) /\ d \in Present(touched)
    BY <1>2, <1>6, <1>8
  <2>2. ~(Cardinality(touched.later[d] \cap Present(touched)) < Seats)
    BY <2>1 DEF SeatHolders
  <2>3. ~t
    <3>1. ASSUME t PROVE Cardinality(touched.later[d] \cap Present(touched)) = 0
      <4>1. touched.later[d] \cap Present(touched) = {}
        BY <1>3, <3>1
      <4>. QED
        BY <4>1, FS_EmptySet
    <3>. QED
      BY <2>2, <3>1, LimitAssumption
  <2>4. e \in r.known /\ d \in r.known /\ e \in Devices
    BY <1>1, <2>3 DEF SeatHolders, Present, Rows
  <2>5. CASE d \notin touched.later[e]
    BY <1>4, <1>7, <1>8, <2>3, <2>4, <2>5
  <2>6. CASE d \in touched.later[e]
    <3>. DEFINE b == touched.later[d] \cap Present(touched)
                c == r.later[e] \cap Present(r)
    <3>1. b \subseteq c
      <4>1. d \notin r.later[d] /\ r.later[d] \subseteq r.later[e]
        BY <1>3, <2>3, <2>4, <2>6 DEF OrderIn
      <4>. QED
        BY <1>3, <1>6, <2>3, <4>1
    <3>2. Cardinality(c) < Seats
      BY DEF SeatHolders
    <3>3. IsFiniteSet(c)
      BY <1>7, <2>4, FS_Intersection
    <3>. HIDE DEF b, c
    <3>4. Cardinality(b) <= Cardinality(c) /\ IsFiniteSet(b)
      BY <3>1, <3>3, FS_Subset
    <3>5. Cardinality(b) \in Nat /\ Cardinality(c) \in Nat /\ Seats \in Nat
      BY <3>3, <3>4, FS_CardinalityType, LimitAssumption
    <3>. QED
      BY <2>2, <3>2, <3>4, <3>5 DEF b
  <2>. QED
    BY <2>5, <2>6
<1>9. ASSUME a = "revalidate", d \in Present(r) PROVE SeatHolders(p) = SeatHolders(r)
  <2>1. ~t /\ Present(touched) = Present(r)
    BY <1>1, <1>6, <1>9 DEF Present
  <2>. QED
    BY <1>3, <1>4, <2>1 DEF SeatHolders
<1>10. \A e \in Devices: e # d => \/ p.seen[e] = r.seen[e]
                                  \/ r.seen[e] > KeepDays /\ p.seen[e] = KeepDays + 1
  BY <1>3, <1>4
<1>11. /\ t => p.later[d] = {}
       /\ ~t => \A e \in Devices: p.later[e] \subseteq r.later[e]
  BY <1>3, <1>4
<1>. QED
  BY <1>2, <1>4, <1>5, <1>8, <1>9, <1>10, <1>11 DEF out

(* The order and the holders are in the devices column alone.              *)
LEMMA OrderSame ==
  ASSUME NEW r, NEW s, r.known = s.known, r.seen = s.seen, r.later = s.later
  PROVE  (OrderIn(r) => OrderIn(s)) /\ Present(r) = Present(s) /\ SeatHolders(r) = SeatHolders(s)
BY DEF OrderIn, Present, SeatHolders

LEMMA NewRowOrder == OrderIn(NewRow)
BY DEF OrderIn, NewRow

LEMMA DecideOrderIn ==
  ASSUME NEW r \in Rows, OrderIn(r), NEW d \in Devices, NEW a \in Actions
  PROVE  OrderIn(Decide(r, d, a).row)
<1>1. CASE r.active
  BY <1>1, DecideSeats
<1>2. CASE ~r.active
  BY <1>2 DEF Decide
<1>. QED
  BY <1>1, <1>2

LEMMA OrderStep ==
  ASSUME TypeOK, OrderInv, [Next]_vars
  PROVE  OrderInv'
<1>1. ASSUME NEW d \in Devices, Load(d) \/ Enter(d) PROVE OrderInv'
  <2>1. row' = row
    BY <1>1 DEF Load, Enter
  <2>2. \A q \in Requests: Underway(q)' => OrderIn(reqs'[q].copy)
    BY <1>1, SentReqs, NewRowOrder DEF OrderInv, Underway
  <2>. QED
    BY <2>1, <2>2 DEF OrderInv
<1>2. ASSUME \/ \E d \in Devices: Quit(d)
             \/ \E q \in Requests: Answer(q) \/ GiveUp(q)
      PROVE  OrderInv'
  <2>1. row' = row
    BY <1>2 DEF Quit, Answer, GiveUp
  <2>2. \A q \in Requests: Underway(q)' => OrderIn(reqs'[q].copy)
    BY <1>2, HeardReqs DEF OrderInv, Underway
  <2>. QED
    BY <2>1, <2>2 DEF OrderInv
<1>3. ASSUME NEW q \in Requests, FindLicence(q) PROVE OrderInv'
  <2>1. /\ row' = row /\ At(q, "sent")
        /\ reqs' = [reqs EXCEPT ![q].stage = "found", ![q].copy = row]
    BY <1>3 DEF FindLicence
  <2>2. reqs[q] \in RequestRecords
    BY <2>1, UnderwayType DEF At, Underway
  <2>3. reqs'[q].copy = row /\ \A p \in Requests: p # q => reqs'[p] = reqs[p]
    BY <2>1, <2>2 DEF TypeOK, RequestRecords
  <2>. QED
    BY <2>1, <2>3 DEF OrderInv, Underway
<1>4. ASSUME NEW q \in Requests, SeatCheck(q) PROVE OrderInv'
  <2>. DEFINE out == Decide(reqs[q].copy, reqs[q].device, reqs[q].action)
  <2>1. /\ row' = row /\ At(q, "found")
        /\ reqs' = [reqs EXCEPT ![q].stage = "checked",
                                ![q].verdict = out.verdict, ![q].copy = out.row]
    BY <1>4 DEF SeatCheck
  <2>2. /\ reqs[q] \in RequestRecords /\ reqs[q].copy \in Rows /\ reqs[q].device \in Devices
        /\ reqs[q].action \in Actions /\ OrderIn(reqs[q].copy)
    BY <2>1, UnderwayType DEF At, Underway, RequestRecords, OrderInv
  <2>3. OrderIn(out.row)
    BY <2>2, DecideOrderIn
  <2>. HIDE DEF out
  <2>4. reqs'[q].copy = out.row /\ \A p \in Requests: p # q => reqs'[p] = reqs[p]
    BY <2>1, <2>2 DEF TypeOK, RequestRecords
  <2>. QED
    BY <2>1, <2>3, <2>4 DEF OrderInv, Underway
<1>5. ASSUME NEW q \in Requests, StoreDevices(q) PROVE OrderInv'
  <2>1. /\ At(q, "checked")
        /\ reqs' = [reqs EXCEPT ![q] = IF @.waits
                        THEN [@ EXCEPT !.stage = "stored", !.copy = NewRow]
                        ELSE None]
    BY <1>5 DEF StoreDevices
  <2>2. reqs[q] \in RequestRecords /\ OrderIn(reqs[q].copy)
    BY <2>1, UnderwayType DEF At, Underway, OrderInv
  <2>3. /\ reqs'[q] # None => reqs'[q].copy = NewRow
        /\ \A p \in Requests: p # q => reqs'[p] = reqs[p]
    BY <2>1, <2>2 DEF TypeOK, RequestRecords
  <2>4. \/ row' = row
        \/ /\ row'.known = reqs[q].copy.known /\ row'.seen = reqs[q].copy.seen
           /\ row'.later = reqs[q].copy.later
    BY <1>5 DEF StoreDevices, TypeOK, Rows
  <2>5. OrderIn(row')
    BY <2>2, <2>4, OrderSame DEF OrderInv
  <2>. QED
    BY <2>3, <2>5, NewRowOrder DEF OrderInv, Underway
<1>6. CASE Revoke \/ UNCHANGED vars
  <2>1. /\ row'.known = row.known /\ row'.seen = row.seen /\ row'.later = row.later
        /\ reqs' = reqs
    BY <1>6 DEF Revoke, vars, TypeOK, Rows
  <2>2. OrderIn(row')
    BY <2>1, OrderSame DEF OrderInv
  <2>. QED
    BY <2>1, <2>2 DEF OrderInv, Underway
<1>7. CASE Tick
  <2>1. /\ row'.known = row.known /\ row'.later = row.later /\ reqs' = reqs
        /\ \A d \in Devices: row'.seen[d] = Older(row.seen[d], KeepDays)
    BY <1>7 DEF Tick, TypeOK, Rows
  <2>2. Older(KeepDays + 1, KeepDays) = KeepDays + 1
    BY LimitAssumption DEF Older
  <2>3. OrderIn(row')
    BY <2>1, <2>2 DEF OrderInv, OrderIn
  <2>. QED
    BY <2>1, <2>3 DEF OrderInv, Underway
<1>. QED
  BY <1>1, <1>2, <1>3, <1>4, <1>5, <1>6, <1>7 DEF Next

(* What the service knows best: the copy of a request that was decided and *)
(* not stored yet, or else the row.  A device that was told it is valid    *)
(* holds a seat there for as long as it is around; an install that counts  *)
(* as valid was seen there since; and nobody came after the last.          *)
Decided(q) == At(q, "checked") /\ reqs[q].verdict # "inactive"

SeatsAre(r, t, l, a, R) ==
  /\ \A d \in t: r.seen[d] <= SeatWindow => d \in SeatHolders(r)
  /\ \A d \in Devices: a[d].valid /\ a[d].age <= OfflineGrace => r.seen[d] <= a[d].age
  /\ \A q \in Requests: R[q] # None /\ R[q].verdict = "valid" => r.seen[R[q].device] = 0
  /\ l # None => r.later[l] = {}

SeatsIn(r) == SeatsAre(r, told, last, apps, reqs)

SeatInv ==
  /\ \A q \in Requests:
       /\ At(q, "found") => /\ reqs[q].copy.known = row.known
                            /\ reqs[q].copy.seen = row.seen
                            /\ reqs[q].copy.later = row.later
       /\ Decided(q) => SeatsIn(reqs[q].copy)
       /\ Decided(q) /\ reqs[q].action = "revalidate" /\ reqs[q].device \in Present(row)
            => SeatHolders(reqs[q].copy) = SeatHolders(row)
  /\ (\A q \in Requests: ~Decided(q)) => SeatsIn(row)

(* Steps that leave the devices column alone keep what it says, as long as *)
(* an install only counts as valid anew when it was just seen.             *)
LEMMA SeatsMove ==
  ASSUME NEW r, NEW s, NEW t, NEW t2 \in SUBSET t, NEW l, NEW a, NEW a2, NEW R, NEW R2,
         r.known = s.known, r.seen = s.seen, r.later = s.later,
         SeatsAre(r, t, l, a, R),
         \A d \in Devices: a2[d].valid /\ a2[d].age <= OfflineGrace =>
            \/ a[d].valid /\ a2[d].age = a[d].age
            \/ r.seen[d] = 0 /\ a2[d].age = 0,
         \A q \in Requests: R2[q] # None /\ R2[q].verdict = "valid" =>
            R[q] # None /\ R[q].verdict = "valid" /\ R[q].device = R2[q].device
  PROVE  SeatsAre(s, t2, l, a2, R2)
<1>1. SeatHolders(s) = SeatHolders(r)
  BY OrderSame
<1>2. \A d \in t2: s.seen[d] <= SeatWindow => d \in SeatHolders(s)
  BY <1>1 DEF SeatsAre
<1>3. \A d \in Devices: a2[d].valid /\ a2[d].age <= OfflineGrace => s.seen[d] <= a2[d].age
  BY DEF SeatsAre
<1>4. \A q \in Requests: R2[q] # None /\ R2[q].verdict = "valid" => s.seen[R2[q].device] = 0
  BY DEF SeatsAre
<1>5. l # None => s.later[l] = {}
  BY DEF SeatsAre
<1>. QED
  BY <1>2, <1>3, <1>4, <1>5 DEF SeatsAre

(* A period that passes takes seats only from devices that are away.       *)
LEMMA TickHolders ==
  ASSUME NEW r \in Rows, NEW s \in Rows, s.known = r.known, s.later = r.later,
         \A d \in Devices: s.seen[d] = Older(r.seen[d], KeepDays),
         NEW d \in Devices, s.seen[d] <= SeatWindow
  PROVE  /\ r.seen[d] <= SeatWindow
         /\ d \in SeatHolders(r) => d \in SeatHolders(s)
<1>1. \A e \in Devices: s.seen[e] <= SeatWindow => r.seen[e] <= SeatWindow
  BY LimitAssumption DEF Rows, Older
<1>2. Present(s) \subseteq Present(r) /\ r.known \subseteq Devices
  BY <1>1 DEF Present, Rows
<1>3. ASSUME d \in SeatHolders(r) PROVE d \in SeatHolders(s)
  <2>. DEFINE b == s.later[d] \cap Present(s)
              c == r.later[d] \cap Present(r)
  <2>1. b \subseteq c
    BY <1>2
  <2>2. IsFiniteSet(c)
    <3>1. c \subseteq Devices
      BY DEF Rows
    <3>. QED
      BY <3>1, FS_Subset, SwitchAssumption
  <2>3. Cardinality(c) < Seats /\ d \in Present(s)
    BY <1>3 DEF SeatHolders, Present
  <2>. HIDE DEF b, c
  <2>4. Cardinality(b) <= Cardinality(c) /\ IsFiniteSet(b)
    BY <2>1, <2>2, FS_Subset
  <2>5. Cardinality(b) \in Nat /\ Cardinality(c) \in Nat /\ Seats \in Nat
    BY <2>2, <2>4, FS_CardinalityType, LimitAssumption
  <2>6. Cardinality(b) < Seats
    BY <2>3, <2>4, <2>5
  <2>. QED
    BY <2>3, <2>6 DEF SeatHolders, b
<1>. QED
  BY <1>1, <1>3

LEMMA SeatStep ==
  ASSUME TypeOK, TypeOK', OrderInv, FairInv, SeatInv, Serial, [Next]_vars
  PROVE  SeatInv'
<1>. USE DEF SeatsIn
<1>1. ASSUME NEW d \in Devices, Load(d) \/ Enter(d) PROVE SeatInv'
  <2>1. row' = row /\ last' = last /\ told' = told
    BY <1>1 DEF Load, Enter
  <2>2. \A e \in Devices: apps'[e].valid = apps[e].valid /\ apps'[e].age = apps[e].age
    <3>1. CASE Enter(d)
      BY <3>1 DEF Enter
    <3>2. CASE Load(d)
      <4>1. apps' = [apps EXCEPT ![d] =
                       [apps[d] EXCEPT !.up = TRUE, !.licensed = KeyLicensed(apps[d])]]
        BY <3>2 DEF Load
      <4>. QED
        BY <4>1 DEF TypeOK, Apps
    <3>. QED
      BY <1>1, <3>1, <3>2
  <2>3. \A q \in Requests: /\ At(q, "found")' \/ Decided(q)' => reqs'[q] = reqs[q]
                           /\ Decided(q) => reqs'[q] = reqs[q]
                           /\ reqs'[q] # None /\ reqs'[q].verdict = "valid" =>
                                reqs'[q] = reqs[q]
    BY <1>1, SentReqs DEF At, Underway, Decided
  <2>4. ASSUME NEW r, SeatsAre(r, told, last, apps, reqs)
        PROVE  SeatsAre(r, told', last', apps', reqs')
    BY <2>1, <2>2, <2>3, <2>4, SeatsMove
  <2>. QED
    BY <2>1, <2>3, <2>4 DEF SeatInv, At, Decided
<1>2. ASSUME \/ \E d \in Devices: Quit(d)
             \/ \E q \in Requests: Answer(q) \/ GiveUp(q)
      PROVE  SeatInv'
  <2>1. row' = row /\ last' = last /\ told' = told
    BY <1>2 DEF Quit, Answer, GiveUp
  <2>2. \A q \in Requests:
          \/ reqs'[q] = reqs[q]
          \/ reqs'[q] = None /\ ~At(q, "found") /\ ~Decided(q)
          \/ /\ reqs'[q].stage = reqs[q].stage /\ reqs'[q].copy = reqs[q].copy
             /\ reqs'[q].verdict = reqs[q].verdict
             /\ reqs'[q].device = reqs[q].device /\ reqs'[q].action = reqs[q].action
             /\ reqs[q] # None /\ reqs'[q] # None
    BY <1>2, HeardReqs DEF At, Decided
  <2>3. ASSUME NEW r, SeatsAre(r, told, last, apps, reqs)
        PROVE  SeatsAre(r, told', last', apps', reqs')
    <3>1. \A e \in Devices: apps'[e].valid /\ apps'[e].age <= OfflineGrace =>
                              \/ apps[e].valid /\ apps'[e].age = apps[e].age
                              \/ r.seen[e] = 0 /\ apps'[e].age = 0
      <4>1. CASE \E d \in Devices: Quit(d)
        BY <4>1 DEF Quit, TypeOK, Apps
      <4>2. CASE \E q \in Requests: GiveUp(q)
        BY <4>2 DEF GiveUp
      <4>3. ASSUME NEW q \in Requests, Answer(q), NEW e \in Devices, apps'[e].valid
            PROVE  \/ apps[e].valid /\ apps'[e].age = apps[e].age
                   \/ r.seen[e] = 0 /\ apps'[e].age = 0
        <5>1. CASE apps'[e] = apps[e]
          BY <4>3, <5>1
        <5>2. CASE apps'[e] # apps[e]
          <6>1. e = reqs[q].device /\ apps[e] \in Apps
            BY <4>3, <5>2 DEF Answer, TypeOK
          <6>2. apps'[e] = Accepted(apps[e]) \/ apps'[e] = Rejected(apps[e])
            BY <4>3, <5>2, <6>1 DEF Answer, TypeOK
          <6>3. ~Rejected(apps[e]).valid
            BY <6>1 DEF Rejected, Apps
          <6>4. reqs[q].verdict = "valid"
            BY <4>3, <5>2, <6>1, <6>3 DEF Answer, TypeOK
          <6>5. r.seen[e] = 0
            BY <2>3, <4>3, <6>1, <6>4 DEF SeatsAre, Answer, Underway
          <6>6. Accepted(apps[e]).age = 0
            BY <6>1 DEF Accepted, Apps
          <6>. QED
            BY <4>3, <6>2, <6>3, <6>5, <6>6
        <5>. QED
          BY <5>1, <5>2
      <4>. QED
        BY <1>2, <4>1, <4>2, <4>3
    <3>. QED
      BY <2>1, <2>2, <2>3, <3>1, SeatsMove
  <2>4. \A q \in Requests: /\ At(q, "found")' => At(q, "found") /\ reqs'[q].copy = reqs[q].copy
                           /\ Decided(q)' => Decided(q)
                           /\ Decided(q) => /\ Decided(q)' /\ reqs'[q].copy = reqs[q].copy
                                            /\ reqs'[q].device = reqs[q].device
                                            /\ reqs'[q].action = reqs[q].action
    BY <2>2 DEF At, Decided
  <2>. QED
    BY <2>1, <2>3, <2>4 DEF SeatInv
<1>3. ASSUME NEW q \in Requests, FindLicence(q) PROVE SeatInv'
  <2>1. /\ row' = row /\ last' = last /\ told' = told /\ apps' = apps /\ At(q, "sent")
        /\ reqs' = [reqs EXCEPT ![q].stage = "found", ![q].copy = row]
        /\ \A p \in Requests: ~Busy(p)
    BY <1>3 DEF FindLicence
  <2>2. reqs[q] \in RequestRecords
    BY <2>1, UnderwayType DEF At, Underway
  <2>3. /\ reqs'[q].stage = "found" /\ reqs'[q].copy = row
        /\ reqs'[q].verdict = reqs[q].verdict /\ reqs'[q].device = reqs[q].device
        /\ \A p \in Requests: p # q => reqs'[p] = reqs[p]
    BY <2>1, <2>2 DEF TypeOK, RequestRecords
  <2>4. \A p \in Requests: ~Decided(p) /\ ~Decided(p)' /\ (At(p, "found")' => p = q)
    BY <2>1, <2>3 DEF Decided, At, Busy
  <2>5. SeatsAre(row, told, last, apps, reqs)
    BY <2>4 DEF SeatInv
  <2>6. \A p \in Requests: reqs'[p] # None /\ reqs'[p].verdict = "valid" =>
          reqs[p] # None /\ reqs[p].verdict = "valid" /\ reqs[p].device = reqs'[p].device
    BY <2>1, <2>3 DEF At
  <2>7. SeatsAre(row, told, last, apps, reqs')
    BY <2>5, <2>6, SeatsMove
  <2>. QED
    BY <2>1, <2>3, <2>4, <2>7 DEF SeatInv
<1>4. ASSUME NEW q \in Requests, SeatCheck(q) PROVE SeatInv'
  <2>. DEFINE d == reqs[q].device
              c == reqs[q].copy
              out == Decide(c, d, reqs[q].action)
              displaced == SeatHolders(c) \ SeatHolders(out.row)
  <2>1. /\ row' = row /\ apps' = apps /\ At(q, "found")
        /\ reqs' = [reqs EXCEPT ![q].stage = "checked",
                                ![q].verdict = out.verdict, ![q].copy = out.row]
        /\ last' = IF out.takes THEN d ELSE last
        /\ told' = IF out.verdict = "valid" THEN (told \ displaced) \cup {d} ELSE told \ {d}
    BY <1>4 DEF SeatCheck
  <2>2. reqs[q] \in RequestRecords /\ c \in Rows /\ d \in Devices
        /\ reqs[q].action \in Actions /\ OrderIn(c)
    BY <2>1, UnderwayType DEF At, Underway, RequestRecords, OrderInv
  <2>3. c.known = row.known /\ c.seen = row.seen /\ c.later = row.later
    BY <2>1 DEF SeatInv
  <2>4. \A p \in Requests: p # q => ~Busy(p)
    BY <2>1 DEF FairInv, Busy, At
  <2>5. \A p \in Requests: ~Decided(p)
    BY <2>1, <2>4 DEF Decided, At, Busy
  <2>6. SeatsAre(row, told, last, apps, reqs)
    BY <2>5 DEF SeatInv
  <2>7. CASE ~c.active
    <3>1. out.verdict = "inactive" /\ out.takes = FALSE
      BY <2>7 DEF Decide
    <3>. HIDE DEF out, c, d, displaced
    <3>2. /\ reqs'[q].stage = "checked" /\ reqs'[q].verdict = "inactive"
          /\ \A p \in Requests: p # q => reqs'[p] = reqs[p]
      BY <2>1, <2>2, <3>1 DEF TypeOK, RequestRecords
    <3>3. told' \in SUBSET told /\ last' = last
      BY <2>1, <3>1
    <3>4. SeatsAre(row, told', last', apps', reqs')
      <4>1. \A p \in Requests: reqs'[p] # None /\ reqs'[p].verdict = "valid" =>
              reqs[p] # None /\ reqs[p].verdict = "valid" /\ reqs[p].device = reqs'[p].device
        BY <3>2
      <4>2. SeatsAre(row, told', last, apps, reqs')
        BY <2>6, <3>3, <4>1, SeatsMove
      <4>. QED
        BY <2>1, <3>3, <4>2
    <3>5. \A p \in Requests: ~Decided(p)' /\ ~At(p, "found")'
      BY <2>4, <3>2 DEF Decided, At, Busy
    <3>. QED
      BY <2>1, <3>4, <3>5 DEF SeatInv
  <2>8. CASE c.active
    <3>1. /\ out.row \in Rows /\ OrderIn(out.row)
          /\ out.verdict = IF d \in SeatHolders(out.row) THEN "valid" ELSE "seat_taken"
          /\ out.row.seen[d] = 0
          /\ \A e \in Devices:
               e # d => \/ out.row.seen[e] = c.seen[e]
                        \/ c.seen[e] > KeepDays /\ out.row.seen[e] = KeepDays + 1
          /\ out.takes => out.row.later[d] = {}
          /\ ~out.takes => \A e \in Devices: out.row.later[e] \subseteq c.later[e]
          /\ out.verdict = "seat_taken" =>
               \A e \in SeatHolders(c): e # d => e \in SeatHolders(out.row)
          /\ reqs[q].action = "revalidate" /\ d \in Present(c) =>
               SeatHolders(out.row) = SeatHolders(c)
      BY <2>2, <2>8, DecideSeats
    <3>2. SeatHolders(c) = SeatHolders(row) /\ Present(c) = Present(row)
      BY <2>3, OrderSame
    <3>. DEFINE o == out.row
    <3>. HIDE DEF out, c, d, o
    <3>3. /\ reqs'[q].stage = "checked" /\ reqs'[q].verdict = out.verdict
          /\ reqs'[q].copy = o /\ reqs'[q].device = d
          /\ reqs'[q].action = reqs[q].action
          /\ \A p \in Requests: p # q => reqs'[p] = reqs[p]
      BY <2>1, <2>2 DEF TypeOK, RequestRecords, o, d
    <3>4. /\ KeepDays \in Nat /\ SeatWindow \in Nat /\ OfflineGrace \in Nat
          /\ OfflineGrace <= KeepDays /\ SeatWindow <= KeepDays
          /\ \A e \in Devices: c.seen[e] \in Nat /\ apps[e].age \in Nat
      BY <2>2, LimitAssumption DEF TypeOK, Apps, Rows
    <3>5. ASSUME NEW e \in told', o.seen[e] <= SeatWindow PROVE e \in SeatHolders(o)
      <4>1. CASE e = d
        <5>1. out.verdict = "valid"
          BY <2>1, <4>1
        <5>. QED
          BY <3>1, <4>1, <5>1 DEF o
      <4>2. CASE e # d
        <5>1. e \in told /\ (out.verdict = "valid" => e \notin displaced)
          BY <2>1, <4>2
        <5>2. e \in Devices
          BY <5>1 DEF TypeOK
        <5>3. c.seen[e] <= SeatWindow
          BY <3>1, <3>4, <3>5, <4>2, <5>2 DEF o
        <5>4. e \in SeatHolders(c)
          BY <2>3, <2>6, <3>2, <5>1, <5>3 DEF SeatsAre
        <5>. QED
          BY <3>1, <4>2, <5>1, <5>4 DEF o
      <4>. QED
        BY <4>1, <4>2
    <3>6. \A e \in Devices: apps[e].valid /\ apps[e].age <= OfflineGrace => o.seen[e] <= apps[e].age
      BY <2>3, <2>6, <3>1, <3>4 DEF SeatsAre, o
    <3>7. \A p \in Requests: reqs'[p] # None /\ reqs'[p].verdict = "valid" =>
            o.seen[reqs'[p].device] = 0
      <4>. SUFFICES ASSUME NEW p \in Requests, reqs'[p] # None, reqs'[p].verdict = "valid", p # q,
                           reqs[p].device # d
                    PROVE  o.seen[reqs[p].device] = 0
        BY <3>1, <3>3 DEF o
      <4>1. reqs[p].device \in Devices
        BY <3>3, UnderwayType DEF Underway, RequestRecords
      <4>2. c.seen[reqs[p].device] = 0
        BY <2>3, <2>6, <3>3 DEF SeatsAre
      <4>. QED
        BY <3>1, <3>4, <4>1, <4>2 DEF o
    <3>8. last' # None => o.later[last'] = {}
      <4>1. CASE out.takes
        BY <2>1, <3>1, <4>1 DEF o
      <4>2. CASE ~out.takes
        BY <2>1, <2>3, <2>6, <3>1, <4>2 DEF SeatsAre, TypeOK, o
      <4>. QED
        BY <4>1, <4>2
    <3>9. SeatsAre(o, told', last', apps', reqs')
      BY <2>1, <3>5, <3>6, <3>7, <3>8 DEF SeatsAre
    <3>10. /\ \A p \in Requests: ~At(p, "found")'
           /\ \A p \in Requests: Decided(p)' => p = q
      BY <2>4, <3>3 DEF Decided, At, Busy
    <3>11. Decided(q)'
      <4>1. reqs'[q] # None
        <5>1. reqs'[q] \in RequestRecords
          BY <2>1, <2>2, <3>1, DecideType DEF TypeOK, RequestRecords, Stages, Verdicts, o
        <5>. QED
          BY <5>1, NoneAssumption
      <4>. QED
        BY <3>1, <3>3, <4>1 DEF Decided, At
    <3>12. reqs'[q].action = "revalidate" /\ reqs'[q].device \in Present(row) =>
             SeatHolders(o) = SeatHolders(row)
      BY <3>1, <3>2, <3>3 DEF o
    <3>. QED
      BY <2>1, <3>3, <3>9, <3>10, <3>11, <3>12 DEF SeatInv
  <2>9. c.active \in BOOLEAN
    BY <2>2 DEF Rows
  <2>. QED
    BY <2>7, <2>8, <2>9
<1>5. ASSUME NEW q \in Requests, StoreDevices(q) PROVE SeatInv'
  <2>1. /\ last' = last /\ told' = told /\ apps' = apps /\ At(q, "checked")
        /\ reqs' = [reqs EXCEPT ![q] = IF @.waits
                        THEN [@ EXCEPT !.stage = "stored", !.copy = NewRow]
                        ELSE None]
    BY <1>5 DEF StoreDevices
  <2>2. reqs[q] \in RequestRecords
    BY <2>1, UnderwayType DEF At, Underway
  <2>3. /\ reqs'[q] # None => /\ reqs'[q].stage = "stored"
                              /\ reqs'[q].verdict = reqs[q].verdict
                              /\ reqs'[q].device = reqs[q].device
        /\ \A p \in Requests: p # q => reqs'[p] = reqs[p]
    BY <2>1, <2>2 DEF TypeOK, RequestRecords
  <2>4. \A p \in Requests: p # q => ~Busy(p)
    BY <2>1 DEF FairInv, Busy, At
  <2>5. \A p \in Requests: ~Decided(p)' /\ ~At(p, "found")'
    BY <2>3, <2>4 DEF Decided, At, Busy
  <2>6. \A p \in Requests: reqs'[p] # None /\ reqs'[p].verdict = "valid" =>
          reqs[p] # None /\ reqs[p].verdict = "valid" /\ reqs[p].device = reqs'[p].device
    BY <2>1, <2>3 DEF At
  <2>7. SeatsAre(row', told, last, apps, reqs')
    <3>1. CASE Decided(q)
      <4>1. SeatsAre(reqs[q].copy, told, last, apps, reqs)
        BY <3>1 DEF SeatInv
      <4>2. /\ row'.known = reqs[q].copy.known /\ row'.seen = reqs[q].copy.seen
            /\ row'.later = reqs[q].copy.later
        BY <1>5, <3>1 DEF StoreDevices, Decided, TypeOK, Rows
      <4>. QED
        BY <2>6, <4>1, <4>2, SeatsMove
    <3>2. CASE ~Decided(q)
      <4>1. row' = row
        BY <1>5, <2>1, <3>2 DEF StoreDevices, Decided
      <4>2. \A p \in Requests: ~Decided(p)
        BY <2>4, <3>2 DEF Decided, Busy
      <4>3. SeatsAre(row, told, last, apps, reqs)
        BY <4>2 DEF SeatInv
      <4>. QED
        BY <2>6, <4>1, <4>3, SeatsMove
    <3>. QED
      BY <3>1, <3>2
  <2>. QED
    BY <2>1, <2>5, <2>7 DEF SeatInv
<1>6. CASE Revoke \/ UNCHANGED vars
  <2>1. /\ row'.known = row.known /\ row'.seen = row.seen /\ row'.later = row.later
        /\ UNCHANGED <<reqs, apps, told, last>>
    BY <1>6 DEF Revoke, vars, TypeOK, Rows
  <2>2. Present(row') = Present(row) /\ SeatHolders(row') = SeatHolders(row)
    BY <2>1, OrderSame
  <2>3. SeatsAre(row, told, last, apps, reqs) => SeatsAre(row', told', last', apps', reqs')
    BY <2>1, SeatsMove
  <2>. QED
    BY <2>1, <2>2, <2>3 DEF SeatInv, Decided, At
<1>7. CASE Tick
  <2>1. /\ row'.known = row.known /\ row'.later = row.later
        /\ \A d \in Devices: row'.seen[d] = Older(row.seen[d], KeepDays)
        /\ UNCHANGED <<reqs, told, last>>
        /\ \A q \in Requests: reqs[q] = None
    BY <1>7 DEF Tick, TypeOK, Rows, Underway
  <2>2. \A d \in Devices: /\ apps'[d].valid = apps[d].valid
                          /\ apps'[d].age = Older(apps[d].age, OfflineGrace)
    BY <1>7 DEF Tick, TypeOK, Apps
  <2>3. SeatsAre(row, told, last, apps, reqs)
    BY <2>1 DEF SeatInv, Decided, At
  <2>4. row \in Rows /\ row' \in Rows /\ told \subseteq Devices
    BY DEF TypeOK
  <2>5. \A d \in told: row'.seen[d] <= SeatWindow => d \in SeatHolders(row')
    BY <2>1, <2>3, <2>4, TickHolders DEF SeatsAre
  <2>6. \A d \in Devices: apps'[d].valid /\ apps'[d].age <= OfflineGrace =>
                            row'.seen[d] <= apps'[d].age
    <3>1. \A d \in Devices: row.seen[d] \in Nat /\ apps[d].age \in Nat
      BY LimitAssumption DEF TypeOK, Apps, Rows
    <3>. QED
      BY <2>1, <2>2, <2>3, <3>1, LimitAssumption DEF SeatsAre, Older
  <2>7. SeatsAre(row', told', last', apps', reqs')
    BY <2>1, <2>3, <2>5, <2>6 DEF SeatsAre
  <2>. QED
    BY <2>1, <2>7 DEF SeatInv, Decided, At
<1>. QED
  BY <1>1, <1>2, <1>3, <1>4, <1>5, <1>6, <1>7 DEF Next

LEMMA SeatsHold ==
  ASSUME Serial
  PROVE  Spec => [](TypeOK /\ OrderInv /\ FairInv /\ SeatInv)
<1>1. Init => OrderInv /\ FairInv /\ SeatInv
  BY NewRowOrder
     DEF Init, OrderInv, FairInv, FairIn, SeatInv, SeatsIn, SeatsAre, Decided,
         NewRow, Busy, At, Underway
<1>2. /\ TypeOK /\ TypeOK' /\ [Next]_vars
      /\ OrderInv /\ FairInv /\ SeatInv
      => (OrderInv /\ FairInv /\ SeatInv)'
  BY OrderStep, FairStep, SeatStep
<1>. QED
  BY <1>1, <1>2, TypeCorrect, PTL DEF Spec

(* What LastEnteredHolds says fails by overlapping executions only:        *)
(* handled one request at a time, with none underway whoever entered the   *)
(* key last holds a seat for as long as it is around.                      *)
THEOREM LastHolds ==
  ASSUME Serial
  PROVE  Spec => []LastEnteredHolds
<1>1. TypeOK /\ OrderInv /\ SeatInv => LastEnteredHolds
  <2>. SUFFICES ASSUME TypeOK, OrderInv, SeatInv, \A q \in Requests: ~Underway(q),
                       last # None, row.seen[last] <= SeatWindow
                PROVE  last \in SeatHolders(row)
    BY DEF LastEnteredHolds
  <2>1. row.later[last] = {}
    BY DEF SeatInv, SeatsIn, SeatsAre, Decided, At, Underway
  <2>2. last \in Present(row)
    BY LimitAssumption DEF OrderInv, OrderIn, Present, TypeOK
  <2>3. row.later[last] \cap Present(row) = {}
    BY <2>1
  <2>4. Cardinality(row.later[last] \cap Present(row)) < Seats
    BY <2>3, FS_EmptySet, LimitAssumption
  <2>. QED
    BY <2>2, <2>4 DEF SeatHolders
<1>. QED
  BY <1>1, SeatsHold, PTL

(* Handled one request at a time: what a re-check stores leaves the seats  *)
(* with whoever has them.                                                  *)
LEMMA RecheckStep ==
  ASSUME TypeOK, FairInv, SeatInv, [Next]_vars, NEW q \in Requests,
         At(q, "checked"), ~At(q, "checked")',
         reqs[q].action = "revalidate", reqs[q].device \in Present(row)
  PROVE  SeatHolders(row') = SeatHolders(row)
<1>1. ASSUME NEW d \in Devices, Load(d) \/ Enter(d) PROVE FALSE
  BY <1>1, SentReqs DEF At, Underway
<1>2. ASSUME \/ \E d \in Devices: Quit(d)
             \/ \E p \in Requests: Answer(p) \/ GiveUp(p)
      PROVE  FALSE
  BY <1>2, HeardReqs DEF At
<1>3. ASSUME NEW p \in Requests, FindLicence(p) \/ SeatCheck(p) PROVE FALSE
  <2>1. p # q
    BY <1>3 DEF FindLicence, SeatCheck, At
  <2>2. reqs'[q] = reqs[q]
    BY <1>3, <2>1 DEF FindLicence, SeatCheck, TypeOK
  <2>. QED
    BY <2>2 DEF At
<1>4. ASSUME NEW p \in Requests, StoreDevices(p)
      PROVE  SeatHolders(row') = SeatHolders(row)
  <2>1. p = q
    BY <1>4 DEF StoreDevices, At, FairInv, Busy
  <2>2. CASE Decided(q)
    <3>1. /\ row'.known = reqs[q].copy.known /\ row'.seen = reqs[q].copy.seen
          /\ row'.later = reqs[q].copy.later
      BY <1>4, <2>1, <2>2 DEF StoreDevices, Decided, TypeOK, Rows
    <3>2. SeatHolders(reqs[q].copy) = SeatHolders(row)
      BY <2>2 DEF SeatInv
    <3>. QED
      BY <3>1, <3>2, OrderSame
  <2>3. CASE ~Decided(q)
    BY <1>4, <2>1, <2>3 DEF StoreDevices, Decided
  <2>. QED
    BY <2>2, <2>3
<1>5. CASE Revoke \/ Tick \/ UNCHANGED vars
  BY <1>5 DEF Revoke, Tick, vars, At
<1>. QED
  BY <1>1, <1>2, <1>3, <1>4, <1>5 DEF Next

THEOREM RecheckHolds ==
  ASSUME Serial
  PROVE  Spec => RecheckKeepsHolders
<1>1. TypeOK /\ FairInv /\ SeatInv /\ [Next]_vars =>
        \A q \in Requests:
          At(q, "checked") /\ ~At(q, "checked")'
          /\ reqs[q].action = "revalidate" /\ reqs[q].device \in Present(row)
            => SeatHolders(row') = SeatHolders(row)
  BY RecheckStep
<1>. QED
  BY <1>1, SeatsHold, PTL DEF Spec, RecheckKeepsHolders

(* Handled one request at a time: the installs that have Pro on a record   *)
(* within the grace and were not pushed out since their last answer are no *)
(* more than the seats of the key.                                         *)
THEOREM SeatsKept ==
  ASSUME Serial
  PROVE  Spec => []SeatsRespected
<1>1. TypeOK /\ OrderInv /\ SeatInv /\ LapseInv => SeatsRespected
  <2>. SUFFICES ASSUME TypeOK, OrderInv, SeatInv, LapseInv
                PROVE  Cardinality(Pro \cap told \cap Current) <= Seats
    BY DEF SeatsRespected
  <2>1. PICK r \in Rows: OrderIn(r) /\ SeatsAre(r, told, last, apps, reqs)
    <3>1. CASE \E q \in Requests: Decided(q)
      <4>1. PICK q \in Requests: Decided(q)
        BY <3>1
      <4>2. reqs[q].copy \in Rows /\ OrderIn(reqs[q].copy)
        BY <4>1, UnderwayType DEF Decided, At, Underway, RequestRecords, OrderInv
      <4>. QED
        BY <4>1, <4>2 DEF SeatInv, SeatsIn
    <3>2. CASE \A q \in Requests: ~Decided(q)
      BY <3>2 DEF SeatInv, SeatsIn, OrderInv, TypeOK
    <3>. QED
      BY <3>1, <3>2
  <2>2. Pro \cap told \cap Current \subseteq SeatHolders(r)
    <3>. SUFFICES ASSUME NEW d \in Pro \cap told \cap Current
                  PROVE  d \in SeatHolders(r)
      OBVIOUS
    <3>1. d \in Devices /\ apps[d].valid /\ apps[d].age <= OfflineGrace
      BY DEF Pro, Current, LapseInv
    <3>2. r.seen[d] <= apps[d].age
      BY <2>1, <3>1 DEF SeatsAre
    <3>3. r.seen[d] \in Nat /\ apps[d].age \in Nat
      BY <3>1, LimitAssumption DEF TypeOK, Apps, Rows
    <3>4. r.seen[d] <= SeatWindow
      BY <3>1, <3>2, <3>3, LimitAssumption
    <3>. QED
      BY <2>1, <3>4 DEF SeatsAre
  <2>. DEFINE P == Pro \cap told \cap Current
              H == SeatHolders(r)
  <2>3. IsFiniteSet(H) /\ Cardinality(H) <= Seats
    BY <2>1, HoldersBounded
  <2>. HIDE DEF P, H
  <2>4. Cardinality(P) <= Cardinality(H) /\ IsFiniteSet(P)
    BY <2>2, <2>3, FS_Subset DEF P, H
  <2>5. Cardinality(P) \in Nat /\ Cardinality(H) \in Nat /\ Seats \in Nat
    BY <2>3, <2>4, FS_CardinalityType, LimitAssumption
  <2>6. Cardinality(P) <= Seats
    BY <2>3, <2>4, <2>5
  <2>. QED
    BY <2>6 DEF P
<1>. QED
  BY <1>1, SeatsHold, LapseHolds, PTL

----------------------------------------------------------------------------
(* What decide() promises of the seats, however the requests overlap.      *)

(* The devices around that activated after d: they come before it when     *)
(* seats are given out.                                                    *)
Ahead(r, d) == r.later[d] \cap Present(r)

LEMMA AheadFinite ==
  ASSUME NEW r \in Rows, NEW d \in Devices
  PROVE  IsFiniteSet(Ahead(r, d)) /\ Cardinality(Ahead(r, d)) \in Nat
<1>1. Ahead(r, d) \subseteq Devices
  BY DEF Ahead, Rows
<1>. QED
  BY <1>1, FS_Subset, FS_CardinalityType, SwitchAssumption

LEMMA HolderAhead ==
  ASSUME NEW r \in Rows, NEW d
  PROVE  d \in SeatHolders(r) <=> d \in Present(r) /\ Cardinality(Ahead(r, d)) < Seats
BY DEF SeatHolders, Ahead

(* Of two devices around, the one that activated earlier has strictly more *)
(* of them ahead of it.                                                    *)
LEMMA FurtherBehind ==
  ASSUME NEW r \in Rows, OrderIn(r), NEW e \in Present(r), NEW f \in Present(r),
         f \in r.later[e]
  PROVE  Cardinality(Ahead(r, f)) < Cardinality(Ahead(r, e))
<1>1. e \in Devices /\ f \in Devices /\ e \in r.known /\ f \in r.known
  BY DEF Present, Rows
<1>2. Ahead(r, f) \subseteq Ahead(r, e) /\ f \in Ahead(r, e) /\ f \notin Ahead(r, f)
  BY <1>1 DEF OrderIn, Ahead
<1>3. IsFiniteSet(Ahead(r, e)) /\ Cardinality(Ahead(r, e)) \in Nat
      /\ Cardinality(Ahead(r, f)) \in Nat
  BY <1>1, AheadFinite
<1>4. Cardinality(Ahead(r, e) \ {f}) = Cardinality(Ahead(r, e)) - 1
      /\ IsFiniteSet(Ahead(r, e) \ {f})
  BY <1>2, <1>3, FS_RemoveElement
<1>5. Cardinality(Ahead(r, f)) <= Cardinality(Ahead(r, e) \ {f})
  <2>1. Ahead(r, f) \subseteq Ahead(r, e) \ {f}
    BY <1>2
  <2>. QED
    BY <1>4, <2>1, FS_Subset
<1>. QED
  BY <1>3, <1>4, <1>5

(* A non-empty set of known devices has one that activated after all the   *)
(* others of the set.                                                      *)
LEMMA Latest ==
  ASSUME NEW r \in Rows, OrderIn(r), NEW S \in SUBSET r.known, S # {}
  PROVE  \E d \in S: r.later[d] \cap S = {}
<1>. DEFINE After(d) == r.later[d] \cap S
            T == {After(d): d \in S}
<1>1. IsFiniteSet(S)
  <2>1. S \subseteq Devices
    BY DEF Rows
  <2>. QED
    BY <2>1, FS_Subset, SwitchAssumption
<1>2. T \subseteq FiniteSubsetsOf(S) /\ T # {}
  <2>1. FiniteSubsetsOf(S) = SUBSET S
    BY <1>1, FS_FiniteSubsetsOfFinite
  <2>2. T \subseteq SUBSET S /\ T # {}
    OBVIOUS
  <2>. QED
    BY <2>1, <2>2
<1>3. PICK x \in T: \A y \in T: ~(<<y, x>> \in StrictSubsetOrdering(S))
  BY <1>2, FS_StrictSubsetOrderingWellFounded, WFMin
<1>4. PICK d \in S: x = After(d)
  OBVIOUS
<1>5. ASSUME NEW e \in x PROVE FALSE
  <2>1. e \in S /\ e \in r.later[d] /\ e \notin r.later[e] /\ r.later[e] \subseteq r.later[d]
    BY <1>4 DEF OrderIn
  <2>2. After(e) \in T /\ After(e) \subseteq x /\ After(e) # x
    BY <1>4, <2>1
  <2>3. After(e) \in SUBSET S /\ x \in SUBSET S
    BY <1>4
  <2>. HIDE DEF After, T
  <2>4. <<After(e), x>> \in StrictSubsetOrdering(S)
    BY <2>2, <2>3 DEF StrictSubsetOrdering
  <2>. QED
    BY <1>3, <2>2, <2>4
<1>. QED
  BY <1>4, <1>5

(* No seat is left over while a device that is around goes without.        *)
LEMMA HoldersFill ==
  ASSUME NEW r \in Rows, OrderIn(r), SeatHolders(r) # Present(r)
  PROVE  Cardinality(SeatHolders(r)) >= Seats
<1>. DEFINE without == Present(r) \ SeatHolders(r)
<1>1. without \in SUBSET r.known /\ without # {}
  BY HolderAhead DEF Present
<1>2. PICK d \in without: r.later[d] \cap without = {}
  BY <1>1, Latest
<1>3. Ahead(r, d) \subseteq SeatHolders(r) /\ d \in Devices
  BY <1>1, <1>2 DEF Ahead, Rows
<1>4. ~(Cardinality(Ahead(r, d)) < Seats) /\ Cardinality(Ahead(r, d)) \in Nat
  BY <1>2, <1>3, HolderAhead, AheadFinite
<1>5. Cardinality(Ahead(r, d)) <= Cardinality(SeatHolders(r))
      /\ Cardinality(SeatHolders(r)) \in Nat
  BY <1>3, HoldersBounded, FS_Subset, FS_CardinalityType
<1>. QED
  BY <1>4, <1>5, LimitAssumption

LEMMA OrderAlways == Spec => [](TypeOK /\ OrderInv)
<1>1. Init => OrderInv
  BY NewRowOrder DEF Init, OrderInv, Underway
<1>2. TypeOK /\ OrderInv /\ [Next]_vars => OrderInv'
  BY OrderStep
<1>. QED
  BY <1>1, <1>2, TypeCorrect, PTL DEF Spec

(* seats is what it says even when requests overlap and one write loses    *)
(* another: the row never has more holders than seats, and never fewer     *)
(* while a device that was seen within the window goes without             *)
(* (seat_check.js, seatHolders()).                                         *)
THEOREM SeatsInUse ==
  Spec => [](/\ Cardinality(SeatHolders(row)) <= Seats
             /\ SeatHolders(row) # Present(row) => Cardinality(SeatHolders(row)) = Seats)
<1>1. TypeOK /\ OrderInv =>
        /\ Cardinality(SeatHolders(row)) <= Seats
        /\ SeatHolders(row) # Present(row) => Cardinality(SeatHolders(row)) = Seats
  <2>. SUFFICES ASSUME TypeOK, OrderInv
                PROVE  /\ Cardinality(SeatHolders(row)) <= Seats
                       /\ SeatHolders(row) # Present(row)
                            => Cardinality(SeatHolders(row)) >= Seats
    <3>1. TypeOK /\ OrderInv => Cardinality(SeatHolders(row)) \in Nat
      BY HoldersBounded, FS_CardinalityType DEF TypeOK, OrderInv
    <3>. QED
      BY <3>1, LimitAssumption
  <2>1. row \in Rows /\ OrderIn(row)
    BY DEF TypeOK, OrderInv
  <2>. QED
    BY <2>1, HoldersBounded, HoldersFill
<1>. QED
  BY <1>1, OrderAlways, PTL

(* A decision that takes a seat gets it: what it touches has no one ahead. *)
LEMMA TakingHolds ==
  ASSUME NEW r \in Rows, OrderIn(r), r.active, NEW d \in Devices, NEW a \in Actions,
         Takes(r, d, a)
  PROVE  Decide(r, d, a).verdict = "valid"
<1>. DEFINE out == Decide(r, d, a)
<1>1. /\ out.row \in Rows /\ OrderIn(out.row) /\ out.takes /\ out.row.later[d] = {}
      /\ out.row.seen[d] = 0
      /\ out.verdict = IF d \in SeatHolders(out.row) THEN "valid" ELSE "seat_taken"
  <2>1. out.takes = Takes(r, d, a)
    BY DEF Decide
  <2>. QED
    BY <2>1, DecideSeats
<1>. HIDE DEF out
<1>2. d \in Present(out.row)
  BY <1>1, LimitAssumption DEF OrderIn, Present
<1>3. Cardinality(Ahead(out.row, d)) = 0
  BY <1>1, FS_EmptySet DEF Ahead
<1>4. d \in SeatHolders(out.row)
  BY <1>1, <1>2, <1>3, HolderAhead, LimitAssumption
<1>. QED
  BY <1>1, <1>4 DEF out

(* A decision lets at most one more device come ahead of another.          *)
LEMMA OneMoreAhead ==
  ASSUME NEW r \in Rows, OrderIn(r), r.active, NEW d \in Devices, NEW a \in Actions,
         NEW e \in SeatHolders(r), e \notin SeatHolders(Decide(r, d, a).row)
  PROVE  Cardinality(Ahead(r, e)) = Seats - 1
<1>. DEFINE t == Takes(r, d, a)
            touched == Touch(r, d, t)
<1>1. t \in BOOLEAN /\ (d \notin r.known => t)
  BY DEF Takes, Actions
<1>2. Decide(r, d, a).row = Prune(touched)
  BY DEF Decide
<1>. HIDE DEF t
<1>3. /\ touched \in Rows /\ OrderIn(touched)
      /\ touched.known = r.known \cup {d}
      /\ touched.seen[d] = 0
      /\ \A f \in Devices: f # d => touched.seen[f] = r.seen[f]
      /\ t => touched.later[d] = {}
      /\ ~t => touched.later = r.later
  BY <1>1, TouchFacts
<1>4. e \in Devices /\ e \in r.known /\ e \in Present(r)
  BY DEF SeatHolders, Present, Rows
<1>5. touched.later[e] \subseteq r.later[e] \cup {d}
  BY <1>4 DEF Touch, Rows
<1>. HIDE DEF touched
<1>6. Present(touched) = Present(r) \cup {d}
  <2>1. 0 <= SeatWindow /\ r.known \subseteq Devices
    BY LimitAssumption DEF Rows
  <2>. QED
    BY <1>3, <2>1 DEF Present
<1>7. SeatHolders(Prune(touched)) = SeatHolders(touched)
  BY <1>3, PruneFacts
<1>8. ~(Cardinality(Ahead(touched, e)) < Seats) /\ Cardinality(Ahead(r, e)) < Seats
  BY <1>2, <1>3, <1>4, <1>6, <1>7, HolderAhead
<1>9. Ahead(touched, e) \subseteq Ahead(r, e) \cup {d}
  BY <1>5, <1>6 DEF Ahead
<1>10. IsFiniteSet(Ahead(r, e)) /\ Cardinality(Ahead(r, e)) \in Nat
       /\ Cardinality(Ahead(touched, e)) \in Nat
  BY <1>3, <1>4, AheadFinite
<1>11. /\ IsFiniteSet(Ahead(r, e) \cup {d})
       /\ Cardinality(Ahead(r, e) \cup {d}) <= Cardinality(Ahead(r, e)) + 1
  BY <1>10, FS_AddElement
<1>12. Cardinality(Ahead(touched, e)) <= Cardinality(Ahead(r, e) \cup {d})
       /\ Cardinality(Ahead(r, e) \cup {d}) \in Nat
  BY <1>9, <1>11, FS_Subset, FS_CardinalityType
<1>. QED
  BY <1>8, <1>10, <1>11, <1>12, LimitAssumption

LEMMA OneLoser ==
  ASSUME NEW r \in Rows, OrderIn(r), NEW d \in Devices, NEW a \in Actions,
         NEW e \in SeatHolders(r) \ SeatHolders(Decide(r, d, a).row),
         NEW f \in SeatHolders(r) \ SeatHolders(Decide(r, d, a).row)
  PROVE  e = f
<1>1. r.active
  BY DEF Decide
<1>2. Cardinality(Ahead(r, e)) = Seats - 1 /\ Cardinality(Ahead(r, f)) = Seats - 1
  BY <1>1, OneMoreAhead
<1>3. e \in Present(r) /\ f \in Present(r) /\ e \in r.known /\ f \in r.known
  BY DEF SeatHolders, Present
<1>4. CASE e # f
  <2>1. e \in r.later[f] \/ f \in r.later[e]
    BY <1>3, <1>4 DEF OrderIn
  <2>. QED
    BY <1>2, <1>3, <2>1, FurtherBehind, LimitAssumption
<1>. QED
  BY <1>4

(* What a check of the seats answers and writes into its copy of the row.  *)
LEMMA Checked ==
  ASSUME TypeOK, OrderInv, [Next]_vars, NEW q \in Requests,
         At(q, "found"), At(q, "checked")'
  PROVE  LET r == reqs[q].copy
             out == Decide(r, reqs[q].device, reqs[q].action)
         IN  /\ r \in Rows /\ OrderIn(r)
             /\ reqs[q].device \in Devices /\ reqs[q].action \in Actions
             /\ reqs'[q].verdict = out.verdict /\ reqs'[q].copy = out.row
<1>1. /\ reqs[q] \in RequestRecords /\ reqs[q].copy \in Rows /\ OrderIn(reqs[q].copy)
      /\ reqs[q].device \in Devices /\ reqs[q].action \in Actions
  BY UnderwayType DEF At, Underway, OrderInv, RequestRecords
<1>2. ASSUME NEW d \in Devices, Load(d) \/ Enter(d) PROVE FALSE
  BY <1>2, SentReqs DEF At, Underway
<1>3. ASSUME \/ \E d \in Devices: Quit(d)
             \/ \E p \in Requests: Answer(p) \/ GiveUp(p)
      PROVE  FALSE
  BY <1>3, HeardReqs DEF At
<1>4. ASSUME NEW p \in Requests, FindLicence(p) \/ StoreDevices(p) PROVE FALSE
  <2>1. p # q
    BY <1>4 DEF FindLicence, StoreDevices, At
  <2>2. reqs'[q] = reqs[q]
    BY <1>4, <2>1 DEF FindLicence, StoreDevices, TypeOK
  <2>. QED
    BY <2>2 DEF At
<1>5. ASSUME Revoke \/ Tick \/ UNCHANGED vars PROVE FALSE
  BY <1>5 DEF Revoke, Tick, vars, At
<1>6. ASSUME NEW p \in Requests, SeatCheck(p) PROVE SeatCheck(q)
  <2>1. ASSUME p # q PROVE reqs'[q] = reqs[q]
    BY <1>6, <2>1 DEF SeatCheck, TypeOK
  <2>. QED
    BY <1>6, <2>1 DEF At
<1>7. SeatCheck(q)
  BY <1>2, <1>3, <1>4, <1>5, <1>6 DEF Next
<1>. DEFINE out == Decide(reqs[q].copy, reqs[q].device, reqs[q].action)
<1>8. reqs' = [reqs EXCEPT ![q].stage = "checked",
                           ![q].verdict = out.verdict, ![q].copy = out.row]
  BY <1>7 DEF SeatCheck
<1>. HIDE DEF out
<1>9. reqs'[q].verdict = out.verdict /\ reqs'[q].copy = out.row
  BY <1>1, <1>8 DEF TypeOK, RequestRecords
<1>. QED
  BY <1>1, <1>9 DEF out

(* Whoever enters the key of an active licence gets a seat, and so does a  *)
(* device the row has never seen: an activation is never answered          *)
(* seat_taken, however the requests overlap (decide(): "the newest         *)
(* activation wins").                                                      *)
THEOREM NewestWins ==
  Spec => [][\A q \in Requests:
               /\ At(q, "found") /\ At(q, "checked")'
               /\ Takes(reqs[q].copy, reqs[q].device, reqs[q].action)
               => reqs'[q].verdict = IF reqs[q].copy.active THEN "valid"
                                     ELSE "inactive"]_vars
<1>1. TypeOK /\ OrderInv /\ [Next]_vars =>
        \A q \in Requests:
          /\ At(q, "found") /\ At(q, "checked")'
          /\ Takes(reqs[q].copy, reqs[q].device, reqs[q].action)
          => reqs'[q].verdict = IF reqs[q].copy.active THEN "valid" ELSE "inactive"
  <2>. SUFFICES ASSUME TypeOK, OrderInv, [Next]_vars, NEW q \in Requests,
                       At(q, "found"), At(q, "checked")',
                       Takes(reqs[q].copy, reqs[q].device, reqs[q].action)
                PROVE  reqs'[q].verdict = IF reqs[q].copy.active THEN "valid"
                                          ELSE "inactive"
    OBVIOUS
  <2>1. CASE reqs[q].copy.active
    BY <2>1, Checked, TakingHolds
  <2>2. CASE ~reqs[q].copy.active
    BY <2>2, Checked DEF Decide
  <2>. QED
    BY <2>1, <2>2
<1>. QED
  BY <1>1, OrderAlways, PTL DEF Spec

(* One decision costs at most one device its seat: pruning and a second    *)
(* seat that moves on are no way to push out two (decide()).               *)
THEOREM OneDisplaced ==
  Spec => [][\A q \in Requests:
               At(q, "found") /\ At(q, "checked")' =>
                 \A e, f \in SeatHolders(reqs[q].copy) \ SeatHolders(reqs'[q].copy):
                   e = f]_vars
<1>1. TypeOK /\ OrderInv /\ [Next]_vars =>
        \A q \in Requests:
          At(q, "found") /\ At(q, "checked")' =>
            \A e, f \in SeatHolders(reqs[q].copy) \ SeatHolders(reqs'[q].copy): e = f
  BY Checked, OneLoser
<1>. QED
  BY <1>1, OrderAlways, PTL DEF Spec

----------------------------------------------------------------------------
(* The Store entitlement (StoreEntitlement)                                *)

NewBuild == disk.build = "freemium"

(* Where the process stands, by the build that runs.                       *)
StageInv ==
  /\ app.stage = "off" => ~app.licensed /\ ~app.granted
  /\ disk.build = "none" => app.stage = "off"
  /\ disk.build = "old" =>
       /\ app.stage \in {"off", "up"} /\ lookup = "none"
       /\ app.stage = "up" => app.licensed
  /\ lookup # "none" => Settled
  /\ NewBuild /\ app.stage # "off" => (app.licensed <=> app.granted)

(* A grant in memory is on the disk once init() has returned, or about to  *)
(* be; evidence that is about to be overwritten has been turned into one.  *)
GrantInv ==
  /\ NewBuild /\ Settled /\ app.granted => disk.granted \/ lookup = "granting"
  /\ NewBuild /\ app.stage # "off" /\ disk.granted => app.granted
  /\ NewBuild /\ app.stage = "resolving" /\ disk.version = "old" => app.granted
  /\ NewBuild /\ Settled /\ disk.version = "old" => disk.granted
  /\ lookup = "granting" => app.granted
  /\ had => disk.granted \/ disk.version = "old"

(* A free download comes after the instant, with a build that knows it.    *)
FreeInv ==
  /\ world.free => world.past /\ world.newest = "freemium"
  /\ account.owns = "nothing" =>
       app.stage = "off" /\ disk.build = "none" /\ disk.version = "none" /\ ~disk.granted
  /\ account.owns = "free" =>
       /\ world.free /\ account.late
       /\ disk.build # "old" /\ disk.version # "old"
       /\ ~app.licensed /\ ~app.granted /\ ~disk.granted

StoreInv == StoreTypeOK /\ StageInv /\ GrantInv /\ FreeInv

----------------------------------------------------------------------------
(* The fields of the state                                                 *)

LEMMA StoreFields ==
  ASSUME StoreTypeOK
  PROVE  /\ world \in Worlds /\ world.past \in BOOLEAN /\ world.free \in BOOLEAN
         /\ world.newest \in Builds
         /\ account.owns \in {"nothing", "bought", "free"}
         /\ account.late \in BOOLEAN /\ account.signedIn \in BOOLEAN
         /\ disk.build \in {"none"} \cup Builds
         /\ disk.version \in {"none"} \cup Builds
         /\ disk.granted \in BOOLEAN /\ disk.probed \in {"due", "today"}
         /\ app.stage \in StartStages
         /\ app.licensed \in BOOLEAN /\ app.granted \in BOOLEAN
         /\ bounds.kills \in 0..MaxKills /\ bounds.signOuts \in 0..MaxSignOuts
BY DEF StoreTypeOK, Worlds, Accounts, Disks, Processes

(* The steps of the Store and its customers.                               *)
Outside ==
  \/ InstantPasses \/ ReleaseFreemium \/ ListingGoesFree
  \/ Acquire \/ Install \/ Update
  \/ SignOut \/ SignIn \/ NextDay

LEMMA OutsideStep == ASSUME StoreInv, Outside PROVE StoreInv'
<1>. USE StoreFields, BoundAssumption DEF StoreInv, StoreTypeOK, StageInv, GrantInv,
     FreeInv, NewBuild, Settled, Builds,
     Worlds, Accounts, Disks
<1>1. CASE InstantPasses
  BY <1>1 DEF InstantPasses
<1>2. CASE ReleaseFreemium
  BY <1>2 DEF ReleaseFreemium
<1>3. CASE ListingGoesFree
  BY <1>3 DEF ListingGoesFree
<1>4. CASE Acquire
  BY <1>4 DEF Acquire
<1>5. CASE Install
  BY <1>5 DEF Install, FreshDisk
<1>6. CASE Update
  BY <1>6 DEF Update
<1>7. CASE SignOut
  <2>1. bounds' \in [kills: 0..MaxKills, signOuts: 0..MaxSignOuts]
    BY <1>7 DEF SignOut
  <2>2. /\ account' \in Accounts
        /\ account'.owns = account.owns /\ account'.late = account.late
        /\ UNCHANGED <<world, disk, app, lookup, had>>
    BY <1>7 DEF SignOut
  <2>. QED
    BY <2>1, <2>2
<1>8. CASE SignIn
  BY <1>8 DEF SignIn
<1>9. CASE NextDay
  BY <1>9 DEF NextDay
<1>. QED
  BY <1>1, <1>2, <1>3, <1>4, <1>5, <1>6, <1>7, <1>8, <1>9 DEF Outside

Inside ==
  \/ StartOld \/ StartNew \/ InitReturns \/ InitRoot
  \/ CheckAgain \/ StoreAnswers \/ StoreSilent
  \/ GrantWritten \/ QuitApp \/ Kill

LEMMA InsideStep == ASSUME StoreInv, Inside PROVE StoreInv'
<1>. USE StoreFields, BoundAssumption DEF StoreInv, StoreTypeOK, StageInv, GrantInv,
     FreeInv, NewBuild, Settled, Builds,
     Disks, Processes, StartStages, Lookups
<1>1. CASE StartOld
  BY <1>1 DEF StartOld
<1>2. CASE StartNew
  BY <1>2 DEF StartNew, Grandfathers, PaidEra
<1>3. CASE InitReturns
  BY <1>3 DEF InitReturns, QuestionOpen
<1>4. CASE InitRoot
  BY <1>4 DEF InitRoot, Shown
<1>5. CASE CheckAgain
  BY <1>5 DEF CheckAgain, Shown, Resolved, Grandfathers,
       PaidEra
<1>6. CASE StoreAnswers
  BY <1>6 DEF StoreAnswers, Resolved, Grandfathers, PaidEra
<1>7. CASE StoreSilent
  BY <1>7 DEF StoreSilent
<1>8. CASE GrantWritten
  BY <1>8 DEF GrantWritten
<1>9. CASE QuitApp
  BY <1>9 DEF QuitApp, Off
<1>10. CASE Kill
  BY <1>10 DEF Kill, Off
<1>. QED
  BY <1>1, <1>2, <1>3, <1>4, <1>5, <1>6, <1>7, <1>8, <1>9, <1>10 DEF Inside

----------------------------------------------------------------------------
(* The theorems                                                            *)

LEMMA StoreInductive ==
  /\ StoreInit => StoreInv
  /\ StoreInv /\ [StoreNext]_storeVars => StoreInv'
<1>1. ASSUME StoreInit PROVE StoreInv
  <2>1. bounds \in [kills: 0..MaxKills, signOuts: 0..MaxSignOuts]
    BY <1>1, BoundAssumption DEF StoreInit
  <2>2. /\ world \in Worlds /\ account \in Accounts
        /\ disk \in Disks /\ app \in Processes
        /\ ~world.free /\ account.owns = "nothing"
        /\ disk.build = "none" /\ disk.version = "none" /\ ~disk.granted
        /\ app.stage = "off" /\ ~app.licensed /\ ~app.granted
    BY <1>1 DEF StoreInit, FreshDisk, Off, Worlds,
         Builds, Accounts, Disks, Processes, StartStages
  <2>3. lookup = "none" /\ had = FALSE
    BY <1>1 DEF StoreInit
  <2>. QED
    BY <2>1, <2>2, <2>3 DEF StoreInv, StoreTypeOK, StageInv, GrantInv, FreeInv,
         NewBuild, Settled, Lookups
<1>2. ASSUME StoreInv, UNCHANGED storeVars PROVE StoreInv'
  BY <1>2 DEF storeVars, StoreInv, StoreTypeOK, StageInv, GrantInv, FreeInv,
       NewBuild, Settled
<1>. QED
  BY <1>1, <1>2, OutsideStep, InsideStep DEF StoreNext, Outside, Inside

LEMMA StoreAlways == StoreSpec => []StoreInv
BY StoreInductive, PTL DEF StoreSpec

(* The types.                                                              *)
THEOREM StoreTypes ==
  StoreSpec => []StoreTypeOK
<1>. StoreInv => StoreTypeOK
  BY DEF StoreInv
<1>. QED
  BY StoreAlways, PTL

(* Pro for good: whoever was shown Pro on this PC has it in every later    *)
(* start once init() has returned, however often the process was killed    *)
(* between the decision, its write and the overwriting of the evidence     *)
(* (license_manager.dart:367-380, nav/init.dart).                          *)
THEOREM ShownIsKept ==
  StoreSpec => []KeptForGood
<1>. StoreInv => KeptForGood
  BY StoreFields DEF StoreInv, StageInv, GrantInv, NewBuild, KeptForGood,
       Settled, Builds
<1>. QED
  BY StoreAlways, PTL

(* A free download never gets Pro from the Store's side                    *)
(* (license_manager.dart: storeGrandfathers).                              *)
THEOREM FreeIsFree ==
  StoreSpec => []FreeStaysFree
<1>. StoreInv => FreeStaysFree
  BY DEF StoreInv, FreeInv, FreeStaysFree
<1>. QED
  BY StoreAlways, PTL

----------------------------------------------------------------------------
(* The record of an install (LicenseManager)                               *)

(* A check that is past its first write has left a key, and no key is ever *)
(* taken out of the record again.                                          *)
KeyFirst ==
  \A c \in Calls: Out(c) /\ calls[c].at \in Writes => prefs.key # Nothing

RecordInv == RecordTypeOK /\ KeyFirst

LEMMA RecordFields ==
  ASSUME RecordTypeOK
  PROVE  /\ prefs.key \in Keys \cup {Nothing} /\ prefs.valid \in BOOLEAN
         /\ prefs.plan \in Keys \cup {Nothing} /\ prefs.mail \in Keys \cup {Nothing}
         /\ prefs.checked \in Dates
         /\ process.up \in BOOLEAN /\ process.licensed \in BOOLEAN
         /\ process.key \in Keys \cup {Nothing} /\ process.mail \in Keys \cup {Nothing}
         /\ count.enters \in 0..MaxEnters /\ count.lost \in 0..MaxLost
         /\ count.kills \in 0..MaxCrashes
         /\ \A c \in Calls: calls[c] # Nothing => calls[c] \in CallRecords
BY DEF RecordTypeOK, Prefs, AppRecords, MaybeKeys

LEMMA CallType ==
  ASSUME RecordTypeOK, NEW c \in Calls, NEW k \in Keys,
         NEW action \in {"activate", "revalidate"},
         calls' = Call(c, k, action)
  PROVE  /\ calls' \in [Calls -> {Nothing} \cup CallRecords]
         /\ \A o \in Calls: calls'[o] = calls[o] \/ calls'[o].at = "asking"
<1>. DEFINE new == [key |-> k, action |-> action, at |-> "asking"]
<1>1. new \in CallRecords /\ new.at = "asking"
  BY DEF CallRecords
<1>2. calls' = [calls EXCEPT ![c] = new]
  BY DEF Call
<1>. HIDE DEF new
<1>. QED
  BY <1>1, <1>2 DEF RecordTypeOK

LEMMA StepType ==
  ASSUME RecordTypeOK, NEW c \in Calls, Out(c),
         NEW step \in {"yes", "no", "reject"} \cup Writes,
         Step(c, step)
  PROVE  /\ calls' \in [Calls -> {Nothing} \cup CallRecords]
         /\ \A o \in Calls: o # c => calls'[o] = calls[o]
         /\ calls'[c].at = step
<1>1. calls[c] \in CallRecords
  BY DEF RecordTypeOK, Out
<1>2. /\ [calls[c] EXCEPT !.at = step] \in CallRecords
      /\ [calls[c] EXCEPT !.at = step].at = step
  BY <1>1 DEF CallRecords
<1>3. calls' = [calls EXCEPT ![c] = [calls[c] EXCEPT !.at = step]]
  BY DEF Step
<1>. QED
  BY <1>2, <1>3 DEF RecordTypeOK

LEMMA OverType ==
  ASSUME RecordTypeOK, NEW c \in Calls, calls' = [calls EXCEPT ![c] = Nothing]
  PROVE  /\ calls' \in [Calls -> {Nothing} \cup CallRecords]
         /\ \A o \in Calls: calls'[o] = calls[o] \/ calls'[o] = Nothing
BY DEF RecordTypeOK

LEMMA LoadedType ==
  ASSUME RecordTypeOK
  PROVE  Loaded(prefs) \in AppRecords
<1>. DEFINE b == prefs.key # Nothing /\ prefs.valid /\ prefs.checked \in {"fresh", "stale"}
<1>1. b \in BOOLEAN
  BY RecordFields
<1>2. Loaded(prefs) =
        [up |-> TRUE, key |-> prefs.key, mail |-> prefs.mail, licensed |-> b]
  BY DEF Loaded
<1>. HIDE DEF b
<1>. QED
  BY <1>1, <1>2, RecordFields DEF AppRecords, MaybeKeys

(* The steps of a check.                                                   *)
LEMMA CheckStep ==
  ASSUME RecordInv, NEW c \in Calls,
         \/ ServiceAnswers(c) \/ Unreachable(c) \/ Accept(c)
         \/ AcceptDone(c) \/ Reject(c) \/ RejectDone(c)
  PROVE  RecordInv'
<1>. USE RecordFields DEF RecordInv, Stands
<1>1. CASE ServiceAnswers(c)
  <2>1. PICK step \in {"yes", "no"}: Step(c, step)
    BY <1>1 DEF ServiceAnswers
  <2>2. Out(c) /\ UNCHANGED <<good, prefs, process, entered, count>>
    BY <1>1 DEF ServiceAnswers, Out
  <2>3. /\ calls' \in [Calls -> {Nothing} \cup CallRecords]
        /\ \A o \in Calls: o # c => calls'[o] = calls[o]
        /\ calls'[c].at = step
    BY <2>1, <2>2, StepType
  <2>. QED
    BY <2>2, <2>3 DEF RecordTypeOK, KeyFirst, Out, Writes
<1>2. CASE Unreachable(c)
  <2>1. calls' = [calls EXCEPT ![c] = Nothing] /\ UNCHANGED <<good, prefs, process>>
        /\ entered' \in MaybeKeys
    BY <1>2 DEF Unreachable, NotTaken, RecordTypeOK, MaybeKeys
  <2>2. count' \in [enters: 0..MaxEnters, lost: 0..MaxLost, kills: 0..MaxCrashes]
    BY <1>2, KeyAssumption DEF Unreachable, RecordTypeOK
  <2>3. /\ calls' \in [Calls -> {Nothing} \cup CallRecords]
        /\ \A o \in Calls: calls'[o] = calls[o] \/ calls'[o] = Nothing
    BY <2>1, OverType
  <2>. QED
    BY <2>1, <2>2, <2>3 DEF RecordTypeOK, KeyFirst, Out
<1>3. CASE Accept(c)
  <2>1. /\ Out(c) /\ UNCHANGED <<good, process, entered, count>>
        /\ calls[c].key \in Keys
    BY <1>3 DEF Accept, Out, CallRecords
  <2>2. PICK step \in Writes: Step(c, step)
    BY <1>3 DEF Accept, Writes
  <2>3. /\ calls' \in [Calls -> {Nothing} \cup CallRecords]
        /\ \A o \in Calls: o # c => calls'[o] = calls[o]
    BY <2>1, <2>2, StepType
  <2>4. calls[c].at = "yes" \/ prefs.key # Nothing
    BY <1>3, <2>1 DEF Accept, KeyFirst, Writes
  <2>5. prefs' \in Prefs /\ prefs'.key # Nothing
    <3>1. /\ prefs \in Prefs /\ calls[c].key \in MaybeKeys /\ calls[c].key # Nothing
          /\ "fresh" \in Dates
      BY <2>1, KeyAssumption DEF RecordTypeOK, MaybeKeys, Dates
    <3>2. CASE prefs' = [prefs EXCEPT !.key = calls[c].key]
      BY <3>1, <3>2 DEF Prefs
    <3>3. CASE /\ prefs.key # Nothing
               /\ \/ prefs' = [prefs EXCEPT !.valid = TRUE]
                  \/ prefs' = [prefs EXCEPT !.plan = calls[c].key]
                  \/ prefs' = [prefs EXCEPT !.checked = "fresh"]
                  \/ prefs' = [prefs EXCEPT !.mail = calls[c].key]
                  \/ prefs' = [prefs EXCEPT !.mail = @]
      BY <3>1, <3>3 DEF Prefs
    <3>. QED
      BY <1>3, <2>4, <3>2, <3>3 DEF Accept
  <2>. QED
    BY <2>1, <2>3, <2>5 DEF RecordTypeOK, KeyFirst
<1>4. CASE AcceptDone(c)
  <2>1. /\ calls' = [calls EXCEPT ![c] = Nothing] /\ process' = Loaded(prefs)
        /\ UNCHANGED <<good, prefs, count>>
    BY <1>4 DEF AcceptDone
  <2>2. entered' \in MaybeKeys
    BY <1>4 DEF AcceptDone, RecordTypeOK
  <2>3. /\ calls' \in [Calls -> {Nothing} \cup CallRecords]
        /\ \A o \in Calls: calls'[o] = calls[o] \/ calls'[o] = Nothing
    BY <2>1, OverType
  <2>. QED
    BY <2>1, <2>2, <2>3, LoadedType DEF RecordTypeOK, KeyFirst, Out
<1>5. CASE Reject(c)
  <2>1. Out(c) /\ UNCHANGED <<good, process, count>> /\ entered' \in MaybeKeys
    BY <1>5 DEF Reject, NotTaken, Out, RecordTypeOK, MaybeKeys
  <2>2. CASE prefs' = [prefs EXCEPT !.valid = FALSE] /\ Step(c, "reject")
    <3>1. /\ calls' \in [Calls -> {Nothing} \cup CallRecords]
          /\ \A o \in Calls: o # c => calls'[o] = calls[o]
          /\ calls'[c].at = "reject"
      BY <2>1, <2>2, StepType
    <3>2. prefs' \in Prefs /\ prefs'.key = prefs.key /\ ~prefs'.valid
      BY <2>2 DEF RecordTypeOK, Prefs
    <3>. QED
      BY <2>1, <3>1, <3>2 DEF RecordTypeOK, KeyFirst, Out, Writes
  <2>3. CASE calls' = [calls EXCEPT ![c] = Nothing] /\ UNCHANGED prefs
    <3>1. /\ calls' \in [Calls -> {Nothing} \cup CallRecords]
          /\ \A o \in Calls: calls'[o] = calls[o] \/ calls'[o] = Nothing
      BY <2>3, OverType
    <3>. QED
      BY <2>1, <2>3, <3>1 DEF RecordTypeOK, KeyFirst, Out
  <2>. QED
    BY <1>5, <2>2, <2>3 DEF Reject
<1>6. CASE RejectDone(c)
  <2>1. /\ calls' = [calls EXCEPT ![c] = Nothing] /\ process' = Loaded(prefs)
        /\ UNCHANGED <<good, prefs, entered, count>>
    BY <1>6 DEF RejectDone
  <2>2. /\ calls' \in [Calls -> {Nothing} \cup CallRecords]
        /\ \A o \in Calls: calls'[o] = calls[o] \/ calls'[o] = Nothing
    BY <2>1, OverType
  <2>. QED
    BY <2>1, <2>2, LoadedType DEF RecordTypeOK, KeyFirst, Out
<1>. QED
  BY <1>1, <1>2, <1>3, <1>4, <1>5, <1>6

(* The application, its user and the service.                              *)
LEMMA AroundStep ==
  ASSUME RecordInv,
         \/ LoadRecord \/ Leave \/ Crash \/ DaysPass
         \/ \E k \in Keys: EnterKey(k) \/ RevokeKey(k)
  PROVE  RecordInv'
<1>. USE RecordFields DEF RecordInv
<1>1. CASE LoadRecord
  <2>1. process' = Loaded(prefs) /\ UNCHANGED <<good, prefs, entered, count>>
    BY <1>1 DEF LoadRecord
  <2>2. CASE Stale(prefs)
    <3>1. prefs.key \in Keys
      BY <2>2 DEF Stale
    <3>2. PICK c \in Calls: calls' = Call(c, prefs.key, "revalidate")
      BY <1>1, <2>2 DEF LoadRecord
    <3>3. calls' \in [Calls -> {Nothing} \cup CallRecords]
      BY <3>1, <3>2, CallType
    <3>. QED
      BY <2>1, <3>1, <3>3, LoadedType, KeyAssumption DEF RecordTypeOK, KeyFirst
  <2>3. CASE ~Stale(prefs)
    <3>1. UNCHANGED calls
      BY <1>1, <2>3 DEF LoadRecord
    <3>. QED
      BY <2>1, <3>1, LoadedType DEF RecordTypeOK, KeyFirst, Out
  <2>. QED
    BY <2>2, <2>3
<1>2. CASE Leave \/ Crash
  <2>1. /\ process' = Ended /\ UNCHANGED <<good, prefs>> /\ entered' \in MaybeKeys
        /\ calls' = calls \/ calls' = [c \in Calls |-> Nothing]
    BY <1>2 DEF Leave, Crash, RecordTypeOK, MaybeKeys
  <2>2. count' \in [enters: 0..MaxEnters, lost: 0..MaxLost, kills: 0..MaxCrashes]
    BY <1>2, KeyAssumption DEF Leave, Crash, RecordTypeOK
  <2>3. Ended \in AppRecords
    BY DEF Ended, AppRecords, RecordTypeOK
  <2>. QED
    BY <2>1, <2>2, <2>3 DEF RecordTypeOK, KeyFirst, Out
<1>3. CASE DaysPass
  <2>1. UNCHANGED <<good, process, calls, entered, count>>
    BY <1>3 DEF DaysPass
  <2>2. prefs' \in Prefs /\ prefs'.key = prefs.key /\ prefs'.valid = prefs.valid
    BY <1>3 DEF DaysPass, RecordTypeOK, Prefs, Dates
  <2>. QED
    BY <2>1, <2>2 DEF RecordTypeOK, KeyFirst, Out
<1>4. ASSUME NEW k \in Keys, EnterKey(k) PROVE RecordInv'
  <2>1. PICK c \in Calls: calls' = Call(c, k, "activate")
    BY <1>4 DEF EnterKey
  <2>2. entered' \in MaybeKeys /\ UNCHANGED <<good, prefs, process>>
    BY <1>4 DEF EnterKey, MaybeKeys
  <2>3. count' \in [enters: 0..MaxEnters, lost: 0..MaxLost, kills: 0..MaxCrashes]
    BY <1>4, KeyAssumption DEF EnterKey, RecordTypeOK
  <2>4. /\ calls' \in [Calls -> {Nothing} \cup CallRecords]
        /\ \A o \in Calls: calls'[o] = calls[o] \/ calls'[o].at = "asking"
    BY <2>1, CallType
  <2>. QED
    BY <2>2, <2>3, <2>4 DEF RecordTypeOK, KeyFirst, Out, Writes,
       MaybeKeys
<1>5. ASSUME NEW k \in Keys, RevokeKey(k) PROVE RecordInv'
  BY <1>5 DEF RevokeKey, RecordTypeOK, KeyFirst, Out
<1>. QED
  BY <1>1, <1>2, <1>3, <1>4, <1>5

LEMMA RecordStarts == RecordInit => RecordInv
<1>. SUFFICES ASSUME RecordInit PROVE RecordInv
  OBVIOUS
<1>1. /\ good \subseteq Keys /\ entered = Nothing
      /\ prefs \in Prefs /\ ~prefs.valid /\ process \in AppRecords
      /\ calls = [c \in Calls |-> Nothing]
  BY DEF RecordInit, Prefs, AppRecords, MaybeKeys, Dates
<1>2. count \in [enters: 0..MaxEnters, lost: 0..MaxLost, kills: 0..MaxCrashes]
  BY KeyAssumption DEF RecordInit
<1>. QED
  BY <1>1, <1>2 DEF RecordInv, RecordTypeOK, KeyFirst, Out, MaybeKeys

LEMMA RecordStep == RecordInv /\ [RecordNext]_recordVars => RecordInv'
<1>1. ASSUME RecordInv, UNCHANGED recordVars PROVE RecordInv'
  BY <1>1 DEF recordVars, RecordInv, RecordTypeOK, KeyFirst, Out
<1>. QED
  BY <1>1, CheckStep, AroundStep DEF RecordNext

(* Whatever checks are out together, and wherever the process is killed    *)
(* between two of their writes, the record has its type and is valid only  *)
(* with a key (license_manager.dart: _check writes the key first).         *)
THEOREM RecordKeyed ==
  RecordSpec => []RecordTypeOK
<1>1. RecordInv => RecordTypeOK
  BY DEF RecordInv
<1>. QED
  BY <1>1, RecordStarts, RecordStep, PTL DEF RecordSpec

----------------------------------------------------------------------------
(* What the finding needs: a key that is entered beside another check      *)

(* No key is being entered while another check is out.                     *)
EnteredAlone == \A c \in Activating: \A d \in Calls: Out(d) => d = c

(* The record and the process, for the key that was entered, ...           *)
Loading(c) == Out(c) /\ calls[c].at \in {"mail", "load"}
Unlocked ==
  process.up /\ entered \in good /\ prefs.checked # "lapsed" => process.licensed
InPlace ==
  /\ prefs.key = entered /\ prefs.checked # "never"
  /\ entered \in good => prefs.valid
  /\ process.up => process.key = entered
  /\ Unlocked \/ \E c \in Calls: Loading(c)

(* ... and how far the check that puts it there is with the record.        *)
PutInPlace(c) ==
  /\ calls[c].at # "reject"
  /\ calls[c].at \in Writes \ {"valid"} => prefs.key = entered /\ prefs.valid
  /\ calls[c].at = "valid" => prefs.key = entered
  /\ calls[c].at \in {"mail", "load"} => prefs.checked = "fresh"

EnteredInv ==
  entered # Nothing =>
    /\ \A c \in Calls: Out(c) => calls[c].key = entered
    /\ \A c \in Calls: Out(c) /\ calls[c].at \in {"no", "reject"} => entered \notin good
    /\ Activating = {} => InPlace
    /\ \A c \in Activating: PutInPlace(c)

(* A check that goes on, one that ends, one that begins.                   *)
LEMMA GoesOn ==
  ASSUME RecordTypeOK, NEW c \in Calls, Out(c),
         NEW step \in {"yes", "no", "reject"} \cup Writes, Step(c, step)
  PROVE  /\ \A o \in Calls: o # c => calls'[o] = calls[o]
         /\ calls'[c].at = step /\ calls'[c].key = calls[c].key
         /\ \A o \in Calls: Out(o)' <=> Out(o)
         /\ Activating' = Activating
<1>1. calls[c] \in CallRecords
  BY DEF RecordTypeOK, Out
<1>. DEFINE new == [calls[c] EXCEPT !.at = step]
<1>2. /\ new \in CallRecords /\ new.at = step /\ new.key = calls[c].key
      /\ new.action = calls[c].action
  BY <1>1 DEF CallRecords
<1>3. calls' = [calls EXCEPT ![c] = new]
  BY DEF Step
<1>. HIDE DEF new
<1>4. calls'[c] = new /\ \A o \in Calls: o # c => calls'[o] = calls[o]
  BY <1>3 DEF RecordTypeOK
<1>5. \A o \in Calls: Out(o)' <=> Out(o)
  BY <1>2, <1>4, NothingAssumption DEF Out
<1>. QED
  BY <1>2, <1>4, <1>5 DEF Activating

LEMMA CheckEnds ==
  ASSUME RecordTypeOK, NEW c \in Calls, calls' = [calls EXCEPT ![c] = Nothing]
  PROVE  /\ \A o \in Calls: o # c => calls'[o] = calls[o]
         /\ \A o \in Calls: Out(o)' <=> Out(o) /\ o # c
         /\ Activating' = Activating \ {c}
BY DEF RecordTypeOK, Out, Activating

LEMMA CheckBegins ==
  ASSUME RecordTypeOK, NEW c \in Calls, ~Out(c), NEW k \in Keys,
         NEW action \in {"activate", "revalidate"}, calls' = Call(c, k, action)
  PROVE  /\ \A o \in Calls: o # c => calls'[o] = calls[o]
         /\ calls'[c].at = "asking" /\ calls'[c].key = k
         /\ \A o \in Calls: Out(o)' <=> Out(o) \/ o = c
         /\ Activating' = IF action = "activate" THEN Activating \cup {c} ELSE Activating
<1>. DEFINE new == [key |-> k, action |-> action, at |-> "asking"]
<1>1. /\ new \in CallRecords /\ new.at = "asking" /\ new.key = k
      /\ new.action = action
  BY DEF CallRecords
<1>2. calls' = [calls EXCEPT ![c] = new]
  BY DEF Call
<1>. HIDE DEF new
<1>3. calls'[c] = new /\ \A o \in Calls: o # c => calls'[o] = calls[o]
  BY <1>2 DEF RecordTypeOK
<1>4. \A o \in Calls: Out(o)' <=> Out(o) \/ o = c
  BY <1>1, <1>3, NothingAssumption DEF Out
<1>. QED
  BY <1>1, <1>3, <1>4 DEF Activating, Out

(* Once the record is in place, loading it unlocks Pro.                    *)
LEMMA LoadUnlocks ==
  ASSUME RecordTypeOK, entered # Nothing, prefs.key = entered, prefs.checked # "never",
         entered \in good => prefs.valid,
         process' = Loaded(prefs), UNCHANGED <<good, prefs, entered>>
  PROVE  InPlace'
<1>1. prefs.checked \in {"never", "fresh", "stale", "lapsed"} /\ prefs.valid \in BOOLEAN
  BY RecordFields DEF Dates
<1>2. /\ process'.key = prefs.key
      /\ process'.licensed =
           (prefs.key # Nothing /\ prefs.valid /\ prefs.checked \in {"fresh", "stale"})
  BY DEF Loaded
<1>3. Unlocked'
  BY <1>1, <1>2 DEF Unlocked
<1>. QED
  BY <1>2, <1>3 DEF InPlace

(* The steps of a check: one that is out beside no activation, or is one.  *)
LEMMA EnteredCheckStep ==
  ASSUME RecordTypeOK, EnteredAlone, EnteredInv, NEW c \in Calls,
         \/ ServiceAnswers(c) \/ Unreachable(c) \/ Accept(c)
         \/ AcceptDone(c) \/ Reject(c) \/ RejectDone(c)
  PROVE  EnteredInv'
<1>. SUFFICES ASSUME entered' # Nothing PROVE EnteredInv'
  BY DEF EnteredInv
<1>. USE DEF EnteredInv
<1>1. c \notin Activating => Activating = {}
  BY DEF EnteredAlone, ServiceAnswers, Unreachable, Accept, AcceptDone, Reject, RejectDone,
         Stands, Out, Activating
<1>2. CASE ServiceAnswers(c)
  <2>1. PICK step \in {"yes", "no"}:
          Step(c, step) /\ (step = "no" => calls[c].key \notin good)
    BY <1>2 DEF ServiceAnswers
  <2>2. Out(c) /\ ~Loading(c) /\ UNCHANGED <<good, prefs, process, entered>>
    BY <1>2 DEF ServiceAnswers, Stands, Out, Loading
  <2>3. /\ \A o \in Calls: o # c => calls'[o] = calls[o]
        /\ calls'[c].at = step /\ calls'[c].key = calls[c].key
        /\ \A o \in Calls: Out(o)' <=> Out(o)
        /\ Activating' = Activating
    BY <2>1, <2>2, GoesOn
  <2>4. Activating' = {} => InPlace'
    BY <2>2, <2>3 DEF InPlace, Unlocked, Loading
  <2>5. \A o \in Activating': PutInPlace(o)'
    BY <2>1, <2>2, <2>3 DEF PutInPlace, Activating, Writes
  <2>. QED
    BY <2>1, <2>2, <2>3, <2>4, <2>5
<1>3. CASE Unreachable(c)
  <2>1. /\ calls' = [calls EXCEPT ![c] = Nothing] /\ c \notin Activating
        /\ Out(c) /\ ~Loading(c) /\ UNCHANGED <<good, prefs, process, entered>>
    BY <1>3 DEF Unreachable, NotTaken, Stands, Out, Loading
  <2>2. /\ \A o \in Calls: o # c => calls'[o] = calls[o]
        /\ \A o \in Calls: Out(o)' <=> Out(o) /\ o # c
        /\ Activating' = {} /\ Activating = {}
    BY <1>1, <2>1, CheckEnds
  <2>3. InPlace'
    BY <2>1, <2>2 DEF InPlace, Unlocked, Loading
  <2>. QED
    BY <2>1, <2>2, <2>3
<1>4. CASE Accept(c)
  <2>1. PICK step \in Writes: Step(c, step) /\ (step # "mail" => prefs'.checked = prefs.checked)
                               /\ (calls[c].at \in {"mail", "load"} => step = "load")
    BY <1>4 DEF Accept, Stands, Writes, RecordTypeOK, Prefs
  <2>2. Out(c) /\ UNCHANGED <<good, process, entered>> /\ calls[c].key = entered
    BY <1>4 DEF Accept, Stands, Out
  <2>3. /\ \A o \in Calls: o # c => calls'[o] = calls[o]
        /\ calls'[c].at = step /\ calls'[c].key = calls[c].key
        /\ \A o \in Calls: Out(o)' <=> Out(o)
        /\ Activating' = Activating
    BY <2>1, <2>2, GoesOn
  <2>4. /\ prefs'.key = prefs.key \/ prefs'.key = entered
        /\ prefs'.valid = prefs.valid \/ prefs'.valid
        /\ prefs'.checked = prefs.checked \/ prefs'.checked = "fresh"
    BY <1>4, <2>2 DEF Accept, RecordTypeOK, Prefs
  <2>5. ASSUME Activating' = {} PROVE InPlace'
    <3>1. InPlace
      BY <2>2, <2>3, <2>5
    <3>2. Loading(c) => Loading(c)'
      BY <2>1, <2>3 DEF Loading
    <3>3. \A o \in Calls \ {c}: Loading(o) => Loading(o)'
      BY <2>3 DEF Loading
    <3>4. Unlocked' \/ \E o \in Calls: Loading(o)'
      BY <2>1, <2>2, <2>3, <3>1, <3>2, <3>3 DEF InPlace, Unlocked, Loading
    <3>. QED
      BY <2>2, <2>4, <3>1, <3>4 DEF InPlace
  <2>6. ASSUME c \in Activating PROVE PutInPlace(c)'
    <3>1. PutInPlace(c) /\ prefs \in Prefs /\ "valid" \in Writes
      BY <2>2, <2>6 DEF RecordTypeOK, Writes
    <3>. USE <2>2, <2>3, <3>1 DEF PutInPlace, Step, Writes
    <3>2. CASE Stands(c, "yes") /\ Step(c, "valid") /\ prefs' = [prefs EXCEPT !.key = calls[c].key]
      BY <3>2 DEF Stands, Prefs, RecordTypeOK, CallRecords
    <3>3. CASE Stands(c, "valid") /\ Step(c, "plan") /\ prefs' = [prefs EXCEPT !.valid = TRUE]
      BY <3>3 DEF Stands, Prefs, RecordTypeOK, CallRecords
    <3>4. CASE Stands(c, "plan") /\ Step(c, "checked") /\ prefs' = [prefs EXCEPT !.plan = calls[c].key]
      BY <3>4 DEF Stands, Prefs, RecordTypeOK, CallRecords
    <3>5. CASE Stands(c, "checked") /\ Step(c, "mail") /\ prefs' = [prefs EXCEPT !.checked = "fresh"]
      BY <3>5 DEF Stands, Prefs, RecordTypeOK, CallRecords
    <3>6. CASE /\ Stands(c, "mail") /\ Step(c, "load")
               /\ prefs' = [prefs EXCEPT !.mail = IF calls[c].key \in WithMail
                                                  THEN calls[c].key ELSE @]
      BY <3>6 DEF Stands, Prefs, RecordTypeOK, CallRecords
    <3>. QED
      BY <1>4, <3>2, <3>3, <3>4, <3>5, <3>6 DEF Accept
  <2>7. \A o \in Activating: o = c
    BY <2>2 DEF EnteredAlone, Activating
  <2>8. \A o \in Calls: Out(o)' /\ calls'[o].at \in {"no", "reject"} => entered' \notin good'
    BY <2>2, <2>3 DEF Writes
  <2>. QED
    BY <2>2, <2>3, <2>5, <2>6, <2>7, <2>8 DEF Activating
<1>5. CASE AcceptDone(c)
  <2>1. /\ calls' = [calls EXCEPT ![c] = Nothing] /\ process' = Loaded(prefs)
        /\ Out(c) /\ Loading(c) /\ calls[c].at = "load" /\ UNCHANGED <<good, prefs, entered>>
    BY <1>5 DEF AcceptDone, Stands, Out, Loading
  <2>2. /\ \A o \in Calls: o # c => calls'[o] = calls[o]
        /\ \A o \in Calls: Out(o)' <=> Out(o) /\ o # c
        /\ Activating' = Activating \ {c}
    BY <2>1, CheckEnds
  <2>3. c \in Activating => PutInPlace(c)
    BY <2>1
  <2>4. prefs.key = entered /\ prefs.checked # "never" /\ (entered \in good => prefs.valid)
    BY <1>1, <2>1, <2>3 DEF PutInPlace, InPlace, Writes
  <2>5. InPlace'
    BY <2>1, <2>4, LoadUnlocks
  <2>6. Activating' = {}
    BY <1>1, <2>1, <2>2 DEF EnteredAlone, Activating
  <2>. QED
    BY <2>1, <2>2, <2>5, <2>6
<1>6. CASE Reject(c)
  <2>1. c \notin Activating /\ UNCHANGED <<good, process, entered>> /\ Out(c)
        /\ calls[c].at = "no"
    BY <1>6 DEF Reject, NotTaken, Stands, Out
  <2>2. Step(c, "reject") /\ prefs' = [prefs EXCEPT !.valid = FALSE]
    <3>1. calls[c].action \in {"activate", "revalidate"}
      BY <2>1 DEF RecordTypeOK, CallRecords, Out
    <3>. QED
      BY <1>6, <2>1, <3>1 DEF Reject, Activating
  <2>3. /\ \A o \in Calls: o # c => calls'[o] = calls[o]
        /\ calls'[c].at = "reject" /\ calls'[c].key = calls[c].key
        /\ \A o \in Calls: Out(o)' <=> Out(o)
        /\ Activating' = Activating
    BY <2>1, <2>2, GoesOn
  <2>4. entered \notin good /\ prefs'.key = prefs.key /\ prefs'.checked = prefs.checked
    BY <2>1, <2>2 DEF RecordTypeOK, Prefs
  <2>5. InPlace'
    BY <1>1, <2>1, <2>4 DEF InPlace, Unlocked
  <2>. QED
    BY <1>1, <2>1, <2>3, <2>4, <2>5
<1>7. CASE RejectDone(c)
  <2>1. /\ calls' = [calls EXCEPT ![c] = Nothing] /\ process' = Loaded(prefs)
        /\ Out(c) /\ calls[c].at = "reject" /\ UNCHANGED <<good, prefs, entered>>
    BY <1>7 DEF RejectDone, Stands, Out
  <2>2. c \notin Activating
    BY <2>1 DEF PutInPlace
  <2>3. /\ \A o \in Calls: o # c => calls'[o] = calls[o]
        /\ \A o \in Calls: Out(o)' <=> Out(o) /\ o # c
        /\ Activating' = {} /\ Activating = {}
    BY <1>1, <2>1, <2>2, CheckEnds
  <2>4. InPlace'
    BY <2>1, <2>3, LoadUnlocks DEF InPlace
  <2>. QED
    BY <2>1, <2>3, <2>4
<1>. QED
  BY <1>2, <1>3, <1>4, <1>5, <1>6, <1>7

LEMMA EnteredAroundStep ==
  ASSUME RecordTypeOK, EnteredInv, EnteredAlone',
         \/ LoadRecord \/ Leave \/ Crash \/ DaysPass
         \/ \E k \in Keys: EnterKey(k) \/ RevokeKey(k)
  PROVE  EnteredInv'
<1>. SUFFICES ASSUME entered' # Nothing PROVE EnteredInv'
  BY DEF EnteredInv
<1>. USE DEF EnteredInv
<1>1. CASE LoadRecord
  <2>1. process' = Loaded(prefs) /\ UNCHANGED <<good, prefs, entered, count>>
    BY <1>1 DEF LoadRecord
  <2>2. ASSUME Activating = {} PROVE InPlace'
    BY <2>1, <2>2, LoadUnlocks DEF InPlace
  <2>3. CASE UNCHANGED calls
    BY <2>1, <2>2, <2>3 DEF Out, Activating, PutInPlace, InPlace
  <2>4. CASE Stale(prefs)
    <3>1. PICK c \in Calls: ~Out(c) /\ calls' = Call(c, prefs.key, "revalidate")
      BY <1>1, <2>4 DEF LoadRecord
    <3>2. prefs.key \in Keys
      BY <2>4, RecordFields DEF Stale
    <3>3. /\ \A o \in Calls: o # c => calls'[o] = calls[o]
          /\ calls'[c].at = "asking" /\ calls'[c].key = prefs.key
          /\ \A o \in Calls: Out(o)' <=> Out(o) \/ o = c
          /\ Activating' = Activating
      BY <3>1, <3>2, CheckBegins
    <3>4. Activating = {}
      BY <3>1, <3>3 DEF EnteredAlone, Activating
    <3>5. prefs.key = entered
      BY <2>1, <3>4 DEF InPlace
    <3>. QED
      BY <2>1, <2>2, <3>3, <3>4, <3>5
  <2>. QED
    BY <1>1, <2>3, <2>4 DEF LoadRecord
<1>2. CASE Leave \/ Crash
  <2>1. /\ UNCHANGED <<good, prefs>> /\ ~process'.up /\ entered' = entered
        /\ Activating = {} /\ \A c \in Calls: ~Out(c)'
    BY <1>2 DEF Leave, Crash, Ended, RecordTypeOK, AppRecords, Out, Activating
  <2>2. InPlace'
    BY <2>1 DEF InPlace, Unlocked
  <2>. QED
    BY <2>1, <2>2 DEF Activating
<1>3. CASE DaysPass
  <2>1. /\ UNCHANGED <<good, process, calls, entered>>
        /\ \A c \in Calls: ~Out(c)
    BY <1>3 DEF DaysPass
  <2>2. /\ prefs'.key = prefs.key /\ prefs'.valid = prefs.valid
        /\ prefs'.checked \in {"stale", "lapsed"} /\ prefs.checked # "lapsed"
    BY <1>3 DEF DaysPass, RecordTypeOK, Prefs
  <2>3. Activating = {} /\ Activating' = {} /\ \A c \in Calls: ~Out(c)'
    BY <2>1 DEF Activating, Out
  <2>4. InPlace'
    BY <2>1, <2>2, <2>3 DEF InPlace, Unlocked, Loading
  <2>. QED
    BY <2>1, <2>3, <2>4
<1>4. ASSUME NEW k \in Keys, EnterKey(k) PROVE EnteredInv'
  <2>1. Activating = {} /\ entered' = k
    BY <1>4 DEF EnterKey
  <2>2. PICK c \in Calls: ~Out(c) /\ calls' = Call(c, k, "activate")
    BY <1>4 DEF EnterKey
  <2>3. /\ calls'[c].at = "asking" /\ calls'[c].key = k
        /\ \A o \in Calls: Out(o)' <=> Out(o) \/ o = c
        /\ Activating' = {c}
    BY <2>1, <2>2, CheckBegins
  <2>4. \A o \in Calls: Out(o)' => o = c
    BY <2>3 DEF EnteredAlone
  <2>. QED
    BY <2>1, <2>3, <2>4 DEF PutInPlace, Writes
<1>5. ASSUME NEW k \in Keys, RevokeKey(k) PROVE EnteredInv'
  <2>1. good' \subseteq good /\ UNCHANGED <<prefs, process, calls, entered>>
    BY <1>5 DEF RevokeKey
  <2>. QED
    BY <2>1 DEF Out, Activating, PutInPlace, InPlace, Unlocked, Loading
<1>. QED
  BY <1>1, <1>2, <1>3, <1>4, <1>5

(* In every history in which no key is entered beside another check, the   *)
(* key that was entered last stays: what EnteredKeyStays says fails by     *)
(* nothing but that overlap (license_manager.dart: revalidate writes       *)
(* without looking at the key).                                            *)
THEOREM EnteredStays ==
  RecordSpec /\ []EnteredAlone => []EnteredKeyStays
<1>1. RecordInit => RecordInv /\ EnteredInv
  BY RecordStarts DEF RecordInit, EnteredInv
<1>2. ASSUME RecordInv, EnteredInv, UNCHANGED recordVars PROVE EnteredInv'
  BY <1>2 DEF recordVars, EnteredInv, Out, Activating, PutInPlace, InPlace, Unlocked, Loading
<1>3. RecordInv /\ EnteredInv /\ EnteredAlone /\ EnteredAlone' /\ [RecordNext]_recordVars
        => RecordInv' /\ EnteredInv'
  BY <1>2, RecordStep, EnteredCheckStep, EnteredAroundStep DEF RecordNext, RecordInv
<1>4. RecordInv /\ EnteredInv => EnteredKeyStays
  <2>. SUFFICES ASSUME RecordInv, EnteredInv, process.up, entered \in good,
                       prefs.checked # "lapsed", \A c \in Calls: ~Out(c)
                PROVE  process.licensed /\ process.key = entered
    BY DEF EnteredKeyStays
  <2>1. entered # Nothing
    BY KeyAssumption DEF RecordInv, RecordTypeOK
  <2>2. Activating = {}
    BY DEF Activating
  <2>. QED
    BY <2>1, <2>2 DEF EnteredInv, InPlace, Unlocked, Loading
<1>. QED
  BY <1>1, <1>3, <1>4, PTL DEF RecordSpec
=============================================================================
