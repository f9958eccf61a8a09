------------------------------ MODULE Licensing ------------------------------
(***************************************************************************)
(* One licence key on several PCs: the installs (lib/api/                  *)
(* license_manager.dart, lib/screens/license_screen.dart) and the licence  *)
(* service (n8n/licensing: the validate workflow around seat_check.js).    *)
(*                                                                         *)
(* The workflow reads the key's row, decides, answers, and only then       *)
(* writes the row back, so requests that overlap decide on the same row.   *)
(* Days are counted in periods; ages are kept instead of dates and stop    *)
(* one past the last limit they are compared with.  Left out: requests     *)
(* without a device id and the caps on the number of entries, the parsing  *)
(* of the devices column, the Store's own entitlement; several keys on one *)
(* install are in LicenseManager.                                          *)
(***************************************************************************)
EXTENDS Naturals, FiniteSets

CONSTANTS
  Devices,          \* the installs that know the key
  Requests,         \* requests that may be on their way (bounds the overlap)
  None,
  Seats,            \* the row's seats
  RevalidateAfter,  \* LicenseManager.revalidateAfter, 14 days
  OfflineGrace,     \* LicenseManager.offlineGrace, 60 days
  SeatWindow,       \* SEAT_WINDOW_DAYS, 90
  KeepDays,         \* KEEP_DAYS, 180
  Serial            \* whether the service handles one request at a time

ASSUME LimitAssumption ==
  /\ {Seats, RevalidateAfter, OfflineGrace, SeatWindow, KeepDays} \subseteq Nat
  /\ Seats >= 1
  /\ RevalidateAfter <= OfflineGrace
  /\ OfflineGrace <= SeatWindow
  /\ SeatWindow <= KeepDays

ASSUME SwitchAssumption ==
  /\ Serial \in BOOLEAN
  /\ None \notin Devices
  /\ IsFiniteSet(Devices)

VARIABLES
  row,       \* the licence's row in wsl-manager-licenses
  reqs,      \* the requests on their way, with the workflow's copy of the row
  apps,      \* each install's process and its WebLicense* prefs
  since,     \* history: who took a seat after each device last took one
  last,      \* history: the device whose seat was taken last
  told       \* history: the devices nobody displaced since their last valid answer

vars == <<row, reqs, apps, since, last, told>>

Older(age, limit) == IF age > limit THEN age ELSE age + 1

----------------------------------------------------------------------------
(* seat_check.js                                                           *)

(* later[d] stands for the order of activated_at: the devices in the row   *)
(* that activated after d.  A device not known has no one after it and the *)
(* age "dropped".                                                          *)
Rows == [active: BOOLEAN, revokedFor: 0..(OfflineGrace + 1),
         known: SUBSET Devices,
         seen: [Devices -> 0..(KeepDays + 1)],
         later: [Devices -> SUBSET Devices]]

Present(r) == {d \in r.known: r.seen[d] <= SeatWindow}

(* Mutants: one seat too many; the oldest activations win.                 *)
SeatHoldersOneMore(r) ==
  {d \in Present(r): Cardinality(r.later[d] \cap Present(r)) <= Seats}
SeatHoldersOldest(r) ==
  {d \in Present(r):
     Cardinality({e \in Present(r): d \in r.later[e]}) < Seats}

SeatHolders(r) ==
  {d \in Present(r): Cardinality(r.later[d] \cap Present(r)) < Seats}

Prune(r) ==
  LET kept == SeatHolders(r) \cup {d \in r.known: r.seen[d] <= KeepDays}
  IN [r EXCEPT !.known = kept,
        !.seen = [d \in Devices |-> IF d \in kept THEN @[d] ELSE KeepDays + 1],
        !.later = [d \in Devices |-> IF d \in kept THEN @[d] \cap kept ELSE {}]]

(* A device the row has never seen is activating, whatever it says.        *)
(* Mutants: any device that holds no seat is.                              *)
TakesOften(r, d, action) == d \notin SeatHolders(r) \/ action = "activate"

Takes(r, d, action) == d \notin r.known \/ action = "activate"

Touch(r, d, takes) ==
  [r EXCEPT !.known = @ \cup {d},
            !.seen = [@ EXCEPT ![d] = 0],
            !.later = IF takes
                      THEN [e \in Devices |->
                              IF e = d THEN {}
                              ELSE IF e \in r.known THEN @[e] \cup {d} ELSE @[e]]
                      ELSE @]

(* decide(): the verdict and the new devices column, if one is written.    *)
Verdicts == {"valid", "seat_taken", "inactive"}

Decide(r, d, action) ==
  IF ~r.active THEN [verdict |-> "inactive", takes |-> FALSE, row |-> r]
  ELSE LET takes == Takes(r, d, action)
           touched == Touch(r, d, takes)
       IN [verdict |-> IF d \in SeatHolders(touched) THEN "valid"
                       ELSE "seat_taken",
           takes |-> takes, row |-> Prune(touched)]

----------------------------------------------------------------------------
(* A request: how far the workflow is with it ("stored" is its end), its   *)
(* copy of the row, and whether the install still waits for the answer.    *)
Stages == {"sent", "found", "checked", "stored"}
Actions == {"activate", "revalidate"}
RequestRecords ==
  [device: Devices, action: Actions, stage: Stages, waits: BOOLEAN,
   copy: Rows, verdict: {"none"} \cup Verdicts]

ASSUME NoneAssumption == None \notin RequestRecords

(* key: WebLicenseKey is set; age: days since WebLicenseCheckedAt;         *)
(* licensed: _keyLicensed, worked out when the record is loaded.           *)
Apps == [up: BOOLEAN, key: BOOLEAN, valid: BOOLEAN, licensed: BOOLEAN,
         age: 0..(OfflineGrace + 1)]

NewRow == [active |-> TRUE, revokedFor |-> 0, known |-> {},
           seen |-> [d \in Devices |-> KeepDays + 1],
           later |-> [d \in Devices |-> {}]]

Init ==
  /\ row = NewRow
  /\ reqs = [q \in Requests |-> None]
  /\ apps = [d \in Devices |->
               [up |-> FALSE, key |-> FALSE, valid |-> FALSE,
                licensed |-> FALSE, age |-> 0]]
  /\ since = [d \in Devices |-> {}]
  /\ last = None
  /\ told = {}

TypeOK ==
  /\ row \in Rows
  /\ reqs \in [Requests -> {None} \cup RequestRecords]
  /\ apps \in [Devices -> Apps]
  /\ since \in [Devices -> SUBSET Devices]
  /\ last \in {None} \cup Devices
  /\ told \subseteq Devices

Underway(q) == reqs[q] # None
At(q, stage) == reqs[q] # None /\ reqs[q].stage = stage

Request(q, d, action) ==
  [reqs EXCEPT ![q] = [device |-> d, action |-> action, stage |-> "sent",
                       waits |-> TRUE, copy |-> NewRow, verdict |-> "none"]]

----------------------------------------------------------------------------
(* The install                                                             *)

(* _loadStoredLicense().  Mutants: the grace is not looked at.             *)
KeyLicensedForever(app) == app.key /\ app.valid

KeyLicensed(app) == app.key /\ app.valid /\ app.age <= OfflineGrace

(* init(), at the start and when the licence page is opened: what is       *)
(* stored counts, and a stale key is checked in the background.            *)
Load(d) ==
  LET app == [apps[d] EXCEPT !.up = TRUE, !.licensed = KeyLicensed(apps[d])]
  IN /\ apps' = [apps EXCEPT ![d] = app]
     /\ IF app.key /\ app.age > RevalidateAfter
        THEN \E q \in Requests:
               ~Underway(q) /\ reqs' = Request(q, d, "revalidate")
        ELSE UNCHANGED reqs
     /\ UNCHANGED <<row, since, last, told>>

(* activate(): the user enters the key.  The page's _isActivating goes     *)
(* with the page, so a second one may start beside the first.              *)
Enter(d) ==
  /\ apps[d].up
  /\ \E q \in Requests:
       /\ ~Underway(q)
       /\ reqs' = Request(q, d, "activate")
  /\ UNCHANGED <<row, apps, since, last, told>>

(* _check() and revalidate(): the answer is taken.  A rejected activation  *)
(* changes nothing, a rejected re-check drops the entitlement.             *)
Accepted(app) ==
  [app EXCEPT !.key = TRUE, !.valid = TRUE, !.age = 0, !.licensed = TRUE]
Rejected(app) == [app EXCEPT !.valid = FALSE, !.licensed = FALSE]

Heard(q) ==
  [reqs EXCEPT ![q] = IF reqs[q].stage = "stored" THEN None
                      ELSE [reqs[q] EXCEPT !.waits = FALSE]]

Answer(q) ==
  /\ Underway(q)
  /\ reqs[q].waits
  /\ reqs[q].stage \in {"checked", "stored"}
  /\ LET d == reqs[q].device
     IN apps' = [apps EXCEPT ![d] =
                   IF reqs[q].verdict = "valid" THEN Accepted(@)
                   ELSE IF reqs[q].action = "revalidate" THEN Rejected(@)
                   ELSE @]
  /\ reqs' = Heard(q)
  /\ UNCHANGED <<row, since, last, told>>

(* The 15 s timeout or a lost connection: LicenseActivation.network.  The  *)
(* workflow goes on with what it got; or it never got it.                  *)
GiveUp(q) ==
  /\ Underway(q)
  /\ reqs[q].waits
  /\ \/ reqs' = Heard(q)
     \/ reqs[q].stage = "sent" /\ reqs' = [reqs EXCEPT ![q] = None]
  /\ UNCHANGED <<row, apps, since, last, told>>

Quit(d) ==
  /\ apps[d].up
  /\ apps' = [apps EXCEPT ![d].up = FALSE, ![d].licensed = FALSE]
  /\ reqs' = [q \in Requests |->
                IF Underway(q) /\ reqs[q].device = d /\ reqs[q].waits
                THEN Heard(q)[q] ELSE reqs[q]]
  /\ UNCHANGED <<row, since, last, told>>

----------------------------------------------------------------------------
(* The workflow                                                            *)

Busy(q) == At(q, "found") \/ At(q, "checked")

FindLicence(q) ==
  /\ At(q, "sent")
  /\ Serial => \A p \in Requests: ~Busy(p)
  /\ reqs' = [reqs EXCEPT ![q].stage = "found", ![q].copy = row]
  /\ UNCHANGED <<row, apps, since, last, told>>

SeatCheck(q) ==
  /\ At(q, "found")
  /\ LET d == reqs[q].device
         out == Decide(reqs[q].copy, d, reqs[q].action)
         displaced == SeatHolders(reqs[q].copy) \ SeatHolders(out.row)
     IN /\ reqs' = [reqs EXCEPT ![q].stage = "checked",
                                ![q].verdict = out.verdict,
                                ![q].copy = out.row]
        /\ since' = IF out.takes
                    THEN [e \in Devices |-> IF e = d THEN {} ELSE since[e] \cup {d}]
                    ELSE since
        /\ last' = IF out.takes THEN d ELSE last
        /\ told' = IF out.verdict = "valid" THEN (told \ displaced) \cup {d}
                   ELSE told \ {d}
  /\ UNCHANGED <<row, apps>>

(* Devices changed, Store devices: the column only, not active or expires. *)
StoreDevices(q) ==
  /\ At(q, "checked")
  /\ row' = IF reqs[q].verdict = "inactive" THEN row
            ELSE [row EXCEPT !.known = reqs[q].copy.known,
                             !.seen = reqs[q].copy.seen,
                             !.later = reqs[q].copy.later]
  /\ reqs' = [reqs EXCEPT ![q] = IF @.waits
                                 THEN [@ EXCEPT !.stage = "stored", !.copy = NewRow]
                                 ELSE None]
  /\ UNCHANGED <<apps, since, last, told>>

(* A refund or an expiry (Stripe Trigger, Update row(s)). *)
Revoke ==
  /\ row.active
  /\ row' = [row EXCEPT !.active = FALSE]
  /\ UNCHANGED <<reqs, apps, since, last, told>>

(* A period passes, for a process that stays up as for one that is not.  A *)
(* request lasts seconds, so none is underway.                             *)
Tick ==
  /\ \A q \in Requests: ~Underway(q)
  /\ row' = [row EXCEPT !.seen = [d \in Devices |-> Older(@[d], KeepDays)],
                        !.revokedFor = IF row.active THEN 0
                                       ELSE Older(@, OfflineGrace)]
  /\ apps' = [d \in Devices |-> [apps[d] EXCEPT !.age = Older(@, OfflineGrace)]]
  /\ UNCHANGED <<reqs, since, last, told>>

Next ==
  \/ \E d \in Devices: Load(d) \/ Enter(d) \/ Quit(d)
  \/ \E q \in Requests:
       FindLicence(q) \/ SeatCheck(q) \/ StoreDevices(q) \/ Answer(q) \/ GiveUp(q)
  \/ Revoke
  \/ Tick

Spec == Init /\ [][Next]_vars

----------------------------------------------------------------------------
(* Properties                                                              *)

(* What is stored of an inactive licence may still say valid; what counts  *)
(* is whether Pro is on.  A process that stays up goes on with what it     *)
(* worked out when it loaded the record; Current leaves those out.         *)
Pro == {d \in Devices: apps[d].licensed}
Current == {d \in Devices: apps[d].age <= OfflineGrace}

(* The installs that have Pro on a record within the offline grace, and    *)
(* were not pushed out by another device since the service last answered   *)
(* them, are never more than the seats: an install that was pushed out is  *)
(* one check away from losing Pro, and one that left its seat by being     *)
(* away has left the grace first (seat_check.js: "anything alive is seen   *)
(* well inside this window").                                              *)
SeatsRespected == Cardinality(Pro \cap told \cap Current) <= Seats

(* Nobody is denied for nothing: a device the service turns away as        *)
(* "seat_taken" was followed by as many other devices as there are seats   *)
(* since it last took one itself.                                          *)
DeniedFairly ==
  [][\A q \in Requests:
       At(q, "found") /\ reqs'[q] # None /\ reqs'[q].verdict = "seat_taken"
         => Cardinality(since[reqs[q].device]) >= Seats]_vars

(* With no request underway the device that took a seat last holds one, as *)
(* long as it is around: whoever entered the key last has Pro.             *)
LastEnteredHolds ==
  (\A q \in Requests: ~Underway(q)) /\ last # None
    => (row.seen[last] <= SeatWindow => last \in SeatHolders(row))

(* A re-check never changes who holds a seat: not by a device that was     *)
(* seen within the window, whether it is answered valid or denied.         *)
RecheckKeepsHolders ==
  [][\A q \in Requests:
       At(q, "checked") /\ ~At(q, "checked")'
       /\ reqs[q].action = "revalidate" /\ reqs[q].device \in Present(row)
         => SeatHolders(row') = SeatHolders(row)]_vars

(* A refunded licence stops working everywhere: once it has been revoked   *)
(* for longer than the grace no install gains Pro, not by an answer that   *)
(* was on its way nor by what it stored, and one that loads its record     *)
(* loses it.  Only a process that never looks at its record again keeps it *)
(* (_loadStoredLicense() is the one place that knows the grace).           *)
RevokedStops ==
  [][\A d \in Devices:
       row.revokedFor > OfflineGrace /\ (d \notin Pro \/ Load(d))
         => d \notin Pro']_vars
=============================================================================
