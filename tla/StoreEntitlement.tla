--------------------------- MODULE StoreEntitlement ---------------------------
(***************************************************************************)
(* Whether a Microsoft Store copy carries Pro on its own, once the listing *)
(* has become free: lib/api/license_manager.dart (storeGrandfathers, init, *)
(* restoreFromStore) and its order against lib/main.dart and               *)
(* lib/nav/init.dart, which overwrites the version the rule reads.         *)
(*                                                                         *)
(* One account and the PC it uses, over the releases: paid-era builds,     *)
(* which take every Store copy for bought, then builds that know the flip. *)
(* No website key is stored (a copy unlocked by one asks nothing).  The    *)
(* process may be killed anywhere.  What Licensing names too (Init, Next,  *)
(* Spec, ...) has another name here, so that one module can extend both.   *)
(***************************************************************************)
EXTENDS Naturals

CONSTANTS
  MaxKills,   \* bound: how often the process is killed
  MaxSignOuts \* bound: how often the account signs out of the Store

ASSUME BoundAssumption == {MaxKills, MaxSignOuts} \subseteq Nat

VARIABLES
  world,    \* the instant, the listing, the newest build
  account,  \* what the Store's collection says, and whether it is signed in
  disk,     \* the PC: its build and the preferences on its disk
  app,      \* the process: where its start stands and what it decided
  lookup,   \* restoreFromStore(): the question in flight
  had,      \* history: the user was shown Pro on this PC
  bounds    \* the kills and sign-outs so far

storeVars == <<world, account, disk, app, lookup, had, bounds>>

Builds == {"old", "freemium"}     \* before and from storeFreemiumVersion on

(* past: storeFreeFromUtc has passed; free: the listing went free, with a  *)
(* build that knows the instant.                                           *)
Worlds == [past: BOOLEAN, free: BOOLEAN, newest: Builds]

(* acquired: whether acquiredAt, once there is one, is after the instant.  *)
Accounts == [owns: {"nothing", "bought", "free"}, late: BOOLEAN,
             signedIn: BOOLEAN]

Disks == [build: {"none"} \cup Builds, version: {"none"} \cup Builds,
          granted: BOOLEAN, probed: {"due", "today"}]

(* resolving: main() awaits the grant's write; root: before initRoot().    *)
StartStages == {"off", "resolving", "root", "up"}
Processes == [stage: StartStages, licensed: BOOLEAN, granted: BOOLEAN]
Lookups == {"none", "asking", "granting"}

FreshDisk(build) ==
  [build |-> build, version |-> "none", granted |-> FALSE, probed |-> "due"]
Off == [stage |-> "off", licensed |-> FALSE, granted |-> FALSE]

StoreTypeOK ==
  /\ world \in Worlds
  /\ account \in Accounts
  /\ disk \in Disks
  /\ app \in Processes
  /\ lookup \in Lookups
  /\ had \in BOOLEAN
  /\ bounds \in [kills: 0..MaxKills, signOuts: 0..MaxSignOuts]

StoreInit ==
  /\ world = [past |-> FALSE, free |-> FALSE, newest |-> "old"]
  /\ account = [owns |-> "nothing", late |-> FALSE, signedIn |-> TRUE]
  /\ disk = FreshDisk("none")
  /\ app = Off
  /\ lookup = "none"
  /\ had = FALSE
  /\ bounds = [kills |-> 0, signOuts |-> 0]

----------------------------------------------------------------------------
(* The rule                                                                *)

(* Mutants: the version that made the listing free counts as paid for.     *)
PaidEraAny(version) == version # "none"

PaidEra(version) == version = "old"

(* Mutants: the Store's answer is not looked at.                           *)
GrandfathersLocally(granted, version, acquired) ==
  granted \/ ~world.past \/ PaidEra(version)

(* storeGrandfathers(); acquired is "unknown", "before" or "after" the     *)
(* instant.  Every build of the listing knows its version (the release     *)
(* workflow stamps it), so the case of a build that does not is left out.  *)
Grandfathers(granted, version, acquired) ==
  \/ granted
  \/ ~world.past
  \/ acquired = "before"
  \/ acquired = "unknown" /\ PaidEra(version)

(* _resolveStoreEntitlement(): the flag is set in memory, the grant goes   *)
(* to the disk with the next step.                                         *)
Resolved(acquired) ==
  LET yes == Grandfathers(app.granted, disk.version, acquired)
  IN [app EXCEPT !.licensed = yes, !.granted = @ \/ yes]

----------------------------------------------------------------------------
(* The Store and its customers                                             *)

InstantPasses ==
  /\ ~world.past
  /\ world' = [world EXCEPT !.past = TRUE]
  /\ UNCHANGED <<account, disk, app, lookup, had, bounds>>

ReleaseFreemium ==
  /\ world.newest = "old"
  /\ world' = [world EXCEPT !.newest = "freemium"]
  /\ UNCHANGED <<account, disk, app, lookup, had, bounds>>

ListingGoesFree ==
  /\ world.past /\ ~world.free /\ world.newest = "freemium"
  /\ world' = [world EXCEPT !.free = TRUE]
  /\ UNCHANGED <<account, disk, app, lookup, had, bounds>>

Acquire ==
  /\ account.owns = "nothing"
  /\ account.signedIn
  /\ account' = [account EXCEPT
                   !.owns = IF world.free THEN "free" ELSE "bought",
                   !.late = world.past]
  /\ UNCHANGED <<world, disk, app, lookup, had, bounds>>

(* On a PC with nothing of the app, or on a fresh one: the newest build.   *)
Install ==
  /\ account.owns # "nothing"
  /\ account.signedIn
  /\ app.stage = "off"
  /\ disk' = FreshDisk(world.newest)
  /\ had' = FALSE
  /\ UNCHANGED <<world, account, app, lookup, bounds>>

Update ==
  /\ disk.build = "old" /\ world.newest = "freemium"
  /\ app.stage = "off"
  /\ disk' = [disk EXCEPT !.build = "freemium"]
  /\ UNCHANGED <<world, account, app, lookup, had, bounds>>

SignOut ==
  /\ account.signedIn
  /\ bounds.signOuts < MaxSignOuts
  /\ account' = [account EXCEPT !.signedIn = FALSE]
  /\ bounds' = [bounds EXCEPT !.signOuts = @ + 1]
  /\ UNCHANGED <<world, disk, app, lookup, had>>

SignIn ==
  /\ ~account.signedIn
  /\ account' = [account EXCEPT !.signedIn = TRUE]
  /\ UNCHANGED <<world, disk, app, lookup, had, bounds>>

NextDay ==
  /\ disk.probed = "today"
  /\ disk' = [disk EXCEPT !.probed = "due"]
  /\ UNCHANGED <<world, account, app, lookup, had, bounds>>

----------------------------------------------------------------------------
(* The application                                                         *)

(* A paid-era build takes the Store's package for the licence, and notes   *)
(* its version when it starts.                                             *)
StartOld ==
  /\ app.stage = "off" /\ disk.build = "old"
  /\ app' = [app EXCEPT !.stage = "up", !.licensed = TRUE]
  /\ disk' = [disk EXCEPT !.version = "old"]
  /\ had' = TRUE
  /\ UNCHANGED <<world, account, lookup, bounds>>

(* Mutants: the version is noted before the licence is looked at.          *)
StartNewEarly ==
  /\ app.stage = "off" /\ disk.build = "freemium"
  /\ disk' = [disk EXCEPT !.version = disk.build]
  /\ app' = [stage |-> "resolving", granted |-> disk.granted \/
               Grandfathers(disk.granted, disk.version', "unknown"),
             licensed |-> Grandfathers(disk.granted, disk.version', "unknown")]
  /\ UNCHANGED <<world, account, lookup, had, bounds>>

(* main(): LicenseManager().init() resolves before anything else reads it. *)
StartNew ==
  /\ app.stage = "off" /\ disk.build = "freemium"
  /\ app' = [stage |-> "resolving", granted |-> disk.granted \/
               Grandfathers(disk.granted, disk.version, "unknown"),
             licensed |-> Grandfathers(disk.granted, disk.version, "unknown")]
  /\ UNCHANGED <<world, account, disk, lookup, had, bounds>>

(* _storeQuestionOpen *)
QuestionOpen == world.past /\ ~app.licensed

(* The awaited setBool() has returned; init() asks the Store in the        *)
(* background and main() goes on.  A question is put on record first.      *)
InitReturns ==
  /\ app.stage = "resolving"
  /\ LET asks == QuestionOpen /\ lookup = "none" /\ disk.probed = "due"
     IN /\ disk' = [disk EXCEPT !.granted = @ \/ app.granted,
                                !.probed = IF asks THEN "today" ELSE @]
        /\ lookup' = IF asks THEN "asking" ELSE lookup
  /\ app' = [app EXCEPT !.stage = "root"]
  /\ UNCHANGED <<world, account, had, bounds>>

(* What the screens show is Pro or not.  A flag whose grant is still being *)
(* written does not count as shown: its listeners are told afterwards.     *)
Shown(licensed) == had \/ (licensed /\ lookup # "granting")

(* initRoot() notes the version.  Mutants: of a build that was not stamped.*)
InitRootUnstamped ==
  /\ app.stage = "root"
  /\ disk' = [disk EXCEPT !.version = "1.0.0"]
  /\ app' = [app EXCEPT !.stage = "up"]
  /\ had' = Shown(app.licensed)
  /\ UNCHANGED <<world, account, lookup, bounds>>

InitRoot ==
  /\ app.stage = "root"
  /\ disk' = [disk EXCEPT !.version = disk.build]
  /\ app' = [app EXCEPT !.stage = "up"]
  /\ had' = Shown(app.licensed)
  /\ UNCHANGED <<world, account, lookup, bounds>>

(* The licence page: init() again, by now with its own version noted, and  *)
(* "Check again", which asks whenever the question is open.                *)
CheckAgain ==
  /\ app.stage = "up" /\ disk.build = "freemium"
  /\ LET now == Resolved("unknown")
         asks == world.past /\ ~now.licensed /\ lookup = "none"
     IN /\ app' = now
        /\ disk' = [disk EXCEPT !.granted = @ \/ (now.granted /\ ~app.granted),
                                !.probed = IF asks THEN "today" ELSE @]
        /\ lookup' = IF asks THEN "asking" ELSE lookup
        /\ had' = Shown(now.licensed)
  /\ UNCHANGED <<world, account, bounds>>

(* _askStore(): signed out, the Store says nothing and nothing changes.    *)
StoreAnswers ==
  /\ lookup = "asking"
  /\ IF account.signedIn
     THEN LET now == Resolved(IF account.late THEN "after" ELSE "before")
          IN /\ app' = now
             /\ lookup' = IF now.licensed THEN "granting" ELSE "none"
     ELSE lookup' = "none" /\ UNCHANGED app
  /\ UNCHANGED <<world, account, disk, had, bounds>>

(* No runner, no network, no answer within 20 s. *)
StoreSilent ==
  /\ lookup = "asking"
  /\ lookup' = "none"
  /\ UNCHANGED <<world, account, disk, app, had, bounds>>

(* The grant is on the disk; the listeners are told.                       *)
GrantWritten ==
  /\ lookup = "granting"
  /\ lookup' = "none"
  /\ disk' = [disk EXCEPT !.granted = TRUE]
  /\ had' = TRUE
  /\ UNCHANGED <<world, account, app, bounds>>

(* The process ends: on the user's word from a finished start, or killed.  *)
QuitApp ==
  /\ app.stage = "up" /\ lookup = "none"
  /\ app' = Off
  /\ UNCHANGED <<world, account, disk, lookup, had, bounds>>

Kill ==
  /\ app.stage # "off"
  /\ bounds.kills < MaxKills
  /\ bounds' = [bounds EXCEPT !.kills = @ + 1]
  /\ app' = Off
  /\ lookup' = "none"
  /\ UNCHANGED <<world, account, disk, had>>

StoreNext ==
  \/ InstantPasses \/ ReleaseFreemium \/ ListingGoesFree
  \/ Acquire \/ Install \/ Update \/ SignOut \/ SignIn \/ NextDay
  \/ StartOld \/ StartNew \/ InitReturns \/ InitRoot \/ CheckAgain
  \/ StoreAnswers \/ StoreSilent \/ GrantWritten \/ QuitApp \/ Kill

StoreSpec == StoreInit /\ [][StoreNext]_storeVars

(* What is begun goes on, days pass, an install in use is started again    *)
(* and a Store that is asked time and again answers; nothing is assumed of *)
(* the releases or of the customers.                                       *)
Fairness ==
  /\ WF_storeVars(StartOld) /\ WF_storeVars(StartNew)
  /\ WF_storeVars(InitReturns) /\ WF_storeVars(InitRoot)
  /\ SF_storeVars(StoreAnswers) /\ WF_storeVars(GrantWritten)
  /\ SF_storeVars(QuitApp) /\ WF_storeVars(NextDay)

LiveSpec == StoreSpec /\ Fairness

----------------------------------------------------------------------------
(* Properties                                                              *)

Settled == app.stage \in {"root", "up"}

(* Pro for good: a PC whose user was shown Pro has it in every later start *)
(* as soon as init() has returned, whatever has passed or been overwritten *)
(* since and wherever the process was killed.                              *)
KeptForGood == had /\ Settled => app.licensed

(* A free download never gets Pro from the Store's side, on no start and   *)
(* from no answer.                                                         *)
FreeStaysFree == account.owns = "free" => ~app.licensed /\ ~disk.granted

(* A buyer on a fresh PC gets Pro back: bought before the instant,         *)
(* installed and signed in, sooner or later Pro is on (or signed out, or   *)
(* installed anew).                                                        *)
BuyerRestored ==
  account.owns = "bought" /\ ~account.late /\ disk.build = "freemium"
    /\ account.signedIn
  ~> disk.granted \/ ~account.signedIn
=============================================================================
