-------------------------- MODULE McpEndpoint_proofs --------------------------
(***************************************************************************)
(* What holds of McpEndpoint for any number of calls, managers, shells and *)
(* tunnels.                                                                *)
(***************************************************************************)
EXTENDS McpEndpoint, TLAPS

----------------------------------------------------------------------------
(* The inductive invariants                                                *)

Stopping == \E c \in Calls: call[c].at \in {"closing", "shells"}
Closing == \E c \in Calls: call[c].at = "closing"

(* While it is off, a manager is one that a stop has still to forget; so   *)
(* are the tools, but for those a request built.                           *)
ManagerInv == manager # None => enabled \/ Stopping
ToolsInv == mcp # None => enabled \/ revived \/ Closing

(* While it is off, a tunnel that is entered, or is being started, without *)
(* being counted as stray is one that a stop has still to end.             *)
TunnelInv ==
  /\ up \subseteq stray \cup {tunnel}
  /\ tunnel \in stray \cup {None} \/ enabled \/ Stopping
  /\ \A p \in Pulls: pull[p].at = "locating" => p \in latePulls \/ enabled \/ Stopping

(* Since the switch was thrown off at rest: it is off and a stop is out,   *)
(* or was; or it was then thrown on at rest and the start is out, or was.  *)
FreshInv ==
  fresh =>
    /\ enabled => /\ manager # None /\ mcp = manager
                  /\ \A c \in Calls: call[c].at \in {"idle", "binding"}
    /\ ~enabled => /\ \A c \in Calls: call[c].at # "binding"
                   /\ server = "none" \/ Closing

(* What is out while the switch was never thrown early: one call, and what *)
(* it still has to do.                                                     *)
AloneInv ==
  \A c, d \in Calls: c # d => call[c].at = "idle" \/ call[d].at = "idle"
BindingInv ==
  \A c \in Calls: call[c].at = "binding" => enabled /\ server = "none" /\ ~listening
StoppingInv == Stopping => ~enabled /\ ~listening
ShellsInv ==
  \A c \in Calls: call[c].at = "shells" =>
    /\ server = "none" /\ mcp = None
    /\ \A s \in Shells: shell[s].at = "none" \/ s \in lateShells \/ s \in call[c].of
ServerInv ==
  /\ listening => server = "live"
  /\ ~enabled => ~listening /\ (server = "none" \/ Closing)
OwnedInv ==
  /\ mcp \in {manager, None}
  /\ \A s \in Shells:
       shell[s].at # "none" /\ s \notin lateShells =>
         /\ shell[s].of = manager /\ manager # None
         /\ shell[s].at = "closing" => \E c \in Calls: call[c].at = "shells"
CleanInv ==
  ~tangled => /\ AloneInv /\ BindingInv /\ StoppingInv /\ ShellsInv
              /\ ServerInv /\ OwnedInv

----------------------------------------------------------------------------
(* Types                                                                   *)

CallRecords == [at: {"idle", "binding", "closing", "shells"}, of: SUBSET Shells]
ShellRecords == [at: {"none", "spawning", "open", "closing"}, of: Managers \cup {None}]
PullRecords == [at: {"idle", "locating", "waiting"}, proc: Procs \cup {None}]

LEMMA IdleTypes == Idle \in CallRecords /\ NoShell \in ShellRecords /\ NoPull \in PullRecords
BY DEF Idle, NoShell, NoPull, CallRecords, ShellRecords, PullRecords

LEMMA StopTunnelType ==
  ASSUME TypeOK, StopTunnel
  PROVE  /\ tunnel' \in Procs \cup {None} /\ up' \in SUBSET Procs
         /\ latePulls' \in SUBSET Pulls
BY DEF TypeOK, StopTunnel, Locating

LEMMA AfterServerType ==
  ASSUME TypeOK, NEW c \in Calls, AfterServer(c)
  PROVE  /\ server' \in {"none", "live", "closed"}
         /\ manager' \in Managers \cup {None} /\ mcp' \in Managers \cup {None}
         /\ call' \in [Calls -> CallRecords] /\ shell' \in [Shells -> ShellRecords]
         /\ tunnel' \in Procs \cup {None} /\ up' \in SUBSET Procs
         /\ pull' = pull /\ busy' = busy /\ revived' \in BOOLEAN
         /\ lateShells' \in SUBSET Shells /\ latePulls' \in SUBSET Pulls
<1>1. Sessions \in SUBSET Shells
  BY DEF Sessions
<1>2. CASE Sessions = {}
  <2>1. AfterShells(c)
    BY <1>2 DEF AfterServer
  <2>. QED
    BY <2>1, StopTunnelType, IdleTypes
       DEF TypeOK, AfterServer, AfterShells, ForgetTools, CallRecords, ShellRecords
<1>3. CASE Sessions # {}
  <2>1. call' \in [Calls -> CallRecords]
    <3>1. [at |-> "shells", of |-> Sessions] \in CallRecords
      BY <1>1 DEF CallRecords
    <3>. QED
      BY <1>3, <3>1 DEF TypeOK, AfterServer, CallRecords
  <2>2. shell' \in [Shells -> ShellRecords]
    BY DEF TypeOK, AfterServer, ShellRecords
  <2>. QED
    BY <1>3, <2>1, <2>2 DEF TypeOK, AfterServer, ForgetTools, tunnels
<1>. QED
  BY <1>2, <1>3

THEOREM TypeCorrect == Spec => []TypeOK
<1>1. Init => TypeOK
  BY IdleTypes DEF Init, TypeOK, CallRecords, ShellRecords, PullRecords
<1>2. TypeOK /\ [Next]_vars => TypeOK'
  <2>. SUFFICES ASSUME TypeOK, [Next]_vars PROVE TypeOK'
    OBVIOUS
  <2>. USE DEF TypeOK, endpoint, tunnels, history, late
  <2>1. CASE SwitchOnRunning
    BY <2>1 DEF SwitchOnRunning, Throw, AtRest
  <2>2. CASE TunnelOff
    <3>1. StopTunnel
      BY <2>2 DEF TunnelOff
    <3>. QED
      BY <2>2, <3>1, StopTunnelType DEF TunnelOff
  <2>3. CASE LeavePage
    BY <2>3 DEF LeavePage
  <2>4. CASE FlipFeature
    BY <2>4 DEF FlipFeature
  <2>5. CASE Request
    <3>1. CurrentMcp \in Managers
      BY <2>5 DEF Request, CurrentMcp, Serves
    <3>2. /\ shell' \in [Shells -> [at: {"none", "spawning", "open", "closing"},
                                  of: Managers \cup {None}]]
          /\ lateShells' \in SUBSET Shells
      BY <2>5, <3>1 DEF Request
    <3>. QED
      BY <2>5, <3>1, <3>2 DEF Request
  <2>6. CASE RequestThrows
    BY <2>6 DEF RequestThrows
  <2>7. ASSUME NEW c \in Calls, SwitchOn(c) PROVE TypeOK'
    BY <2>7 DEF SwitchOn, Throw, AtRest, BuildTools
  <2>8. ASSUME NEW c \in Calls, Bound(c) PROVE TypeOK'
    BY <2>8 DEF Bound, Idle
  <2>9. ASSUME NEW c \in Calls, BindFails(c) PROVE TypeOK'
    BY <2>9 DEF BindFails, Idle
  <2>10. ASSUME NEW c \in Calls, SwitchOff(c) PROVE TypeOK'
    <3>1. CASE server = "none"
      <4>1. AfterServer(c)
        BY <2>10, <3>1 DEF SwitchOff
      <4>2. /\ enabled' \in BOOLEAN /\ listening' = listening /\ moved' = moved /\ stray' = stray
            /\ tangled' \in BOOLEAN /\ fresh' \in BOOLEAN
        BY <2>10, <3>1 DEF SwitchOff, Throw, AtRest
      <4>. QED
        BY <4>1, <4>2, AfterServerType DEF CallRecords, ShellRecords
    <3>2. CASE server # "none"
      <4>1. listening' \in BOOLEAN /\ tangled' \in BOOLEAN /\ fresh' \in BOOLEAN
        BY <2>10, <3>2 DEF SwitchOff, Throw, AtRest
      <4>2. UNCHANGED <<moved, manager, mcp, shell, tunnels, revived, late, stray>>
        BY <2>10, <3>2 DEF SwitchOff, Throw
      <4>3. enabled' = FALSE /\ server' = "closed" /\ call' = [call EXCEPT ![c].at = "closing"]
        BY <2>10, <3>2 DEF SwitchOff, Throw
      <4>. QED
        BY <4>1, <4>2, <4>3
    <3>. QED
      BY <3>1, <3>2
  <2>11. ASSUME NEW c \in Calls, Closed(c) PROVE TypeOK'
    <3>1. AfterServer(c)
      BY <2>11 DEF Closed
    <3>. QED
      BY <2>11, <3>1, AfterServerType DEF Closed, CallRecords, ShellRecords
  <2>12. ASSUME NEW c \in Calls, ShellsClosed(c) PROVE TypeOK'
    <3>1. StopTunnel
      BY <2>12 DEF ShellsClosed, AfterShells
    <3>. QED
      BY <2>12, <3>1, StopTunnelType DEF ShellsClosed, AfterShells, Idle, NoShell
  <2>13. ASSUME NEW s \in Shells, ShellStarts(s) \/ ShellEnds(s) PROVE TypeOK'
    BY <2>13 DEF ShellStarts, ShellEnds, NoShell
  <2>14. ASSUME NEW p \in Pulls, TunnelOn(p) PROVE TypeOK'
    BY <2>14 DEF TunnelOn, NoPull
  <2>15. ASSUME NEW p \in Pulls, Spawned(p) PROVE TypeOK'
    BY <2>15 DEF Spawned
  <2>16. ASSUME NEW p \in Pulls, SpawnFails(p) PROVE TypeOK'
    BY <2>16 DEF SpawnFails, PullEnds, NoPull
  <2>17. ASSUME NEW p \in Pulls, UrlSeen(p) PROVE TypeOK'
    BY <2>17 DEF UrlSeen, PullEnds, NoPull
  <2>18. ASSUME NEW p \in Pulls, UrlTimeout(p) PROVE TypeOK'
    <3>1. StopTunnel
      BY <2>18 DEF UrlTimeout
    <3>. QED
      BY <2>18, <3>1, StopTunnelType DEF UrlTimeout, PullEnds, NoPull
  <2>19. CASE UNCHANGED vars
    BY <2>19 DEF vars
  <2>. HIDE DEF TypeOK
  <2>. QED
    BY <2>1, <2>2, <2>3, <2>4, <2>5, <2>6, <2>7, <2>8, <2>9, <2>10, <2>11, <2>12,
       <2>13, <2>14, <2>15, <2>16, <2>17, <2>18, <2>19 DEF Next
<1>. QED
  BY <1>1, <1>2, PTL DEF Spec

----------------------------------------------------------------------------
(* What stop() does after the server is closed                             *)

LEMMA AfterServerEffect ==
  ASSUME TypeOK, NEW c \in Calls, AfterServer(c)
  PROVE  /\ server' = "none" /\ mcp' = None /\ revived' = FALSE
         /\ pull' = pull
         /\ \A d \in Calls: d # c => call'[d] = call[d]
         /\ \A s \in Shells:
              /\ shell'[s].of = shell[s].of
              /\ s \in Sessions => shell'[s].at = "closing"
              /\ s \notin Sessions => shell'[s].at = shell[s].at
         /\ lateShells' = lateShells \cup
              {s \in Shells: shell[s].at = "spawning" /\ shell[s].of = manager}
         /\ \/ /\ Sessions = {} /\ manager' = None
              /\ call'[c].at = "idle" /\ StopTunnel
           \/ /\ Sessions # {} /\ manager' = manager
              /\ call'[c].at = "shells" /\ call'[c].of = Sessions
              /\ UNCHANGED <<tunnel, up, latePulls>>
<1>1. CASE Sessions = {}
  BY <1>1 DEF TypeOK, AfterServer, AfterShells, ForgetTools, Idle, Sessions
<1>2. CASE Sessions # {}
  BY <1>2 DEF TypeOK, AfterServer, ForgetTools, tunnels, Sessions
<1>. QED
  BY <1>1, <1>2

(* Throwing the switch off: the rest of stop() at once, or the server first. *)
LEMMA SwitchOffEffect ==
  ASSUME TypeOK, NEW c \in Calls, SwitchOff(c)
  PROVE  /\ enabled /\ call[c].at = "idle" /\ ~enabled' /\ stray' = stray
         /\ (~tangled' => ~tangled /\ AtRest) /\ (fresh' => AtRest)
         /\ \/ server = "none" /\ listening' = listening /\ AfterServer(c)
           \/ /\ server # "none" /\ server' = "closed"
              /\ listening' = (listening /\ server # "live")
              /\ call'[c].at = "closing" /\ call'[c].of = call[c].of
              /\ \A d \in Calls: d # c => call'[d] = call[d]
              /\ UNCHANGED <<manager, mcp, shell, tunnels, revived, late>>
<1>1. CASE server = "none"
  BY <1>1 DEF SwitchOff, Throw
<1>2. CASE server # "none"
  <2>1. /\ call' = [call EXCEPT ![c].at = "closing"] /\ server' = "closed"
        /\ UNCHANGED <<manager, mcp, shell, tunnels, revived, late>>
        /\ listening' = (listening /\ server # "live")
    BY <1>2 DEF SwitchOff
  <2>2. /\ enabled /\ call[c].at = "idle" /\ ~enabled' /\ stray' = stray
        /\ (~tangled' => ~tangled /\ AtRest) /\ (fresh' => AtRest)
    BY DEF SwitchOff, Throw
  <2>3. /\ call'[c].at = "closing" /\ call'[c].of = call[c].of
        /\ \A d \in Calls: d # c => call'[d] = call[d]
    BY <2>1 DEF TypeOK
  <2>. QED
    BY <1>2, <2>1, <2>2, <2>3
<1>. QED
  BY <1>1, <1>2

----------------------------------------------------------------------------
(* What each step keeps                                                    *)

TunnelAction ==
  \/ TunnelOff \/ LeavePage
  \/ \E p \in Pulls: TunnelOn(p) \/ Spawned(p) \/ SpawnFails(p) \/ UrlSeen(p) \/ UrlTimeout(p)

LEMMA TunnelActionKeeps ==
  ASSUME TunnelAction
  PROVE  UNCHANGED <<enabled, endpoint, call, shell, tangled, revived, fresh, lateShells>>
BY DEF TunnelAction, TunnelOff, LeavePage, TunnelOn, Spawned, SpawnFails, UrlSeen, UrlTimeout,
       history, late

LEMMA ManagerStep ==
  ASSUME TypeOK, ManagerInv, [Next]_vars
  PROVE  ManagerInv'
<1>1. CASE SwitchOnRunning
  BY <1>1 DEF SwitchOnRunning, Throw, ManagerInv
<1>2. CASE FlipFeature
  BY <1>2 DEF FlipFeature, ManagerInv, Stopping
<1>3. CASE Request
  BY <1>3 DEF Request, ManagerInv, Stopping
<1>4. CASE RequestThrows
  BY <1>4 DEF RequestThrows, ManagerInv
<1>5. ASSUME NEW c \in Calls, SwitchOn(c) PROVE ManagerInv'
  BY <1>5 DEF SwitchOn, Throw, ManagerInv
<1>6. ASSUME NEW c \in Calls, Bound(c) PROVE ManagerInv'
  BY <1>6 DEF Bound, ManagerInv, Stopping
<1>7. ASSUME NEW c \in Calls, BindFails(c) PROVE ManagerInv'
  BY <1>7 DEF BindFails, ManagerInv, Stopping
<1>8. ASSUME NEW c \in Calls, SwitchOff(c) PROVE ManagerInv'
  <2>1. CASE AfterServer(c)
    BY <1>8, <2>1, SwitchOffEffect, AfterServerEffect DEF ManagerInv, Stopping
  <2>. QED
    BY <1>8, <2>1, SwitchOffEffect DEF ManagerInv, Stopping
<1>9. ASSUME NEW c \in Calls, Closed(c) PROVE ManagerInv'
  BY <1>9, AfterServerEffect DEF Closed, ManagerInv, Stopping
<1>10. ASSUME NEW c \in Calls, ShellsClosed(c) PROVE ManagerInv'
  BY <1>10 DEF ShellsClosed, AfterShells, ManagerInv
<1>11. ASSUME NEW s \in Shells, ShellStarts(s) PROVE ManagerInv'
  BY <1>11 DEF ShellStarts, ManagerInv, Stopping, endpoint
<1>12. ASSUME NEW s \in Shells, ShellEnds(s) PROVE ManagerInv'
  BY <1>12 DEF ShellEnds, ManagerInv, Stopping, endpoint
<1>13. CASE TunnelAction
  BY <1>13, TunnelActionKeeps DEF ManagerInv, Stopping, endpoint
<1>14. CASE UNCHANGED vars
  BY <1>14 DEF vars, ManagerInv, Stopping, endpoint
<1>. QED
  BY <1>1, <1>2, <1>3, <1>4, <1>5, <1>6, <1>7, <1>8, <1>9, <1>10, <1>11, <1>12,
     <1>13, <1>14
     DEF Next, TunnelAction

LEMMA ToolsStep ==
  ASSUME TypeOK, ToolsInv, [Next]_vars
  PROVE  ToolsInv'
<1>1. CASE SwitchOnRunning
  BY <1>1 DEF SwitchOnRunning, Throw, ToolsInv
<1>2. CASE FlipFeature
  BY <1>2 DEF FlipFeature, ToolsInv, Closing, history
<1>3. CASE Request
  BY <1>3 DEF Request, ToolsInv, Closing
<1>4. CASE RequestThrows
  BY <1>4 DEF RequestThrows, ToolsInv, Closing, history
<1>5. ASSUME NEW c \in Calls, SwitchOn(c) PROVE ToolsInv'
  BY <1>5 DEF SwitchOn, Throw, ToolsInv
<1>6. ASSUME NEW c \in Calls, Bound(c) PROVE ToolsInv'
  BY <1>6 DEF Bound, ToolsInv, Closing, history
<1>7. ASSUME NEW c \in Calls, BindFails(c) PROVE ToolsInv'
  BY <1>7 DEF BindFails, ToolsInv, Closing, history
<1>8. ASSUME NEW c \in Calls, SwitchOff(c) PROVE ToolsInv'
  <2>1. CASE AfterServer(c)
    BY <1>8, <2>1, SwitchOffEffect, AfterServerEffect DEF ToolsInv
  <2>. QED
    BY <1>8, <2>1, SwitchOffEffect DEF ToolsInv, Closing
<1>9. ASSUME NEW c \in Calls, Closed(c) PROVE ToolsInv'
  BY <1>9, AfterServerEffect DEF Closed, ToolsInv
<1>10. ASSUME NEW c \in Calls, ShellsClosed(c) PROVE ToolsInv'
  BY <1>10 DEF ShellsClosed, AfterShells, ToolsInv, Closing
<1>11. ASSUME NEW s \in Shells, ShellStarts(s) PROVE ToolsInv'
  BY <1>11 DEF ShellStarts, ToolsInv, Closing, endpoint, history
<1>12. ASSUME NEW s \in Shells, ShellEnds(s) PROVE ToolsInv'
  BY <1>12 DEF ShellEnds, ToolsInv, Closing, endpoint, history
<1>13. CASE TunnelAction
  BY <1>13, TunnelActionKeeps DEF ToolsInv, Closing, endpoint
<1>14. CASE UNCHANGED vars
  BY <1>14 DEF vars, ToolsInv, Closing, endpoint, history
<1>. QED
  BY <1>1, <1>2, <1>3, <1>4, <1>5, <1>6, <1>7, <1>8, <1>9, <1>10, <1>11, <1>12,
     <1>13, <1>14
     DEF Next, TunnelAction

LEMMA TunnelStep ==
  ASSUME TypeOK, TunnelInv, [Next]_vars
  PROVE  TunnelInv'
<1>1. CASE SwitchOnRunning
  BY <1>1 DEF SwitchOnRunning, Throw, TunnelInv, tunnels
<1>2. CASE TunnelOff
  BY <1>2 DEF TunnelOff, StopTunnel, TunnelInv
<1>3. CASE LeavePage
  BY <1>3 DEF LeavePage, TunnelInv, Stopping, history, late
<1>4. CASE FlipFeature
  BY <1>4 DEF FlipFeature, TunnelInv, Stopping, tunnels, history, late
<1>5. CASE Request
  BY <1>5 DEF Request, TunnelInv, Stopping, tunnels
<1>6. CASE RequestThrows
  BY <1>6 DEF RequestThrows, TunnelInv, Stopping, tunnels, history, late
<1>7. ASSUME NEW c \in Calls, SwitchOn(c) PROVE TunnelInv'
  BY <1>7 DEF SwitchOn, Throw, TunnelInv, tunnels
<1>8. ASSUME NEW c \in Calls, Bound(c) PROVE TunnelInv'
  BY <1>8 DEF Bound, TunnelInv, Stopping, tunnels, history, late
<1>9. ASSUME NEW c \in Calls, BindFails(c) PROVE TunnelInv'
  BY <1>9 DEF BindFails, TunnelInv, Stopping, tunnels, history, late
<1>10. ASSUME NEW c \in Calls, SwitchOff(c) PROVE TunnelInv'
  <2>1. CASE AfterServer(c) /\ Sessions = {}
    <3>1. StopTunnel /\ pull' = pull /\ stray' = stray
      BY <1>10, <2>1, SwitchOffEffect, AfterServerEffect
    <3>. QED
      BY <3>1 DEF StopTunnel, Locating, TunnelInv
  <2>2. CASE AfterServer(c) /\ Sessions # {}
    <3>1. /\ Stopping' /\ pull' = pull /\ stray' = stray
          /\ UNCHANGED <<tunnel, up, latePulls>>
      BY <1>10, <2>2, SwitchOffEffect, AfterServerEffect DEF Stopping
    <3>. QED
      BY <3>1 DEF TunnelInv
  <2>3. CASE ~AfterServer(c)
    BY <1>10, <2>3, SwitchOffEffect DEF TunnelInv, Stopping, tunnels
  <2>. QED
    BY <2>1, <2>2, <2>3
<1>11. ASSUME NEW c \in Calls, Closed(c) PROVE TunnelInv'
  BY <1>11, AfterServerEffect
     DEF StopTunnel, Locating, Closed, TunnelInv, TypeOK, Stopping, Closing, endpoint,
         tunnels, history, late
<1>12. ASSUME NEW c \in Calls, ShellsClosed(c) PROVE TunnelInv'
  BY <1>12 DEF ShellsClosed, AfterShells, StopTunnel, Locating, TunnelInv
<1>13. ASSUME NEW s \in Shells, ShellStarts(s) PROVE TunnelInv'
  BY <1>13 DEF ShellStarts, TunnelInv, Stopping, tunnels, history, late
<1>14. ASSUME NEW s \in Shells, ShellEnds(s) PROVE TunnelInv'
  BY <1>14 DEF ShellEnds, TunnelInv, Stopping, tunnels, history, late
<1>15. ASSUME NEW p \in Pulls, TunnelOn(p) PROVE TunnelInv'
  BY <1>15 DEF TunnelOn, TunnelInv
<1>16. ASSUME NEW p \in Pulls, Spawned(p) PROVE TunnelInv'
  BY <1>16 DEF Spawned, TypeOK
<1>17. ASSUME NEW p \in Pulls, SpawnFails(p) PROVE TunnelInv'
  BY <1>17 DEF SpawnFails, TunnelInv, Stopping, history, late
<1>18. ASSUME NEW p \in Pulls, UrlSeen(p) PROVE TunnelInv'
  BY <1>18 DEF UrlSeen, NoPull, TunnelInv, Stopping, history, late
<1>19. ASSUME NEW p \in Pulls, UrlTimeout(p) PROVE TunnelInv'
  BY <1>19 DEF UrlTimeout, StopTunnel, Locating, NoPull, TunnelInv
<1>20. CASE UNCHANGED vars
  BY <1>20 DEF vars, TunnelInv, Stopping, tunnels, history, late
<1>. QED
  BY <1>1, <1>2, <1>3, <1>4, <1>5, <1>6, <1>7, <1>8, <1>9, <1>10, <1>11, <1>12,
     <1>13, <1>14, <1>15, <1>16, <1>17, <1>18, <1>19, <1>20
     DEF Next, TunnelAction

LEMMA FreshStep ==
  ASSUME TypeOK, FreshInv, [Next]_vars
  PROVE  FreshInv'
<1>1. CASE SwitchOnRunning
  BY <1>1 DEF SwitchOnRunning, Throw, FreshInv, AtRest, IsRunning, Closing
<1>2. CASE FlipFeature
  BY <1>2 DEF FlipFeature, FreshInv, Closing, history
<1>3. CASE Request
  BY <1>3 DEF Request, CurrentMcp, FreshInv, Closing
<1>4. CASE RequestThrows
  BY <1>4 DEF RequestThrows, FreshInv, Closing, history
<1>5. ASSUME NEW c \in Calls, SwitchOn(c) PROVE FreshInv'
  BY <1>5, EndpointAssumption DEF SwitchOn, Throw, BuildTools, FreshInv, AtRest, TypeOK
<1>6. ASSUME NEW c \in Calls, Bound(c) PROVE FreshInv'
  BY <1>6 DEF Bound, Idle, FreshInv, history
<1>7. ASSUME NEW c \in Calls, BindFails(c) PROVE FreshInv'
  BY <1>7 DEF BindFails, Idle, FreshInv, history
<1>8. ASSUME NEW c \in Calls, SwitchOff(c) PROVE FreshInv'
  <2>1. CASE AfterServer(c)
    BY <1>8, <2>1, SwitchOffEffect, AfterServerEffect DEF FreshInv, AtRest
  <2>. QED
    BY <1>8, <2>1, SwitchOffEffect DEF FreshInv, AtRest, Closing
<1>9. ASSUME NEW c \in Calls, Closed(c) PROVE FreshInv'
  BY <1>9, AfterServerEffect DEF Closed, FreshInv, endpoint, tunnels, history, late
<1>10. ASSUME NEW c \in Calls, ShellsClosed(c) PROVE FreshInv'
  BY <1>10 DEF ShellsClosed, AfterShells, Idle, FreshInv, Closing
<1>11. ASSUME NEW s \in Shells, ShellStarts(s) PROVE FreshInv'
  BY <1>11 DEF ShellStarts, FreshInv, Closing, endpoint, history
<1>12. ASSUME NEW s \in Shells, ShellEnds(s) PROVE FreshInv'
  BY <1>12 DEF ShellEnds, FreshInv, Closing, endpoint, history
<1>13. CASE TunnelAction
  BY <1>13, TunnelActionKeeps DEF FreshInv, Closing, endpoint
<1>14. CASE UNCHANGED vars
  BY <1>14 DEF vars, FreshInv, Closing, endpoint, history
<1>. QED
  BY <1>1, <1>2, <1>3, <1>4, <1>5, <1>6, <1>7, <1>8, <1>9, <1>10, <1>11, <1>12,
     <1>13, <1>14
     DEF Next, TunnelAction

(* stop() when no other call is out. *)
LEMMA AfterServerClean ==
  ASSUME TypeOK, OwnedInv, NEW c \in Calls, AfterServer(c),
         \A d \in Calls: d # c => call[d].at = "idle",
         call[c].at \in {"idle", "closing"}
  PROVE  /\ \A d \in Calls: d # c => call'[d].at = "idle"
         /\ call'[c].at \in {"idle", "shells"}
         /\ ShellsInv' /\ OwnedInv'
<1>1. /\ \A d \in Calls: d # c => call'[d].at = "idle"
      /\ call'[c].at \in {"idle", "shells"}
  BY AfterServerEffect
<1>2. \A s \in Shells: shell[s].at # "closing" \/ s \in lateShells
  BY DEF OwnedInv
<1>3. \A s \in Shells \ Sessions: shell'[s].at = "none" \/ s \in lateShells'
  <2>. SUFFICES ASSUME NEW s \in Shells \ Sessions, shell[s].at # "none", s \notin lateShells
                PROVE  s \in lateShells'
    BY AfterServerEffect
  <2>1. shell[s].of = manager /\ shell[s].at \in {"spawning", "open"}
    BY <1>2 DEF OwnedInv, TypeOK
  <2>2. shell[s].at = "spawning"
    BY <2>1 DEF Sessions
  <2>. QED
    BY <2>1, <2>2, AfterServerEffect
<1>4. ShellsInv'
  BY <1>1, <1>3, AfterServerEffect DEF ShellsInv
<1>5. ASSUME NEW s \in Sessions, s \notin lateShells'
      PROVE  shell'[s].of = manager' /\ manager' # None /\ call'[c].at = "shells"
  BY <1>5, AfterServerEffect DEF OwnedInv, Sessions
<1>6. OwnedInv'
  BY <1>3, <1>5, AfterServerEffect DEF OwnedInv, Sessions
<1>. QED
  BY <1>1, <1>4, <1>6

LEMMA CleanStep ==
  ASSUME TypeOK, CleanInv, ManagerInv, [Next]_vars
  PROVE  CleanInv'
<1>1. CASE SwitchOnRunning
  BY <1>1 DEF AtRest, IsRunning, SwitchOnRunning, Throw, CleanInv, ServerInv, Closing
<1>2. CASE FlipFeature
  BY <1>2
     DEF FlipFeature, CleanInv, AloneInv, BindingInv, StoppingInv, ShellsInv, ServerInv,
         OwnedInv, Stopping, Closing, history, late
<1>3. CASE Request
  BY <1>3
     DEF Request, CurrentMcp, Serves, CleanInv, AloneInv, BindingInv, StoppingInv,
         ShellsInv, ServerInv, OwnedInv, TypeOK, Stopping, tunnels
<1>4. CASE RequestThrows
  BY <1>4
     DEF RequestThrows, CleanInv, AloneInv, BindingInv, StoppingInv, ShellsInv, ServerInv,
         OwnedInv, Stopping, history, late
<1>5. ASSUME NEW c \in Calls, SwitchOn(c) PROVE CleanInv'
  <2>. SUFFICES ASSUME ~tangled' PROVE CleanInv'
    BY DEF CleanInv
  <2>1. /\ ~tangled /\ AtRest /\ ~enabled /\ server = "none" /\ enabled'
        /\ server' = server /\ listening' = listening /\ shell' = shell
        /\ lateShells' = lateShells
    BY <1>5 DEF SwitchOn, Throw, IsRunning, late
  <2>2. PICK m \in Managers: manager' = m /\ mcp' = m
    BY <1>5 DEF SwitchOn, BuildTools
  <2>3. call'[c].at = "binding" /\ \A d \in Calls: d # c => call'[d].at = "idle"
    BY <1>5, <2>1 DEF SwitchOn, AtRest, TypeOK
  <2>4. manager = None /\ ~listening
    BY <2>1 DEF ManagerInv, Stopping, AtRest, CleanInv, ServerInv
  <2>5. \A s \in Shells: shell[s].at = "none" \/ s \in lateShells
    BY <2>1, <2>4 DEF CleanInv, OwnedInv
  <2>. QED
    BY <2>1, <2>2, <2>3, <2>4, <2>5
       DEF CleanInv, AloneInv, BindingInv, StoppingInv, Stopping, ShellsInv, ServerInv, OwnedInv
<1>6. ASSUME NEW c \in Calls, Bound(c) PROVE CleanInv'
  BY <1>6
     DEF Bound, Idle, CleanInv, AloneInv, BindingInv, StoppingInv, ShellsInv, ServerInv,
         OwnedInv, TypeOK, Stopping, history, late
<1>7. ASSUME NEW c \in Calls, BindFails(c) PROVE CleanInv'
  BY <1>7
     DEF BindFails, Idle, CleanInv, AloneInv, BindingInv, StoppingInv, ShellsInv,
         ServerInv, OwnedInv, Stopping, history, late
<1>8. ASSUME NEW c \in Calls, SwitchOff(c) PROVE CleanInv'
  <2>. SUFFICES ASSUME ~tangled' PROVE CleanInv'
    BY DEF CleanInv
  <2>1. ~tangled /\ AtRest /\ enabled /\ ~enabled'
    BY <1>8, SwitchOffEffect
  <2>2. CASE AfterServer(c)
    <3>1. listening' = listening /\ server' = "none" /\ server = "none"
      BY <1>8, <2>2, SwitchOffEffect, AfterServerEffect
    <3>2. /\ \A d \in Calls: d # c => call'[d].at = "idle"
          /\ call'[c].at \in {"idle", "shells"}
          /\ ShellsInv' /\ OwnedInv'
      BY <2>1, <2>2, AfterServerClean DEF AtRest, CleanInv
    <3>3. ~listening'
      BY <2>1, <3>1 DEF CleanInv, ServerInv
    <3>. QED
      BY <2>1, <3>1, <3>2, <3>3
         DEF CleanInv, AloneInv, BindingInv, StoppingInv, Stopping, ServerInv
  <2>3. CASE ~AfterServer(c)
    <3>1. /\ server' = "closed" /\ listening' = (listening /\ server # "live")
          /\ call'[c].at = "closing" /\ \A d \in Calls: d # c => call'[d].at = "idle"
          /\ UNCHANGED <<manager, mcp, shell, lateShells>>
      BY <1>8, <2>1, <2>3, SwitchOffEffect DEF AtRest, late
    <3>2. ~listening'
      BY <2>1, <3>1 DEF CleanInv, ServerInv
    <3>. QED
      BY <2>1, <3>1, <3>2
         DEF CleanInv, AloneInv, BindingInv, StoppingInv, Stopping, Closing, ShellsInv, ServerInv,
             OwnedInv, AtRest
  <2>. QED
    BY <2>2, <2>3
<1>9. ASSUME NEW c \in Calls, Closed(c) PROVE CleanInv'
  <2>. SUFFICES ASSUME ~tangled' PROVE CleanInv'
    BY DEF CleanInv
  <2>1. /\ call[c].at = "closing" /\ AfterServer(c) /\ ~tangled
        /\ enabled' = enabled /\ listening' = listening
    BY <1>9 DEF Closed
  <2>2. ~enabled /\ ~listening /\ \A d \in Calls: d # c => call[d].at = "idle"
    BY <2>1 DEF CleanInv, StoppingInv, Stopping, AloneInv
  <2>3. /\ \A d \in Calls: d # c => call'[d].at = "idle"
        /\ call'[c].at \in {"idle", "shells"}
        /\ ShellsInv' /\ OwnedInv' /\ server' = "none"
    BY <2>1, <2>2, AfterServerClean, AfterServerEffect DEF CleanInv
  <2>. QED
    BY <2>1, <2>2, <2>3 DEF CleanInv, AloneInv, BindingInv, StoppingInv, ServerInv
<1>10. ASSUME NEW c \in Calls, ShellsClosed(c) PROVE CleanInv'
  <2>. SUFFICES ASSUME ~tangled' PROVE CleanInv'
    BY DEF CleanInv
  <2>1. /\ call[c].at = "shells" /\ ~tangled /\ manager' = None
        /\ UNCHANGED <<enabled, listening, server, mcp, lateShells>>
    BY <1>10 DEF ShellsClosed, AfterShells
  <2>2. call'[c].at = "idle" /\ \A d \in Calls: d # c => call'[d] = call[d]
    BY <1>10 DEF ShellsClosed, AfterShells, Idle, TypeOK
  <2>3. /\ ~enabled /\ ~listening /\ server = "none" /\ mcp = None
        /\ \A d \in Calls: d # c => call[d].at = "idle"
    BY <2>1 DEF CleanInv, StoppingInv, Stopping, AloneInv, ShellsInv
  <2>4. \A s \in Shells: shell'[s].at = "none" \/ s \in lateShells
    BY <1>10, <2>1 DEF ShellsClosed, NoShell, CleanInv, ShellsInv
  <2>. QED
    BY <2>1, <2>2, <2>3, <2>4
       DEF CleanInv, AloneInv, BindingInv, StoppingInv, Stopping, ShellsInv, ServerInv, OwnedInv
<1>11. ASSUME NEW s \in Shells, ShellStarts(s) PROVE CleanInv'
  BY <1>11
     DEF ShellStarts, CleanInv, AloneInv, BindingInv, StoppingInv, ShellsInv, ServerInv,
         OwnedInv, Stopping, Closing, endpoint, history, late
<1>12. ASSUME NEW s \in Shells, ShellEnds(s) PROVE CleanInv'
  BY <1>12
     DEF ShellEnds, NoShell, CleanInv, AloneInv, BindingInv, StoppingInv, ShellsInv,
         ServerInv, OwnedInv, Stopping, Closing, endpoint, history, late
<1>13. CASE TunnelAction
  BY <1>13, TunnelActionKeeps
     DEF CleanInv, AloneInv, BindingInv, StoppingInv, ShellsInv, ServerInv, OwnedInv,
         Stopping, Closing, endpoint
<1>14. CASE UNCHANGED vars
  BY <1>14
     DEF vars, CleanInv, AloneInv, BindingInv, StoppingInv, ShellsInv, ServerInv, OwnedInv,
         Stopping, Closing, endpoint, history, late
<1>. QED
  BY <1>1, <1>2, <1>3, <1>4, <1>5, <1>6, <1>7, <1>8, <1>9, <1>10, <1>11, <1>12,
     <1>13, <1>14
     DEF Next, TunnelAction

----------------------------------------------------------------------------
(* The theorems                                                            *)

IInv == TypeOK /\ ManagerInv /\ ToolsInv /\ TunnelInv /\ FreshInv /\ CleanInv

LEMMA Inductive == Spec => []IInv
<1>1. Init => ManagerInv /\ ToolsInv /\ TunnelInv /\ FreshInv
  BY DEF Init, Idle, NoPull, ManagerInv, ToolsInv, TunnelInv, FreshInv,
         Stopping, Closing
<1>2. Init => CleanInv
  BY DEF Init, CleanInv, AloneInv, BindingInv, StoppingInv, ShellsInv, ServerInv, OwnedInv,
         Idle, NoShell, Stopping, Closing
<1>3. IInv /\ TypeOK' /\ [Next]_vars => IInv'
  BY ManagerStep, ToolsStep, TunnelStep, FreshStep, CleanStep DEF IInv
<1>. QED
  BY <1>1, <1>2, <1>3, TypeCorrect, PTL DEF Spec, IInv

(* Switched off and at rest, nothing of the endpoint is left but what was  *)
(* being started when it was switched off, if the switch was never thrown  *)
(* while a start or a stop was out (stop()).                               *)
THEOREM OffLeaves == Spec => []OffLeavesNothing
<1>1. IInv => OffLeavesNothing
  <2>. SUFFICES ASSUME IInv, ~enabled, AtRest, ~tangled
                PROVE  /\ ~listening
                       /\ \A s \in Shells: shell[s].at # "none" => s \in lateShells
                       /\ up \subseteq stray
    BY DEF OffLeavesNothing
  <2>1. ~Stopping
    BY DEF AtRest, Stopping
  <2>2. manager = None /\ ~listening
    BY <2>1 DEF IInv, ManagerInv, CleanInv, ServerInv
  <2>3. \A s \in Shells: shell[s].at # "none" => s \in lateShells
    BY <2>2 DEF IInv, CleanInv, OwnedInv
  <2>4. up \subseteq stray
    BY <2>1, EndpointAssumption DEF IInv, TunnelInv, TypeOK
  <2>. QED
    BY <2>2, <2>3, <2>4
<1>. QED
  BY <1>1, Inductive, PTL

(* However the switch was thrown, a server that listens when it is off and *)
(* at rest serves nothing, but for tools a request revived (_currentMcp()).*)
THEOREM OffServes == Spec => []OffServesNothing
<1>1. IInv => OffServesNothing
  BY DEF IInv, OffServesNothing, ManagerInv, ToolsInv, Stopping, Closing, AtRest, Serves,
         CurrentMcp
<1>. QED
  BY <1>1, Inductive, PTL

(* Off and on again at rest mends what earlier presses left (start()).     *)
THEOREM OffOn == Spec => []OffOnMends
<1>1. IInv => OffOnMends
  BY DEF IInv, OffOnMends, FreshInv, Serves, CurrentMcp
<1>. QED
  BY <1>1, Inductive, PTL
=============================================================================
