----------------------------- MODULE McpEndpoint -----------------------------
(***************************************************************************)
(* The MCP endpoint, the shells its tools hold open and its public tunnel: *)
(* lib/api/mcp/wsl_mcp_service.dart (setEnabled, start, stop, the server   *)
(* for a request), wsl_terminal_manager.dart, cloudflare_tunnel_service.   *)
(* dart, and the two switches of lib/screens/settings_screen.dart.         *)
(*                                                                         *)
(* The switch does not wait for what it started, so a start or a stop may  *)
(* be out when it is thrown again.  All state is static: every service     *)
(* object shares one server, one terminal manager and one tunnel.          *)
(*                                                                         *)
(* Left out: tokens, what tools do besides opening shells, the licence,    *)
(* downloading cloudflared, and a tunnel process that dies by itself.      *)
(***************************************************************************)
EXTENDS Naturals

CONSTANTS
  Calls,     \* starts and stops that may be out at the same time (a bound)
  Managers,  \* terminal managers that may exist at the same time (a bound)
  Shells,    \* shells that may exist at the same time (a bound)
  Procs,     \* cloudflared processes that may run at the same time (a bound)
  Pulls,     \* starts of a tunnel that may be out at the same time (a bound)
  None

ASSUME EndpointAssumption ==
  None \notin Calls \cup Managers \cup Shells \cup Procs \cup Pulls

VARIABLES
  enabled,    \* the stored switch, and the one on the page
  listening,  \* a server of this application has the port
  server,     \* _server: null, that server, or one that was closed
  manager,    \* _terminalManager
  mcp,        \* the manager the tools of _mcp open shells in, or None
  moved,      \* an experimental feature was switched since _mcp was built
  call,       \* [Calls -> the starts and stops that are out]
  shell,      \* [Shells -> the shell, and the manager that has or awaits it]
  tunnel,     \* _tunnels[port]: a process, or None
  up,         \* the cloudflared processes that run
  pull,       \* [Pulls -> the starts of a tunnel that are out]
  busy,       \* the one the page's tunnel switch waits for, or None
  tangled,    \* history: the switch was thrown while a start or stop was out
  revived,    \* history: a request built the tools a stop had forgotten
  fresh,      \* history: not so since it was last thrown off with none out
  lateShells, \* history: shells whose start closeAll did not see
  latePulls,  \* history: starts of a tunnel that have passed a stop()
  stray       \* history: processes no tunnel referred to when they started, or
              \* that another replaced

endpoint == <<listening, server, manager, mcp, moved>>
tunnels == <<tunnel, up, pull, busy>>
late == <<lateShells, latePulls>>
history == <<tangled, revived, fresh, late, stray>>
vars == <<enabled, endpoint, call, shell, tunnels, history>>

Idle == [at |-> "idle", of |-> {}]
NoShell == [at |-> "none", of |-> None]
NoPull == [at |-> "idle", proc |-> None]

TypeOK ==
  /\ enabled \in BOOLEAN /\ listening \in BOOLEAN /\ moved \in BOOLEAN
  /\ server \in {"none", "live", "closed"}
  /\ manager \in Managers \cup {None} /\ mcp \in Managers \cup {None}
  /\ call \in [Calls -> [at: {"idle", "binding", "closing", "shells"},
                         of: SUBSET Shells]]
  /\ shell \in [Shells -> [at: {"none", "spawning", "open", "closing"},
                           of: Managers \cup {None}]]
  /\ tunnel \in Procs \cup {None} /\ up \in SUBSET Procs
  /\ pull \in [Pulls -> [at: {"idle", "locating", "waiting"},
                         proc: Procs \cup {None}]]
  /\ busy \in Pulls \cup {None}
  /\ tangled \in BOOLEAN /\ revived \in BOOLEAN /\ fresh \in BOOLEAN
  /\ lateShells \in SUBSET Shells /\ latePulls \in SUBSET Pulls /\ stray \in SUBSET Procs

Init ==
  /\ enabled = FALSE
  /\ listening = FALSE /\ server = "none" /\ manager = None /\ mcp = None /\ moved = FALSE
  /\ call = [c \in Calls |-> Idle]
  /\ shell = [s \in Shells |-> NoShell]
  /\ tunnel = None /\ up = {} /\ pull = [p \in Pulls |-> NoPull] /\ busy = None
  /\ tangled = FALSE /\ revived = FALSE /\ fresh = TRUE
  /\ lateShells = {} /\ latePulls = {} /\ stray = {}

AtRest == \A c \in Calls: call[c].at = "idle"

----------------------------------------------------------------------------
(* The tunnel                                                              *)

(* stop() of the tunnel, and history: what start() has not entered yet.    *)
Locating == {p \in Pulls: pull[p].at = "locating"}
StopTunnel ==
  /\ tunnel' = None
  /\ up' = up \ {tunnel}
  /\ latePulls' = latePulls \cup Locating

(* The page has its switch while the endpoint is on.  It may have been     *)
(* drawn before the tunnel there is; one with a URL is returned as it is.  *)
TunnelOn(p) ==
  /\ enabled /\ busy = None /\ pull[p].at = "idle"
  /\ tunnel = None \/ \E q \in Pulls: pull[q].proc = tunnel
  /\ pull' = [pull EXCEPT ![p].at = "locating"]
  /\ busy' = p
  /\ latePulls' = latePulls \ {p}
  /\ UNCHANGED <<enabled, endpoint, call, shell, tunnel, up,
                 tangled, revived, fresh, lateShells, stray>>

TunnelOff ==
  /\ enabled /\ busy = None /\ tunnel # None
  /\ StopTunnel
  /\ UNCHANGED <<enabled, endpoint, call, shell, pull, busy,
                 tangled, revived, fresh, lateShells, stray>>

LeavePage ==
  /\ busy # None /\ busy' = None
  /\ UNCHANGED <<enabled, endpoint, call, shell, tunnel, up, pull, history>>

PullEnds(p) == busy' = IF busy = p THEN None ELSE busy

(* The process is entered in the map over any other.                       *)
Spawned(p) ==
  \E x \in Procs \ (up \cup {pull[q].proc : q \in Pulls}):
    /\ pull[p].at = "locating"
    /\ up' = up \cup {x} /\ tunnel' = x
    /\ pull' = [pull EXCEPT ![p].at = "waiting", ![p].proc = x]
    /\ stray' = ((stray \ {x}) \cup {tunnel, IF p \in latePulls THEN x ELSE None}) \ {None}
    /\ UNCHANGED <<enabled, endpoint, call, shell, busy, tangled, revived, fresh, late>>

SpawnFails(p) ==
  /\ pull[p].at = "locating"
  /\ pull' = [pull EXCEPT ![p] = NoPull]
  /\ PullEnds(p)
  /\ UNCHANGED <<enabled, endpoint, call, shell, tunnel, up, history>>

UrlSeen(p) ==
  /\ pull[p].at = "waiting" /\ pull[p].proc \in up
  /\ pull' = [pull EXCEPT ![p] = NoPull]
  /\ PullEnds(p)
  /\ UNCHANGED <<enabled, endpoint, call, shell, tunnel, up, history>>

(* No URL in time: stop() ends the tunnel that is entered by then.         *)
UrlTimeout(p) ==
  /\ pull[p].at = "waiting"
  /\ StopTunnel
  /\ pull' = [pull EXCEPT ![p] = NoPull]
  /\ PullEnds(p)
  /\ UNCHANGED <<enabled, endpoint, call, shell, tangled, revived, fresh, lateShells, stray>>

----------------------------------------------------------------------------
(* Starting                                                                *)

IsUsed(m) == m \in {manager, mcp} \/ \E s \in Shells: shell[s].of = m

Throw(value) ==
  /\ enabled' = value
  /\ tangled' = (tangled \/ ~AtRest)
  /\ fresh' = (AtRest /\ (fresh \/ ~value))
  /\ UNCHANGED stray

IsRunning == server # "none"

SwitchOnRunning ==
  /\ ~enabled /\ IsRunning
  /\ Throw(TRUE)
  /\ UNCHANGED <<endpoint, call, shell, tunnels, revived, late>>

(* Mutants: tools there already are kept (_mcp ??= _buildMcp()).           *)
BuildsIfNone(m) == manager' = m /\ mcp' = (IF mcp = None THEN m ELSE mcp) /\ moved' = FALSE
BuildTools(m) == manager' = m /\ mcp' = m /\ moved' = FALSE

SwitchOn(c) ==
  /\ ~enabled /\ ~IsRunning /\ call[c].at = "idle"
  /\ Throw(TRUE)
  /\ \E m \in Managers: ~IsUsed(m) /\ BuildTools(m)
  /\ call' = [call EXCEPT ![c].at = "binding"]
  /\ UNCHANGED <<listening, server, shell, tunnels, revived, late>>

Bound(c) ==
  /\ call[c].at = "binding" /\ ~listening
  /\ listening' = TRUE /\ server' = "live"
  /\ call' = [call EXCEPT ![c] = Idle]
  /\ UNCHANGED <<enabled, manager, mcp, moved, shell, tunnels, history>>

(* The port is taken, perhaps by an earlier start: the handle goes.        *)
BindFails(c) ==
  /\ call[c].at = "binding"
  /\ server' = "none"
  /\ call' = [call EXCEPT ![c] = Idle]
  /\ UNCHANGED <<enabled, listening, manager, mcp, moved, shell, tunnels, history>>

----------------------------------------------------------------------------
(* Stopping                                                                *)

(* The end of stop(): the manager is forgotten and the tunnel stopped.     *)
AfterShells(c) ==
  /\ manager' = None
  /\ StopTunnel
  /\ call' = [call EXCEPT ![c] = Idle]
  /\ UNCHANGED <<pull, busy>>

(* Mutants: stop() leaves the tools.                                       *)
KeepTools == UNCHANGED mcp /\ revived' = FALSE
ForgetTools == mcp' = None /\ revived' = FALSE

(* After the server: the tools are forgotten, and closeAll takes the       *)
(* sessions there are.                                                     *)
(* Mutants: closeAll takes none.                                           *)
NoSessions == {}
Sessions == {s \in Shells: shell[s].at = "open" /\ shell[s].of = manager}
AfterServer(c) ==
  /\ server' = "none" /\ ForgetTools
  /\ shell' = [s \in Shells |->
       IF s \in Sessions THEN [shell[s] EXCEPT !.at = "closing"] ELSE shell[s]]
  /\ lateShells' = lateShells \cup {s \in Shells: shell[s].at = "spawning" /\ shell[s].of = manager}
  /\ IF Sessions = {} THEN AfterShells(c)
     ELSE /\ call' = [call EXCEPT ![c] = [at |-> "shells", of |-> Sessions]]
          /\ UNCHANGED <<manager, tunnels, latePulls>>

SwitchOff(c) ==
  /\ enabled /\ call[c].at = "idle"
  /\ Throw(FALSE)
  /\ UNCHANGED moved
  /\ IF server = "none" THEN UNCHANGED listening /\ AfterServer(c)
     ELSE /\ listening' = (listening /\ server # "live")
          /\ server' = "closed"
          /\ call' = [call EXCEPT ![c].at = "closing"]
          /\ UNCHANGED <<manager, mcp, shell, tunnels, revived, late>>

Closed(c) ==
  /\ call[c].at = "closing"
  /\ AfterServer(c)
  /\ UNCHANGED <<enabled, listening, moved, tangled, fresh, stray>>

ShellsClosed(c) ==
  /\ call[c].at = "shells"
  /\ shell' = [s \in Shells |->
       IF s \in call[c].of THEN NoShell ELSE shell[s]]
  /\ AfterShells(c)
  /\ UNCHANGED <<enabled, listening, server, mcp, moved, tangled, revived,
                 fresh, lateShells, stray>>

----------------------------------------------------------------------------
(* Requests                                                                *)

FlipFeature ==
  /\ ~moved /\ moved' = TRUE
  /\ UNCHANGED <<enabled, listening, server, manager, mcp, call, shell, tunnels, history>>

(* _currentMcp: the tools of a request, or None where it throws.           *)
CurrentMcp == IF moved THEN manager ELSE mcp
Serves == listening /\ CurrentMcp # None

(* Any request may rebuild the tools; one for a shell starts it.           *)
Request ==
  /\ Serves
  /\ mcp' = CurrentMcp /\ moved' = FALSE
  /\ revived' = (revived \/ mcp = None)
  /\ \/ \E s \in Shells:
          /\ shell[s].at = "none"
          /\ shell' = [shell EXCEPT ![s] = [at |-> "spawning", of |-> CurrentMcp]]
          /\ lateShells' = lateShells \ {s}
     \/ UNCHANGED <<shell, lateShells>>
  /\ UNCHANGED <<enabled, listening, server, manager, call, tunnels,
                 tangled, fresh, latePulls, stray>>

(* Tools that should be built anew without a manager: the generation is    *)
(* taken, then the request fails.                                          *)
RequestThrows ==
  /\ listening /\ moved /\ manager = None
  /\ moved' = FALSE
  /\ UNCHANGED <<enabled, listening, server, manager, mcp, call, shell, tunnels, history>>

ShellStarts(s) ==
  /\ shell[s].at = "spawning"
  /\ shell' = [shell EXCEPT ![s].at = "open"]
  /\ UNCHANGED <<enabled, endpoint, call, tunnels, history>>

(* It fails to start, exits, or a client closes it.                        *)
ShellEnds(s) ==
  /\ shell[s].at \in {"spawning", "open"}
  /\ shell' = [shell EXCEPT ![s] = NoShell]
  /\ UNCHANGED <<enabled, endpoint, call, tunnels, history>>

Next ==
  \/ SwitchOnRunning \/ TunnelOff \/ LeavePage \/ FlipFeature \/ Request \/ RequestThrows
  \/ \E c \in Calls: SwitchOn(c) \/ Bound(c) \/ BindFails(c)
                     \/ SwitchOff(c) \/ Closed(c) \/ ShellsClosed(c)
  \/ \E s \in Shells: ShellStarts(s) \/ ShellEnds(s)
  \/ \E p \in Pulls: TunnelOn(p) \/ Spawned(p) \/ SpawnFails(p) \/ UrlSeen(p) \/ UrlTimeout(p)

Spec == Init /\ [][Next]_vars

----------------------------------------------------------------------------
(* Properties                                                              *)

(* "Disabling the server shouldn't leave orphaned WSL shell processes", nor*)
(* a public URL (stop()): once it is off and at rest there is no server,   *)
(* and no shell and no cloudflared but those that were being started when  *)
(* it was switched off, or whose tunnel was started twice.  This holds if  *)
(* the switch was never thrown while a start or a stop was out.            *)
OffLeavesNothing ==
  ~enabled /\ AtRest /\ ~tangled =>
    /\ ~listening
    /\ \A s \in Shells: shell[s].at # "none" => s \in lateShells
    /\ up \subseteq stray

(* However the switch was thrown, a server that is left listening when it  *)
(* is off and at rest has no tools: no request runs anything, unless one   *)
(* had them built for a feature switch while a stop was still closing the  *)
(* shells (_currentMcp(), stop()).                                         *)
OffServesNothing == ~enabled /\ AtRest /\ ~revived => ~Serves

(* Off and on again, with nothing out either time, mends whatever earlier  *)
(* presses left: if a server listens it serves, and in the manager that    *)
(* stop() will close (start(), stop()).                                    *)
OffOnMends ==
  enabled /\ AtRest /\ fresh /\ listening => Serves /\ CurrentMcp = manager
=============================================================================
