---------------------------- MODULE HueBootstrap ----------------------------
(***************************************************************************)
(* How edge-agent finds its Hue bridge: run_hue_bootstrap of main.rs, which *)
(* tries again for ever, and the resolution of the bridge's address        *)
(* (adapter_hue/resolver.rs): the stored host, mDNS, the Philips cloud.    *)
(* HueAdapter goes on from the stage "list".                               *)
(*                                                                         *)
(* Only the bridge the edge was paired with, Paired, takes its app key.    *)
(* What is on the network (at, cloud) is external.                         *)
(***************************************************************************)
EXTENDS Naturals, Sequences, FiniteSets

CONSTANTS
  Hosts, Bridges,
  Paired,           \* the bridge of the app key
  NoId,             \* bridge_id of a token of an older version
  Nobody,           \* nothing answers at a host
  StartTokens,      \* the tokens a run may begin with
  OutboxCap,        \* mpsc::channel(256)
  MaxMoves,         \* bound: address changes
  MaxFaults         \* bound: requests and writes that fail

ASSUME BridgeAssumption ==
  /\ Paired \in Bridges /\ NoId \notin Bridges /\ Nobody \notin Bridges
  /\ StartTokens \subseteq [host : Hosts, id : Bridges \cup {NoId}]
  /\ OutboxCap \in Nat \ {0} /\ {MaxMoves, MaxFaults} \subseteq Nat

VARIABLES
  at,               \* the bridge that answers at each host
  cloud,            \* <<bridge, host>> as discovery.meethue.com lists them
  file, token,      \* hue-token.json, and the token of the attempt
  boot,             \* how far the attempt is
  queued,           \* frames in the outbox
  moves, faults

network == <<at, cloud, moves>>
bootVars == <<network, file, token, boot, queued, faults>>

\* The addresses the bridges have: a bridge has one, and Paired is on the LAN.
Placements ==
  {f \in [Hosts -> Bridges \cup {Nobody}] :
     /\ \A h, i \in Hosts : f[h] = f[i] /\ f[h] # Nobody => h = i
     /\ \E h \in Hosts : f[h] = Paired}

Listing(f) == {<<f[h], h>> : h \in {x \in Hosts : f[x] # Nobody}}

BootInit ==
  /\ at \in Placements /\ cloud = Listing(at)
  /\ file \in StartTokens /\ token = file
  /\ boot = "load" /\ queued = 0 /\ moves = 0 /\ faults = 0

-----------------------------------------------------------------------------
(* The network and the session that sends the outbox. *)

Readdress ==
  /\ moves < MaxMoves /\ moves' = moves + 1
  /\ at' \in Placements \ {at}
  /\ UNCHANGED <<cloud, file, token, boot, queued, faults>>

CloudLearns ==
  /\ cloud' = Listing(at)
  /\ UNCHANGED <<at, moves, file, token, boot, queued, faults>>

Drain ==
  /\ queued > 0 /\ queued' = queued - 1
  /\ UNCHANGED <<network, file, token, boot, faults>>

-----------------------------------------------------------------------------
(* One attempt: try_hue_init, resolve_bridge. *)

\* A request times out, or a write fails: the attempt ends in an error.
Fault == faults < MaxFaults /\ faults' = faults + 1

GoOn(stage) == boot' = stage /\ UNCHANGED faults

Fail == GoOn("report")

\* fetch_bridge_config: the id of what answers at a host.
Observed(h) == at[h]

\* mdns::resolve: an address that was announced with the id.
Announced(id) == {h \in Hosts : at[h] = id}

\* discovery::discover, and the address it has for an id.
Discovered == cloud
DiscoveredAt(id) == {h \in Hosts : <<id, h>> \in Discovered}

Load ==
  /\ boot = "load"
  /\ token' = file /\ GoOn("probe")
  /\ UNCHANGED <<network, file, queued>>

\* hue_token::save: written beside and renamed, or not at all.
Save(t) ==
  \/ file' = t /\ GoOn("list")
  \/ Fault /\ boot' = "report" /\ UNCHANGED file

\* persist: the token of the attempt has changed already.
Adopt(t) == token' = t /\ Save(t)

\* What follows an address that does not prove itself.
AfterProbe == IF token.id = NoId THEN "migrate" ELSE "mdns"

\* Mutant: a bridge that answers is taken for the stored one.
ProbeTrusting ==
  /\ boot = "probe"
  /\ IF Observed(token.host) = Nobody
     THEN GoOn(AfterProbe) /\ UNCHANGED <<file, token>>
     ELSE Adopt([token EXCEPT !.id = Observed(token.host)])
  /\ UNCHANGED <<network, queued>>

\* Stage 1: the stored host proves itself, or gives an old token its id.
Probe ==
  /\ boot = "probe"
  /\ LET found == Observed(token.host)
     IN  \/ Fault /\ boot' = AfterProbe /\ UNCHANGED <<file, token>>
         \/ found \notin {Nobody, token.id} /\ token.id = NoId
              /\ Adopt([token EXCEPT !.id = found])
         \/ found = token.id /\ GoOn("list") /\ UNCHANGED <<file, token>>
         \/ found # token.id /\ (found = Nobody \/ token.id # NoId)
              /\ GoOn(AfterProbe) /\ UNCHANGED <<file, token>>
  /\ UNCHANGED <<network, queued>>

\* Stage 2: the bridge answers a browse within the window, or it does not.
Browse ==
  /\ boot = "mdns"
  /\ \/ \E h \in Announced(token.id) : Adopt([token EXCEPT !.host = h])
     \/ GoOn("cloud") /\ UNCHANGED <<file, token>>
  /\ UNCHANGED <<network, queued>>

\* Stage 3: the host the cloud knows for the bridge.
AskCloud ==
  /\ boot = "cloud"
  /\ \/ \E h \in DiscoveredAt(token.id) : Adopt([token EXCEPT !.host = h])
     \/ DiscoveredAt(token.id) = {} /\ Fail /\ UNCHANGED <<file, token>>
     \/ Fault /\ boot' = "report" /\ UNCHANGED <<file, token>>
  /\ UNCHANGED <<network, queued>>

\* try_cloud_migration: only a sole bridge is adopted.
Migrate ==
  /\ boot = "migrate"
  /\ \/ \E only \in Discovered : Discovered = {only} /\ Adopt([host |-> only[2], id |-> only[1]])
     \/ Cardinality(Discovered) # 1 /\ Fail /\ UNCHANGED <<file, token>>
     \/ Fault /\ boot' = "report" /\ UNCHANGED <<file, token>>
  /\ UNCHANGED <<network, queued>>

\* The Error frame awaits room in the outbox; then the delay and a new attempt.
Report ==
  /\ boot = "report" /\ boot' = "load"
  /\ queued < OutboxCap /\ queued' = queued + 1
  /\ UNCHANGED <<network, file, token, faults>>

Resolve == Load \/ Probe \/ Browse \/ AskCloud \/ Migrate \/ Report

=============================================================================
