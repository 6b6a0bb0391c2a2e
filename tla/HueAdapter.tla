----------------------------- MODULE HueAdapter -----------------------------
(***************************************************************************)
(* The lights of the Hue adapter of edge-agent: start (adapter.rs), the    *)
(* cache (cache.rs), the event stream (events.rs), intents as requests to  *)
(* the bridge, and the state pump that follows the adapter's broadcast     *)
(* (main.rs).  HueBootstrap models how the adapter comes to be started,    *)
(* and the Tap Dials of the same stream.                                   *)
(*                                                                         *)
(* A light is on or off and has a brightness in 0..Full.  An update of the *)
(* broadcast is <<light, field, value>>; "light", the field of both values *)
(* and the name, repeats what the other two say and is left out.           *)
(***************************************************************************)
EXTENDS Integers, Sequences

CONSTANTS
  Lights,
  Unknown,          \* a light or a field the edge has not heard of
  Full,             \* brightness is a percentage
  RingCap,          \* broadcast::channel(256)
  MaxTouches,       \* bound: changes by others, at the wall or in an app
  MaxIntents,       \* bound: intents for the adapter
  MaxFaults,        \* bound: requests that fail
  MaxBreaks         \* bound: event streams lost

LightStates == [on : BOOLEAN, brightness : 0..Full]

ASSUME LightAssumption ==
  /\ {Full, RingCap, MaxTouches, MaxIntents, MaxFaults, MaxBreaks} \subseteq Nat
  /\ Unknown \notin LightStates

VARIABLES
  light,            \* the lights, at the bridge
  stage,            \* start and what follows it in run_hue_bootstrap
  cache,            \* LightCache
  stream, wire,     \* events::run, and the events on their way to it
  replay,           \* lights the replay has yet to broadcast
  ring,             \* the pump's receiver of state_tx
  pump,             \* "none", "early", "served" (a replay since), "lagged"
  reported,         \* the pump's table: its last update of every field
  put,              \* the request a light's worker has under way
  touches, intents, faults, breaks,
  missed            \* history: fields that changed while no stream carried it

counters == <<touches, intents, faults, breaks>>
vars == <<light, stage, cache, stream, wire, replay, ring, pump, reported, put, counters, missed>>

NoPut == <<"none">>
Fields == {"on", "brightness"}
Value(l, f) == IF f = "on" THEN l.on ELSE l.brightness

Init ==
  /\ light \in [Lights -> LightStates]
  /\ stage = "list"
  /\ cache = [l \in Lights |-> Unknown]
  /\ stream = "off" /\ wire = <<>> /\ replay = {}
  /\ ring = <<>> /\ pump = "none"
  /\ reported = [l \in Lights |-> [f \in Fields |-> Unknown]]
  /\ put = [l \in Lights |-> NoPut]
  /\ touches = 0 /\ intents = 0 /\ faults = 0 /\ breaks = 0
  /\ missed = {}

-----------------------------------------------------------------------------
(* The bridge: it sends every change of a light to an open stream. *)

Listening == stream \in {"replay", "up"}

\* A light takes the values of `now`: an event tells the fields that changed.
Becomes(l, now) ==
  LET changed == {f \in Fields : Value(now, f) # Value(light[l], f)}
      keys == {<<l, f>> : f \in changed}
  IN  /\ light' = [light EXCEPT ![l] = now]
      /\ wire' = IF Listening /\ changed # {}
                 THEN Append(wire, [id |-> l, data |-> [f \in changed |-> Value(now, f)]])
                 ELSE wire
      /\ missed' = IF Listening THEN missed \ keys ELSE missed \cup keys

Touch(l) ==
  /\ touches < MaxTouches /\ touches' = touches + 1
  /\ \E now \in LightStates : now # light[l] /\ Becomes(l, now)
  /\ UNCHANGED <<stage, cache, stream, replay, ring, pump, reported, put, intents, faults, breaks>>

\* A request times out or is refused.
Fault == faults < MaxFaults /\ faults' = faults + 1

-----------------------------------------------------------------------------
(* HueAdapter::start, and run_hue_bootstrap once it returns. *)

\* list_lights; what is broadcast then has no receiver yet. On an error the
\* bootstrap starts again from the beginning.
ListLights ==
  /\ stage = "list"
  /\ \/ stage' = "spawn" /\ cache' = light /\ missed' = {} /\ UNCHANGED faults
     \/ Fault /\ UNCHANGED <<stage, cache, missed>>
  /\ UNCHANGED <<light, stream, wire, replay, ring, pump, reported, put, touches, intents, breaks>>

\* tokio::spawn(events::run(..)), after the requests for the Tap Dials.
SpawnStream ==
  /\ stage = "spawn" /\ stage' = "subscribe"
  /\ stream' = "down"
  /\ UNCHANGED <<light, cache, wire, replay, ring, pump, reported, put, counters, missed>>

\* spawn_state_pump; then the adapter is published to the dispatcher.
Subscribe ==
  /\ stage = "subscribe" /\ stage' = "online"
  /\ pump' = "early"
  /\ UNCHANGED <<light, cache, stream, wire, replay, ring, reported, put, counters, missed>>

-----------------------------------------------------------------------------
(* events::run *)

\* Mutant: a receiver that lags is waited for by nobody and loses nothing.
BroadcastUnbounded(l, now) ==
  /\ ring' = IF pump = "none" THEN ring
             ELSE ring \o <<<<l, "on", now.on>>, <<l, "brightness", now.brightness>>>>
  /\ UNCHANGED pump

\* A broadcast of the light's fields: without a receiver it is lost, and the
\* oldest updates are lost when the pump is RingCap behind.
Broadcast(l, now) ==
  LET all == ring \o <<<<l, "on", now.on>>, <<l, "brightness", now.brightness>>>>
      over == IF Len(all) > RingCap THEN Len(all) - RingCap ELSE 0
  IN  IF pump = "none" THEN UNCHANGED <<ring, pump>>
      ELSE /\ ring' = SubSeq(all, over + 1, Len(all))
           /\ pump' = IF over > 0 THEN "lagged" ELSE pump

Served(p) == IF p = "none" THEN "none" ELSE "served"

\* Mutant: the stream opens without the replay.
OpenWithoutReplay ==
  /\ stream = "down" /\ stream' = "replay" /\ pump' = Served(pump)
  /\ replay' = {}
  /\ UNCHANGED <<light, stage, cache, wire, ring, reported, put, counters, missed>>

\* stream_once up to cache.values(). A pump that subscribes later misses what
\* has been replayed by then.
Open ==
  /\ stream = "down" /\ stream' = "replay" /\ pump' = Served(pump)
  /\ replay' = {l \in Lights : cache[l] # Unknown}
  /\ UNCHANGED <<light, stage, cache, wire, ring, reported, put, counters, missed>>

ReplayOne ==
  /\ stream = "replay" /\ replay # {}
  /\ \E l \in replay : replay' = replay \ {l} /\ Broadcast(l, cache[l])
  /\ UNCHANGED <<light, stage, cache, stream, wire, reported, put, counters, missed>>

ReplayDone ==
  /\ stream = "replay" /\ replay = {} /\ stream' = "up"
  /\ UNCHANGED <<light, stage, cache, wire, replay, ring, pump, reported, put, counters, missed>>

Told(event, f, old) == IF f \in DOMAIN event.data THEN event.data[f] ELSE old

\* Mutant: an event that does not tell the brightness resets it.
MergePartialWhole(event) ==
  [on |-> Told(event, "on", cache[event.id].on), brightness |-> Told(event, "brightness", 0)]

\* LightCache::merge_partial
MergePartial(event) ==
  [on |-> Told(event, "on", cache[event.id].on),
   brightness |-> Told(event, "brightness", cache[event.id].brightness)]

\* apply_light_event: a light that was not listed is not known.
LightEvent ==
  /\ stream = "up" /\ wire # <<>> /\ wire' = Tail(wire)
  /\ LET event == Head(wire)
     IN  IF cache[event.id] = Unknown THEN UNCHANGED <<cache, ring, pump>>
         ELSE /\ cache' = [cache EXCEPT ![event.id] = MergePartial(event)]
              /\ Broadcast(event.id, MergePartial(event))
  /\ UNCHANGED <<light, stage, stream, replay, reported, put, counters, missed>>

\* The stream ends with the events it still carried; run sleeps, then opens it
\* again.
Break ==
  /\ Listening /\ stream' = "down"
  /\ breaks < MaxBreaks /\ breaks' = breaks + 1
  /\ wire' = <<>> /\ replay' = {}
  /\ pump' = IF stream = "replay" /\ pump = "served" THEN "early" ELSE pump
  /\ missed' = missed \cup UNION {{<<wire[i].id, f>> : f \in DOMAIN wire[i].data} : i \in DOMAIN wire}
  /\ UNCHANGED <<light, stage, cache, ring, reported, put, touches, intents, faults>>

-----------------------------------------------------------------------------
(* The state pump, whose table EdgeLink carries to the server. *)

PumpTake ==
  /\ ring # <<>> /\ ring' = Tail(ring)
  /\ reported' = [reported EXCEPT ![Head(ring)[1]][Head(ring)[2]] = Head(ring)[3]]
  /\ UNCHANGED <<light, stage, cache, stream, wire, replay, pump, put, counters, missed>>

-----------------------------------------------------------------------------
(* send_intent: a light's worker has one request under way. *)

\* PowerToggle asks the cache, and takes a light it does not know for off.
Toggled(l) == IF cache[l] = Unknown THEN TRUE ELSE ~cache[l].on

\* BrightnessChange carries no step of size zero.
Submit(l) ==
  /\ stage = "online" /\ put[l] = NoPut
  /\ intents < MaxIntents /\ intents' = intents + 1
  /\ \E request \in {<<"on", TRUE>>, <<"on", FALSE>>, <<"on", Toggled(l)>>,
                     <<"change", 1>>, <<"change", -1>>, <<"set", Full>>} :
       put' = [put EXCEPT ![l] = request]
  /\ UNCHANGED <<light, stage, cache, stream, wire, replay, ring, pump, reported, touches,
                 faults, breaks, missed>>

Clamped(x) == IF x < 0 THEN 0 ELSE IF x > Full THEN Full ELSE x

\* What a PUT asks of the light.
Requested(old, request) ==
  CASE request[1] = "on"     -> [old EXCEPT !.on = request[2]]
    [] request[1] = "change" -> [old EXCEPT !.brightness = Clamped(@ + request[2])]
    [] request[1] = "set"    -> [old EXCEPT !.brightness = Clamped(request[2])]

\* put_light: done, or failed and forgotten.
Put(l) ==
  /\ put[l] # NoPut /\ put' = [put EXCEPT ![l] = NoPut]
  /\ \/ Becomes(l, Requested(light[l], put[l])) /\ UNCHANGED faults
     \/ Fault /\ UNCHANGED <<light, wire, missed>>
  /\ UNCHANGED <<stage, cache, stream, replay, ring, pump, reported, touches, intents, breaks>>

-----------------------------------------------------------------------------
Start == ListLights \/ SpawnStream \/ Subscribe
Stream == Open \/ ReplayOne \/ ReplayDone \/ LightEvent

Next ==
  \/ Start \/ Stream \/ Break \/ PumpTake
  \/ \E l \in Lights : Touch(l) \/ Submit(l) \/ Put(l)

Spec == Init /\ [][Next]_vars

-----------------------------------------------------------------------------
(* Properties. *)

\* Every table holds what it may hold and the pump's receiver is within its
\* capacity.
TypeOK ==
  /\ stage \in {"list", "spawn", "subscribe", "online"}
  /\ light \in [Lights -> LightStates]
  /\ cache \in [Lights -> LightStates \cup {Unknown}]
  /\ stream \in {"off", "down", "replay", "up"}
  /\ Len(ring) <= RingCap
  /\ pump \in {"none", "early", "served", "lagged"}
  /\ missed \subseteq Lights \X Fields

\* cache.rs, "kept fresh by the SSE event stream", as far as it goes: with
\* nothing on the way the cache is the light, field by field, but for fields
\* that changed while no stream was open and have not changed since.
FreshUnlessMissed ==
  stream = "up" /\ wire = <<>> =>
    \A l \in Lights, f \in Fields :
      <<l, f>> \in missed \/ Value(cache[l], f) = Value(light[l], f)

\* events.rs replays "now that state_pump subscribers are attached". Once a
\* replay has run to its end with the pump there, and unless the pump lagged,
\* it holds every field of every cached light whenever it has read all.
PumpHoldsCache ==
  stream = "up" /\ pump = "served" /\ ring = <<>> =>
    \A l \in Lights, f \in Fields : reported[l][f] = Value(cache[l], f)

=============================================================================
