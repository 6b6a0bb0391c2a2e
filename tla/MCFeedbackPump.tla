--------------------------- MODULE MCFeedbackPump ---------------------------
(***************************************************************************)
(* Instances of FeedbackPump for TLC: two zones that publish a playback, a *)
(* volume and titles, under rules of the types whose searches differ.      *)
(***************************************************************************)
EXTENDS FeedbackPump

CONSTANTS z1, z2

Of(target, property, value) == [target |-> target, property |-> property, value |-> value]

Zones == {z1, z2}

Published ==
  {Of(z1, "playback", <<"string", "playing">>), Of(z2, "playback", <<"string", "paused">>),
   Of(z1, "volume", <<"up", 40>>), Of(z1, "volume", <<"down", 45>>),
   Of(z1, "now_playing", <<"track", "a">>), Of(z1, "now_playing", <<"track", "b">>)}

Titles == [t \in {"a", "b"} |-> IF t = "a" THEN 2 ELSE 1]

\* A glyph of the user's and a rule of the old name for titles; rules that
\* pass an update on or end its search.
Named == <<[state |-> "playback", type |-> "glyph", mapping |-> [playing |-> "spin"]],
           [state |-> "track", type |-> "track_scroll"]>>
Chain == <<[state |-> "any", type |-> "track_scroll"], [state |-> "volume", type |-> "letter"],
           [state |-> "playback", type |-> "playback_glyph"],
           [state |-> "any", type |-> "pulse"]>>

Mapped(active, target, candidates, feedback) ==
  [active |-> active, target |-> target, candidates |-> candidates, feedback |-> feedback]

\* One zone of two, both by candidates, an inactive mapping before an active
\* one that covers what it would, a mapping without rules, and none.
Lists ==
  {<<Mapped(TRUE, z1, {}, Named)>>,
   <<Mapped(TRUE, z1, {z2}, Chain)>>,
   <<Mapped(FALSE, z1, {}, Named), Mapped(TRUE, z2, {z1}, <<>>)>>,
   <<Mapped(TRUE, z2, {}, Chain), Mapped(TRUE, z1, {z2}, Named)>>,
   <<>>}

Registries == {{}, {"play", "pause", "spin", "pulse"}}
Chars == {"x"}
=============================================================================
