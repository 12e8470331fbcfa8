----------------------------- MODULE ImvTracking ----------------------------
(***************************************************************************)
(* src/ranger/plugins/image_preview_imv2.py: which imv is tracked, and     *)
(* what ranger looks like meanwhile.  The newest socket is tracked, those  *)
(* of before are ignored, and M has all that run now ignored; tracking     *)
(* binds four keys and hides ranger's own preview, and takes that back;    *)
(* and steps held down are delayed, with a longer pause after each burst.  *)
(* (What imv and ranger then show is in ImvSync and ImvName.)              *)
(***************************************************************************)
EXTENDS Integers, Sequences, FiniteSets

CONSTANTS
  Pid,                \* imvs may get the process id, and so the socket path, of an earlier one
  TrackedKey, Binding,         \* the keys of TRACKING_MAPS, and what the user binds keys to
  CountsTyped,             \* the counts typed before M and m
  Presets,            \* IMV_DELAY_PRESETS_MS
  MaxStarts, MaxMeddles, MaxHeld  \* bounds: imvs, changes by the user, steps of one hold
ASSUME TrackingAssumption ==
  /\ CountsTyped \subseteq Nat /\ Len(Presets) = 8 /\ MaxHeld \in Nat
  /\ "tracking" \notin Binding        \* what tracking binds is not what the user would

VARIABLES
  sockets,             \* imv's sockets: [pid, born]
  ignored, tracked,    \* ignored; socket, <<>> for none
  mapOf, savedMaps,    \* keymaps["browser"], and saved_maps, a function on TrackedKey or on nothing
  preview, savedPreview, \* settings.preview_files, saved_preview as <<value>> or << >>
  burst, progress, held, \* burst_size, burst_progress, held_steps
  presets, delays, slot, \* IMV_DELAY_PRESETS_MS, forward_delays, forward_delay_index + 1
  stopped,             \* observed: the sockets there were when M was pressed, or at the start
  meant,               \* observed: [maps, preview] the user would have without imv
  shorts,              \* observed: delays in a row without a pause
  imvStarts, meddles      \* counted for the bounds
trackVars == <<sockets, ignored, tracked, mapOf, savedMaps, preview, savedPreview, burst, progress,
               held, presets, delays, slot, stopped, meant, shorts, imvStarts, meddles>>
delayVars == <<burst, progress, held, presets, delays, slot, shorts>>

Unbound     == "unbound"
TrackingMap == "tracking"           \* the command that tracking binds to a key
Newest(ss)  == IF ss = {} THEN << >> ELSE <<CHOOSE s \in ss : \A t \in ss : t.born <= s.born>>

-----------------------------------------------------------------------------
(* imv *)

Starts(pid) ==
  /\ imvStarts < MaxStarts /\ imvStarts' = imvStarts + 1 /\ \A s \in sockets : s.pid # pid
  /\ sockets' = sockets \cup {[pid |-> pid, born |-> imvStarts']}
  /\ UNCHANGED <<ignored, tracked, mapOf, savedMaps, preview, savedPreview, delayVars, stopped, meant,
                 meddles>>
Ends(s) ==
  /\ sockets' = sockets \ {s}
  /\ UNCHANGED <<ignored, tracked, mapOf, savedMaps, preview, savedPreview, delayVars, stopped, meant,
                 imvStarts, meddles>>

-----------------------------------------------------------------------------
(* discover, set_socket, apply_preview_mode *)

\* Only the first activation keeps what there was.
HideEachTime == savedPreview' = <<preview>>
Hide == savedPreview' = IF savedPreview = << >> THEN <<preview>> ELSE savedPreview
Retrack(found) ==
  IF found = tracked THEN UNCHANGED <<tracked, mapOf, savedMaps, preview, savedPreview>>
  ELSE /\ tracked' = found
       /\ IF found # << >>
          THEN /\ Hide /\ preview' = IF savedPreview = << >> THEN FALSE ELSE preview
               /\ IF savedMaps = << >> THEN savedMaps' = mapOf /\ mapOf' = [k \in TrackedKey |-> TrackingMap]
                  ELSE UNCHANGED <<mapOf, savedMaps>>
          ELSE /\ savedPreview' = << >>
               /\ preview' = IF savedPreview # << >> THEN savedPreview[1] ELSE preview
               /\ savedMaps' = << >>
               /\ mapOf' = [k \in TrackedKey |-> IF savedMaps # << >> /\ mapOf[k] = TrackingMap
                                          THEN savedMaps[k] ELSE mapOf[k]]
Discovered ==
  /\ ignored' = ignored \cap sockets
  /\ Retrack(Newest(sockets \ ignored'))
  /\ UNCHANGED <<sockets, delayVars, stopped, meant, imvStarts, meddles>>
\* M
StopTracking ==
  /\ ignored' = ignored \cup sockets /\ Retrack(<< >>) /\ stopped' = stopped \cup sockets
  /\ UNCHANGED <<sockets, delayVars, meant, imvStarts, meddles>>

-----------------------------------------------------------------------------
(* The user *)

Meddle == meddles < MaxMeddles /\ meddles' = meddles + 1
\* A key that the user binds is his; a preview he turns on while imv is tracked is for then.
Binds(k, b) ==
  /\ Meddle /\ mapOf' = [mapOf EXCEPT ![k] = b] /\ meant' = [meant EXCEPT !.maps[k] = b]
  /\ UNCHANGED <<sockets, ignored, tracked, savedMaps, preview, savedPreview, delayVars, stopped, imvStarts>>
TogglesPreview ==
  /\ Meddle /\ preview' = ~preview
  /\ meant' = IF tracked = << >> THEN [meant EXCEPT !.preview = ~preview] ELSE meant
  /\ UNCHANGED <<sockets, ignored, tracked, mapOf, savedMaps, savedPreview, delayVars, stopped, imvStarts>>

-----------------------------------------------------------------------------
(* Delays: <count>M, m and <count>m, and the steps of sync_to_imv *)

BurstOf(n) ==
  /\ Meddle /\ n \in 1 .. 9 /\ burst' = n /\ shorts' = 0
  /\ UNCHANGED <<sockets, ignored, tracked, mapOf, savedMaps, preview, savedPreview, progress, held,
                 presets, delays, slot, stopped, meant, imvStarts>>
\* The last preset is that of a count of 0, too; and a count above 9 is kept in the ninth slot.
CycleDelay(n) ==
  /\ Meddle
  /\ CASE n <= Len(presets) ->
              /\ delays' = [delays EXCEPT ![slot] = presets[IF n = 0 THEN Len(presets) ELSE n]]
              /\ UNCHANGED presets
       [] n > 9 -> presets' = SubSeq(presets, 1, 8) \o <<n>> /\ delays' = [delays EXCEPT ![slot] = n]
       [] OTHER -> UNCHANGED <<presets, delays>>
  /\ UNCHANGED <<sockets, ignored, tracked, mapOf, savedMaps, preview, savedPreview, burst, progress,
                 held, slot, stopped, meant, shorts, imvStarts>>
OtherDelay ==
  /\ Meddle /\ slot' = 3 - slot
  /\ UNCHANGED <<sockets, ignored, tracked, mapOf, savedMaps, preview, savedPreview, burst, progress,
                 held, presets, delays, stopped, meant, shorts, imvStarts>>
\* A step is delayed from the third of a hold on; upwards the delay is a fixed one; and while imv
\* shows another directory (elsewhere) no step is, and the burst begins anew.
StepSent(continuous, up, elsewhere) ==
  LET n == IF continuous THEN held + 1 ELSE 0
      p == IF continuous THEN progress ELSE 0
      pauses == burst > 1 /\ p = burst
  IN /\ tracked # << >> /\ n <= MaxHeld /\ held' = n
     /\ progress' = IF elsewhere THEN 0 ELSE IF n >= 2 /\ burst > 1 THEN (p + 1) % (burst + 1) ELSE p
     /\ shorts' = IF ~elsewhere /\ n >= 2 /\ burst > 1 /\ ~pauses /\ ~up THEN shorts + 1 ELSE 0
     /\ UNCHANGED <<sockets, ignored, tracked, mapOf, savedMaps, preview, savedPreview, burst, presets,
                    delays, slot, stopped, meant, imvStarts, meddles>>

TrackingInit ==
  /\ sockets \in SUBSET {[pid |-> p, born |-> 0] : p \in Pid} /\ ignored = sockets /\ tracked = << >>
  /\ mapOf = [k \in TrackedKey |-> Unbound] /\ savedMaps = << >> /\ preview = TRUE /\ savedPreview = << >>
  /\ burst = 3 /\ progress = 0 /\ held = 0
  /\ presets = Presets /\ delays = <<120, 400>> /\ slot = 1
  /\ stopped = sockets /\ meant = [maps |-> mapOf, preview |-> preview] /\ shorts = 0
  /\ imvStarts = 0 /\ meddles = 0
TrackingNext ==
  \/ \E p \in Pid : Starts(p)
  \/ \E s \in sockets : Ends(s)
  \/ Discovered \/ StopTracking \/ TogglesPreview \/ OtherDelay
  \/ \E k \in TrackedKey, b \in Binding : Binds(k, b)
  \/ \E n \in CountsTyped : BurstOf(n) \/ CycleDelay(n)
  \/ \E continuous, up, elsewhere \in BOOLEAN : StepSent(continuous, up, elsewhere)
TrackingSpec == TrackingInit /\ [][TrackingNext]_trackVars

-----------------------------------------------------------------------------
(* Properties *)

\* When no imv is tracked, keys and preview are as the user would have them without imv, whatever
\* he changed meanwhile and however many imvs came and went ("original maps are restored", "only
\* the first activation saves the value"); an imv that was there when M was pressed is not tracked
\* again, though a new one under its process id is; and a burst ends in a pause.
TrackingIsUndone ==
  /\ tracked = << >> => mapOf = meant.maps /\ preview = meant.preview
  /\ tracked # << >> => \A k \in TrackedKey : mapOf[k] \in {TrackingMap, meant.maps[k]}
  /\ \A k \in DOMAIN tracked : tracked[k] \notin stopped
  /\ \A s \in sockets : s \notin stopped => s \notin ignored
  /\ shorts <= burst + 1
=============================================================================
