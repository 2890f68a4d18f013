------------------------- MODULE SensingCountProofs -------------------------
(* CountsExplained of Sensing, for any number of samples, any hold and        *)
(* whatever the contacts and the disturbances do.                             *)
EXTENDS SensingProofs

\* A cycle that is about to be counted.
Pending ==
    /\ cycle # None /\ cycle.position = "generator"
    /\ published.position \in Counting

\* Transfers, and disturbances that look like one, that are not counted yet.
Owed == (transfers + spurious) - (IF Pending THEN count + 1 ELSE count)

\* The next generator position would be counted: a position on the way there is
\* published, about to be, or held.
Waits ==
    \/ published.position \in Counting /\ ~Pending
    \/ cycle # None /\ cycle.position \in Counting
    \/ _bit_pulse(seen)

\* The pulse was seen and the debounce has still to notice the stroke.
Noticing ==
    /\ seen # None /\ fresh < Samples
    /\ \A i \in 1..Samples : i > Samples - fresh => ~reads[i]["on_emergency"]

\* The generator is not what the debounce shows, nor what it is about to show,
\* disturbed reads apart.
Clear == ~stable["on_emergency"] /\ candidate["on_emergency"] <= noise

\* No read shows the generator before the switch arrives there.
Barred == ~Arrived /\ (Noticing \/ Clear)

\* More reads in a row saw the utility, or did not see the generator, than were
\* disturbed: one of them was true.
SawUtility  == ~stable["on_normal"] /\ candidate["on_normal"] > noise
LeftGenerator == stable["on_emergency"] /\ candidate["on_emergency"] > noise

\* What may be counted is owed.
Earned ==
    /\ Owed >= 0
    /\ Waits => Barred \/ Owed >= 1
    /\ stable # None =>
          /\ Arrived /\ (SawUtility \/ LeftGenerator) => Owed >= 1
          /\ /\ Arrived /\ (SawUtility \/ LeftGenerator) /\ stable["on_emergency"]
             /\ Waits /\ (seen = None \/ fresh = Samples)
             => Owed >= 2
          /\ SawUtility /\ ~stable["on_emergency"] => Clear
          /\ stable["on_normal"] /\ ~stable["on_emergency"] /\ (Arrived \/ ~Clear)
               => Owed >= 1

\* CountsExplained is not inductive: the levels, the hold and the cycle carry
\* positions on, and what they may still add to the count must be owed.
AdamCountInv ==
    /\ pulse => stroke
    /\ transfers \in Nat /\ spurious \in Nat /\ noise \in Nat /\ fresh \in 0..Samples
    /\ Waits \/ cycle # None => stable # None
    /\ ~lapsed /\ noise < Samples => Earned

AdamInv == Adam => AdamCountInv

------------------------------------------------------------------------------
(* A read of the ADAM, in terms of its two levels, of whether they are the     *)
(* contacts' and of whether it saw the pulse.                                 *)

\* What a channel settles on, and its counter.
Settles(ch, level) ==
    /\ level \in BOOLEAN
    /\ stable = None => stable'[ch] = level /\ candidate'[ch] = 0
    /\ stable # None =>
          /\ level = stable[ch] => stable'[ch] = stable[ch] /\ candidate'[ch] = 0
          /\ level # stable[ch] /\ candidate[ch] + 1 >= Samples
               => stable'[ch] = level /\ candidate'[ch] = 0
          /\ level # stable[ch] /\ candidate[ch] + 1 < Samples
               => stable'[ch] = stable[ch] /\ candidate'[ch] = candidate[ch] + 1

\* The window of reads, as far as the generator is concerned.
Window(level) ==
    /\ reads'[Samples]["on_emergency"] = level
    /\ stable = None => \A i \in 1..Samples : reads'[i]["on_emergency"] = level
    /\ stable # None => \A i \in 1..Samples : i < Samples => reads'[i] = reads[i + 1]

\* The levels of a disturbed read differ from the contacts' in one of the two.
Disturbs(on, oe, sound) ==
    /\ noise' \in {noise, noise + 1}
    /\ sound => (on <=> rail = "utility" /\ ~stroke) /\ (oe <=> Arrived)
    /\ ~sound => noise' = noise + 1 /\ (on /\ ~oe => ~Arrived)

\* The hold, and what the debounce has had time to notice.
Holds(sound, pulsed) ==
    /\ seen' = IF pulsed THEN 0 ELSE seen
    /\ fresh' = IF ~pulsed /\ fresh = Samples THEN Samples
                ELSE IF ~sound THEN 0
                ELSE IF pulsed THEN 1 ELSE fresh + 1
    /\ seen' = Hold /\ fresh' < Samples => lapsed'
    /\ lapsed => lapsed'
    /\ spurious' \in {spurious, spurious + 1}
    /\ pulsed => pulse \/ spurious' = spurious + 1

\* The position that the cycle then holds.
Shows ==
    /\ cycle' # None /\ stable' # None
    /\ cycle'.position = "transferring" <=> _bit_pulse(seen')
    /\ cycle'.position = "utility" =>
          stable'["on_normal"] /\ ~stable'["on_emergency"]
    /\ cycle'.position = "generator" =>
          stable'["on_emergency"] /\ ~stable'["on_normal"]

Takes(on, oe, sound, pulsed) ==
    /\ cycle = None /\ UNCHANGED <<switch, bits, published, count>>
    /\ Settles("on_normal", on) /\ Settles("on_emergency", oe) /\ Window(oe)
    /\ Disturbs(on, oe, sound) /\ Holds(sound, pulsed) /\ Shows

LEMMA LevelsRead ==
    ASSUME SensingOK, DebounceInv, Adam, fresh \in 0..Samples,
           NEW levels \in LevelReads, NEW disconnect, AdamReads(levels, disconnect)
    PROVE  /\ \A ch \in Levels : Settles(ch, levels[ch])
           /\ Window(levels["on_emergency"]) /\ Shows
<1>1. Samples \in Nat \ {0}
  BY ConstantsAssumption DEF ConstantsAssumption
<1>2. update(levels) /\ Record(levels) /\ cycle' = Snapshot(_bit_pulse(seen'), stable')
  BY DEF AdamReads
<1>3. ASSUME NEW ch \in Levels PROVE Settles(ch, levels[ch])
  <2>1. levels[ch] \in BOOLEAN
    BY DEF LevelReads
  <2>2. CASE stable = None
    BY <1>2, <1>3, <2>1, <2>2 DEF update, Seeded, Settles
  <2>3. CASE stable # None
    <3> DEFINE pending(c) == IF levels[c] = stable[c] THEN 0 ELSE candidate[c] + 1
    <3>1. /\ stable'[ch] = IF pending(ch) >= Samples THEN levels[ch] ELSE stable[ch]
          /\ candidate'[ch] = IF pending(ch) >= Samples THEN 0 ELSE pending(ch)
      BY <1>2, <1>3, <2>3 DEF update, Debounced
    <3>2. candidate[ch] \in Nat
      BY <1>1, <1>3 DEF SensingOK, TypeOK
    <3> QED BY <1>1, <2>1, <2>3, <3>1, <3>2 DEF Settles
  <2> QED BY <2>2, <2>3
<1>4. Window(levels["on_emergency"])
  <2>1. CASE stable = None
    <3>1. reads' = [i \in 1..Samples |-> levels]
      BY <1>2, <2>1 DEF Record, Recorded, DebounceInv
    <3> QED BY <1>1, <2>1, <3>1 DEF Window
  <2>2. CASE stable # None
    BY <1>1, <1>2, <2>2, Reading DEF Window
  <2> QED BY <2>1, <2>2
<1>5. stable' \in LevelReads /\ stable' # None
  <2>1. CASE stable = None
    BY <1>2, <2>1, ConstantsAssumption DEF update, Seeded, LevelReads, ConstantsAssumption
  <2>2. CASE stable # None
    <3>1. stable' \in LevelReads
      BY <1>2, <2>2 DEF update, Debounced, LevelReads, SensingOK, TypeOK
    <3> QED BY <3>1, ConstantsAssumption DEF ConstantsAssumption, LevelReads
  <2> QED BY <2>1, <2>2
<1>6. Shows
  <2>1. stable'["on_normal"] \in BOOLEAN /\ stable'["on_emergency"] \in BOOLEAN
    BY <1>5 DEF LevelReads, Levels
  <2>2. cycle'.position = Decoded(_bit_pulse(seen'), stable')
    BY <1>2 DEF Snapshot
  <2>3. cycle' \in InputSnapshot /\ cycle' # None
    BY <2>1, <1>2, ConstantsAssumption
    DEF Snapshot, Decoded, InputSnapshot, Positions, Rails, ConstantsAssumption
  <2> QED BY <1>5, <2>1, <2>2, <2>3 DEF Shows, Decoded
<1> QED BY <1>3, <1>4, <1>6

LEMMA ReadTaken ==
    ASSUME SensingOK, DebounceInv, Adam, noise \in Nat, fresh \in 0..Samples,
           ReadInputs \/ ReadInputsDisturbed
    PROVE  \E on \in BOOLEAN, oe \in BOOLEAN, sound \in BOOLEAN, pulsed \in BOOLEAN :
              Takes(on, oe, sound, pulsed)
<1>1. /\ rail \in Rails /\ stroke \in BOOLEAN /\ pulse \in BOOLEAN
      /\ cycle = None /\ UNCHANGED <<switch, bits, published, count>>
  BY DEF SensingOK, TypeOK, ReadInputs, ReadInputsDisturbed
<1>2. /\ Contacts["on_normal"] <=> rail = "utility" /\ ~stroke
      /\ Contacts["on_emergency"] <=> Arrived
      /\ Contacts \in LevelReads
      /\ \A ch \in Levels : Flipped(Contacts, ch) \in LevelReads
  BY ContactLevels DEF Contacts, Arrived
<1>3. ASSUME NEW levels \in LevelReads, NEW pulsed \in BOOLEAN, NEW sound \in BOOLEAN,
             AdamReads(levels, pulsed), sound <=> levels = Contacts,
             Disturbs(levels["on_normal"], levels["on_emergency"], sound),
             spurious' \in {spurious, spurious + 1}, pulsed => pulse \/ spurious' = spurious + 1
      PROVE  \E on \in BOOLEAN, oe \in BOOLEAN, snd \in BOOLEAN, pls \in BOOLEAN :
                Takes(on, oe, snd, pls)
  <2>1. Holds(sound, pulsed)
    BY <1>3 DEF AdamReads, Holds
  <2>2. levels["on_normal"] \in BOOLEAN /\ levels["on_emergency"] \in BOOLEAN
    BY DEF LevelReads, Levels
  <2>3. /\ Settles("on_normal", levels["on_normal"])
        /\ Settles("on_emergency", levels["on_emergency"])
        /\ Window(levels["on_emergency"]) /\ Shows
    BY <1>3, LevelsRead DEF Levels
  <2>4. Takes(levels["on_normal"], levels["on_emergency"], sound, pulsed)
    BY <1>1, <1>3, <2>1, <2>3 DEF Takes
  <2> QED BY <2>2, <2>4
<1>4. CASE AdamRead
  <2> DEFINE levels == Contacts
             pulsed == pulse
             sound == TRUE
  <2>1. /\ AdamReads(levels, pulsed) /\ (sound <=> levels = Contacts)
        /\ Disturbs(levels["on_normal"], levels["on_emergency"], sound)
        /\ spurious' \in {spurious, spurious + 1} /\ (pulsed => pulse)
    BY <1>2, <1>4 DEF AdamRead, Disturbs
  <2>2. levels \in LevelReads /\ pulsed \in BOOLEAN /\ sound \in BOOLEAN
    BY <1>1, <1>2
  <2> HIDE DEF levels, pulsed, sound
  <2> QED BY <1>3, <2>1, <2>2
<1>5. ASSUME NEW ch \in Levels, AdamReads(Flipped(Contacts, ch), pulse),
             noise' = noise + 1, spurious' = spurious
      PROVE  \E on \in BOOLEAN, oe \in BOOLEAN, sound \in BOOLEAN, pulsed \in BOOLEAN :
                Takes(on, oe, sound, pulsed)
  <2> DEFINE levels == Flipped(Contacts, ch)
             pulsed == pulse
             sound == FALSE
  <2>1. /\ levels[ch] <=> ~Contacts[ch]
        /\ \A c \in Levels : c # ch => levels[c] = Contacts[c]
        /\ levels # Contacts
    BY <1>2 DEF Flipped, LevelReads
  <2>2. Disturbs(levels["on_normal"], levels["on_emergency"], sound)
    <3>1. /\ Arrived => ~Contacts["on_normal"]
          /\ "on_normal" \in Levels /\ "on_emergency" \in Levels
          /\ ch = "on_normal" \/ ch = "on_emergency"
      BY <1>2 DEF Arrived, Levels
    <3>2. CASE ch = "on_normal"
      <4>1. (levels["on_normal"] <=> ~Contacts["on_normal"]) 
              /\ (levels["on_emergency"] <=> Contacts["on_emergency"])
        BY <2>1, <3>1, <3>2
      <4> HIDE DEF levels
      <4> QED BY <1>2, <1>5, <3>1, <4>1 DEF Disturbs
    <3>3. CASE ch = "on_emergency"
      <4>1. (levels["on_normal"] <=> Contacts["on_normal"]) 
              /\ (levels["on_emergency"] <=> ~Contacts["on_emergency"])
        BY <2>1, <3>1, <3>3
      <4> HIDE DEF levels
      <4> QED BY <1>2, <1>5, <3>1, <4>1 DEF Disturbs
    <3> QED BY <3>1, <3>2, <3>3
  <2>3. /\ AdamReads(levels, pulsed) /\ (sound <=> levels = Contacts)
        /\ spurious' \in {spurious, spurious + 1} /\ (pulsed => pulse)
    BY <1>5, <2>1
  <2>4. levels \in LevelReads /\ pulsed \in BOOLEAN /\ sound \in BOOLEAN
    BY <1>1, <1>2
  <2> HIDE DEF levels, pulsed, sound
  <2> QED BY <1>3, <2>2, <2>3, <2>4
<1>6. ASSUME AdamReads(Contacts, ~pulse), noise' = noise + 1,
             spurious' = IF pulse THEN spurious ELSE spurious + 1
      PROVE  \E on \in BOOLEAN, oe \in BOOLEAN, sound \in BOOLEAN, pulsed \in BOOLEAN :
                Takes(on, oe, sound, pulsed)
  <2> DEFINE levels == Contacts
             pulsed == ~pulse
             sound == TRUE
  <2>1. /\ AdamReads(levels, pulsed) /\ (sound <=> levels = Contacts)
        /\ Disturbs(levels["on_normal"], levels["on_emergency"], sound)
        /\ spurious' \in {spurious, spurious + 1}
        /\ (pulsed => pulse \/ spurious' = spurious + 1)
    BY <1>2, <1>6 DEF Disturbs
  <2>2. levels \in LevelReads /\ pulsed \in BOOLEAN /\ sound \in BOOLEAN
    BY <1>1, <1>2
  <2> HIDE DEF levels, pulsed, sound
  <2> QED BY <1>3, <2>1, <2>2
<1> QED
  BY <1>4, <1>5, <1>6
  DEF ReadInputs, ReadInputsDisturbed, AscoRead, AscoReadShort, AdamReadNoisy

------------------------------------------------------------------------------
(* What a read does to the invariant.                                        *)

\* Types that the steps below need.
Scalars ==
    /\ Samples \in Nat \ {0} /\ transfers \in Nat /\ spurious \in Nat /\ noise \in Nat
    /\ count \in Nat /\ fresh \in 0..Samples
    /\ candidate["on_normal"] \in Nat /\ candidate["on_emergency"] \in Nat
    /\ stable # None => stable["on_normal"] \in BOOLEAN /\ stable["on_emergency"] \in BOOLEAN

LEMMA ScalarsTyped ==
    ASSUME SensingOK, transfers \in Nat, spurious \in Nat, noise \in Nat, fresh \in 0..Samples
    PROVE  Scalars
BY ConstantsAssumption DEF ConstantsAssumption, Scalars, SensingOK, TypeOK, Levels

\* A window without the generator is one that the debounce has noticed.
Unseen == stable # None /\ \A i \in 1..Samples : ~reads[i]["on_emergency"]

Gone == ~stable["on_emergency"] /\ candidate["on_emergency"] = 0

LEMMA NoneInWindow == DebounceInv /\ Unseen => Gone
<1> SUFFICES ASSUME DebounceInv, Unseen PROVE Gone
  OBVIOUS
<1>0. Samples \in Nat \ {0} /\ stable # None
      /\ \A i \in 1..Samples : ~reads[i]["on_emergency"]
  BY ConstantsAssumption DEF ConstantsAssumption, Unseen
<1>1. "on_emergency" \in Levels
  BY DEF Levels
<1>2. /\ candidate["on_emergency"] \in 0..(Samples - 1)
      /\ reads[Samples - candidate["on_emergency"]]["on_emergency"] = stable["on_emergency"]
      /\ \A i \in 1..Samples : i > Samples - candidate["on_emergency"]
            => reads[i]["on_emergency"] # stable["on_emergency"]
  BY <1>0, <1>1 DEF DebounceInv, Counts
<1>3. \A i \in 1..Samples : reads[i]["on_emergency"] = FALSE
  BY <1>0, <1>1 DEF DebounceInv, LevelReads
<1>4. stable["on_emergency"] = FALSE
  <2>1. Samples - candidate["on_emergency"] \in 1..Samples
    BY <1>0, <1>2
  <2> QED BY <1>2, <1>3, <2>1
<1>5. reads[Samples]["on_emergency"] = FALSE /\ Samples \in 1..Samples
  BY <1>0, <1>3
<1>6. ~(Samples > Samples - candidate["on_emergency"])
  BY <1>2, <1>4, <1>5
<1> QED BY <1>0, <1>2, <1>4, <1>6 DEF Gone

\* Disturbed reads alone do not flip a level that they would make up.
LEMMA NotMadeUp ==
    ASSUME Scalars, stable # None, noise' < Samples, noise' \in {noise, noise + 1},
           NEW ch \in Levels, NEW level, Settles(ch, level), candidate[ch] <= noise,
           level # stable[ch] => noise' = noise + 1
    PROVE  stable'[ch] = stable[ch] /\ candidate'[ch] <= noise'
<1>1. candidate[ch] \in Nat
  BY DEF Scalars, Levels
<1> QED BY <1>1 DEF Settles, Scalars

\* The switch not having arrived, no read shows the generator, unless a
\* disturbance looks like a pulse or the hold lapses.
LEMMA BarredKept ==
    ASSUME Scalars, DebounceInv', stable # None, Barred,
           NEW on \in BOOLEAN, NEW oe \in BOOLEAN, NEW sound \in BOOLEAN, NEW pulsed \in BOOLEAN,
           Takes(on, oe, sound, pulsed), ~lapsed', noise' < Samples,
           seen # None => seen \in 0..Hold
    PROVE  Barred' /\ cycle'.position # "generator"
<1>0. /\ ~Arrived /\ ~Arrived' /\ stable' # None /\ Samples \in Nat \ {0}
      /\ Hold \in Nat /\ None \notin Nat
  BY ConstantsAssumption
  DEF Barred, Takes, Shows, Scalars, Arrived, switch, ConstantsAssumption
<1>1. sound => ~oe
  BY <1>0 DEF Takes, Disturbs
<1>2. ~Clear' \/ cycle'.position # "generator"
  BY DEF Clear, Takes, Shows
<1>3. CASE Clear
  <2>1. /\ Settles("on_emergency", oe) /\ noise' \in {noise, noise + 1}
        /\ oe # stable["on_emergency"] => noise' = noise + 1
    BY <1>1, <1>3 DEF Takes, Disturbs, Clear, Scalars
  <2>2. stable'["on_emergency"] = stable["on_emergency"]
        /\ candidate'["on_emergency"] <= noise'
    BY <1>3, <2>1, NotMadeUp DEF Clear, Levels
  <2>3. Clear'
    BY <1>3, <2>2 DEF Clear
  <2> QED BY <1>0, <1>2, <2>3 DEF Barred
<1>4. CASE Noticing
  <2>1. seen' # None /\ (seen' = 0 \/ seen' = seen) /\ seen' \in 0..Hold
    BY <1>0, <1>4 DEF Noticing, Takes, Holds
  <2>2. CASE fresh' < Samples
    <3>1. _bit_pulse(seen')
      BY <1>0, <2>1, <2>2 DEF Takes, Holds, _bit_pulse
    <3>2. cycle'.position = "transferring"
      BY <3>1 DEF Takes, Shows
    <3>3. fresh' \in {0, 1} \/ (fresh' = fresh + 1 /\ sound)
      BY <1>4 DEF Noticing, Takes, Holds, Scalars
    <3>4. fresh' # 0 => sound
      BY <1>0, <1>4, <2>2 DEF Noticing, Takes, Holds, Scalars
    <3>5. ASSUME NEW i \in 1..Samples, i > Samples - fresh'
          PROVE  ~reads'[i]["on_emergency"]
      <4>1. fresh' # 0 /\ sound /\ ~oe
        BY <1>0, <1>1, <3>3, <3>4, <3>5
      <4>2. CASE i = Samples
        BY <4>1, <4>2 DEF Takes, Window
      <4>3. CASE i < Samples
        <5>1. fresh' = fresh + 1
          BY <1>0, <3>3, <3>5, <4>3 DEF Scalars
        <5>2. i + 1 \in 1..Samples /\ i + 1 > Samples - fresh
          BY <1>0, <3>5, <4>3, <5>1 DEF Scalars
        <5>3. ~reads[i + 1]["on_emergency"]
          BY <1>4, <5>2 DEF Noticing
        <5>4. reads'[i] = reads[i + 1]
          BY <4>3 DEF Takes, Window
        <5> QED BY <5>3, <5>4
      <4> QED BY <1>0, <4>2, <4>3
    <3>6. Noticing'
      BY <2>1, <2>2, <3>5, <1>0 DEF Noticing
    <3> QED BY <1>0, <3>2, <3>6 DEF Barred
  <2>3. CASE ~(fresh' < Samples)
    <3>1. sound /\ ~oe /\ fresh' = Samples /\ (fresh = Samples - 1 \/ Samples = 1)
      BY <1>0, <1>1, <1>4, <2>3 DEF Noticing, Takes, Holds, Scalars
    <3>2. ASSUME NEW i \in 1..Samples PROVE ~reads'[i]["on_emergency"]
      <4>1. CASE i = Samples
        BY <3>1, <4>1 DEF Takes, Window
      <4>2. CASE i < Samples
        <5>1. i + 1 \in 1..Samples /\ i + 1 > Samples - fresh
          BY <1>0, <3>1, <4>2
        <5>2. ~reads[i + 1]["on_emergency"]
          BY <1>4, <5>1 DEF Noticing
        <5>3. reads'[i] = reads[i + 1]
          BY <4>2 DEF Takes, Window
        <5> QED BY <5>2, <5>3
      <4> QED BY <1>0, <4>1, <4>2
    <3>3. ~stable'["on_emergency"] /\ candidate'["on_emergency"] = 0
      <4>1. DebounceInv' /\ Unseen'
        BY <1>0, <3>2 DEF Unseen
      <4>2. Gone'
        BY <4>1, NoneInWindow, PTL
      <4> QED BY <4>2 DEF Gone
    <3>4. Clear'
      BY <3>3 DEF Clear, Scalars, Takes, Disturbs
    <3> QED BY <1>0, <1>2, <3>4 DEF Barred
  <2> QED BY <2>2, <2>3
<1> QED BY <1>3, <1>4 DEF Barred

\* The pulse was there to see, so the switch is on its way.
LEMMA PulseBars ==
    ASSUME Scalars, DebounceInv', pulse => stroke, pulse,
           NEW on \in BOOLEAN, NEW oe \in BOOLEAN, NEW sound \in BOOLEAN, NEW pulsed \in BOOLEAN,
           Takes(on, oe, sound, pulsed), pulsed, noise' < Samples
    PROVE  Barred'
<1>0. /\ ~Arrived /\ ~Arrived' /\ stable' # None /\ Samples \in Nat \ {0}
      /\ 0 \in Nat /\ None \notin Nat /\ noise' \in Nat
  BY ConstantsAssumption
  DEF Takes, Shows, Scalars, Arrived, switch, ConstantsAssumption, Disturbs
<1>1. /\ seen' = 0 /\ seen' # None /\ fresh' = (IF sound THEN 1 ELSE 0)
      /\ reads'[Samples]["on_emergency"] = oe
      /\ sound => ~oe
  BY <1>0 DEF Takes, Holds, Window, Disturbs
<1>2. CASE fresh' < Samples
  <2>1. ASSUME NEW i \in 1..Samples, i > Samples - fresh' PROVE ~reads'[i]["on_emergency"]
    <3>1. i = Samples /\ sound
      BY <1>0, <1>1, <2>1
    <3> QED BY <1>1, <3>1
  <2> QED BY <1>0, <1>1, <1>2, <2>1 DEF Noticing, Barred
<1>3. CASE ~(fresh' < Samples)
  <2>1. Samples = 1 /\ sound
    BY <1>0, <1>1, <1>3
  <2>2. Unseen'
    BY <1>0, <1>1, <2>1 DEF Unseen
  <2>3. Gone'
    BY <2>2, NoneInWindow, PTL
  <2> QED BY <1>0, <2>3 DEF Gone, Clear, Barred
<1> QED BY <1>2, <1>3

\* A counter that is not zero has grown; a level that flips had a full one.
Moves(ch, level) ==
    /\ candidate'[ch] \in Nat
    /\ candidate'[ch] # 0 =>
          /\ level <=> ~stable[ch]
          /\ stable'[ch] <=> stable[ch]
          /\ candidate'[ch] = candidate[ch] + 1
    /\ ~(stable'[ch] <=> stable[ch]) =>
          /\ level <=> ~stable[ch]
          /\ candidate[ch] + 1 >= Samples /\ candidate'[ch] = 0

LEMMA ChannelMoves ==
    ASSUME Scalars, stable # None, NEW ch \in Levels, NEW level \in BOOLEAN, Settles(ch, level)
    PROVE  Moves(ch, level)
<1>1. candidate[ch] \in Nat /\ stable[ch] \in BOOLEAN /\ Samples \in Nat \ {0}
  BY DEF Scalars, Levels
<1>2. CASE level = stable[ch]
  BY <1>1, <1>2 DEF Settles, Moves
<1>3. CASE level # stable[ch] /\ candidate[ch] + 1 >= Samples
  BY <1>1, <1>3 DEF Settles, Moves
<1>4. CASE level # stable[ch] /\ candidate[ch] + 1 < Samples
  BY <1>1, <1>4 DEF Settles, Moves
<1> QED BY <1>1, <1>2, <1>3, <1>4

\* What a read does to what is owed.
LEMMA OwedRead ==
    ASSUME Scalars, NEW on \in BOOLEAN, NEW oe \in BOOLEAN, NEW sound \in BOOLEAN,
           NEW pulsed \in BOOLEAN, Takes(on, oe, sound, pulsed)
    PROVE  /\ Owed \in Int /\ Owed' \in Int
           /\ ~Pending' => Owed' >= Owed
           /\ ~Pending' /\ spurious' = spurious + 1 => Owed' = Owed + 1
           /\ Pending' => Owed' >= Owed - 1
           /\ Pending' /\ spurious' = spurious + 1 => Owed' = Owed
           /\ Pending' <=> cycle'.position = "generator" /\ published.position \in Counting
           /\ published.position \in Counting => Waits
           /\ Waits' => \/ published.position \in Counting
                        \/ cycle'.position = "utility" \/ _bit_pulse(seen')
           /\ Waits' => ~Pending'
<1>1. /\ cycle = None /\ cycle' # None /\ published' = published /\ count' = count
      /\ transfers' = transfers /\ spurious' \in {spurious, spurious + 1}
      /\ cycle'.position = "transferring" <=> _bit_pulse(seen')
  BY DEF Takes, Shows, Holds, switch
<1>2. ~Pending /\ (Pending' <=> cycle'.position = "generator"
                                  /\ published.position \in Counting)
  BY <1>1 DEF Pending
<1>3. Owed = (transfers + spurious) - count
  BY <1>2 DEF Owed
<1>4. Owed' = (transfers + spurious') - (IF Pending' THEN count + 1 ELSE count)
  BY <1>1 DEF Owed
<1>5. published.position \in Counting => Waits
  BY <1>2 DEF Waits
<1>6. Waits' => \/ published.position \in Counting
                \/ cycle'.position = "utility" \/ _bit_pulse(seen')
  BY <1>1 DEF Waits, Counting
<1>7. Waits' => ~Pending'
  BY <1>1, <1>2 DEF Waits, Counting
<1>8. /\ transfers \in Nat /\ spurious \in Nat /\ count \in Nat /\ spurious' \in Nat
      /\ spurious' >= spurious
  BY <1>1 DEF Scalars
<1>9. ASSUME Pending' PROVE Owed' = (transfers + spurious') - (count + 1)
  BY <1>4, <1>9
<1>10. ASSUME ~Pending' PROVE Owed' = (transfers + spurious') - count
  BY <1>4, <1>10
<1>11. Owed \in Int /\ Owed' \in Int
  BY <1>3, <1>8, <1>9, <1>10
<1>12. /\ ~Pending' => Owed' >= Owed
       /\ ~Pending' /\ spurious' = spurious + 1 => Owed' = Owed + 1
  BY <1>3, <1>8, <1>10
<1>13. /\ Pending' => Owed' >= Owed - 1
       /\ Pending' /\ spurious' = spurious + 1 => Owed' = Owed
  BY <1>3, <1>8, <1>9
<1> QED BY <1>2, <1>5, <1>6, <1>7, <1>11, <1>12, <1>13

\* Where the switch has arrived, evidence that it was away is older than this
\* read, which was disturbed; it is lost once the generator's level is off.
LEMMA OldEvidence ==
    ASSUME Scalars, stable # None, Arrived,
           NEW on \in BOOLEAN, NEW oe \in BOOLEAN, NEW sound \in BOOLEAN, NEW pulsed \in BOOLEAN,
           Takes(on, oe, sound, pulsed), noise' < Samples,
           SawUtility /\ ~stable["on_emergency"] => Clear,
           SawUtility' \/ LeftGenerator'
    PROVE  /\ ~sound /\ (SawUtility \/ LeftGenerator)
           /\ stable'["on_emergency"] => stable["on_emergency"]
<1>1. Moves("on_normal", on) /\ Moves("on_emergency", oe)
  BY ChannelMoves DEF Takes, Levels
<1>2. /\ noise' \in {noise, noise + 1} /\ (sound => ~on /\ oe) /\ (~sound => noise' = noise + 1)
  BY DEF Takes, Disturbs, Arrived
<1>3. CASE SawUtility'
  <2>1. on /\ ~stable["on_normal"] /\ candidate'["on_normal"] = candidate["on_normal"] + 1
    BY <1>1, <1>2, <1>3 DEF SawUtility, Moves, Scalars
  <2>2. ~sound /\ SawUtility
    BY <1>2, <1>3, <2>1 DEF SawUtility, Scalars
  <2>3. stable'["on_emergency"] => stable["on_emergency"]
    BY <1>1, <1>2, <2>2 DEF Moves, Clear, Scalars
  <2> QED BY <2>2, <2>3
<1>4. CASE LeftGenerator'
  <2>1. ~oe /\ stable["on_emergency"]
          /\ candidate'["on_emergency"] = candidate["on_emergency"] + 1
    BY <1>1, <1>2, <1>4 DEF LeftGenerator, Moves, Scalars
  <2>2. ~sound /\ LeftGenerator
    BY <1>2, <1>4, <2>1 DEF LeftGenerator, Scalars
  <2> QED BY <2>1, <2>2
<1> QED BY <1>3, <1>4

\* The invariant after a read that is not the first one.
LEMMA EarnedRead ==
    ASSUME Scalars, DebounceInv', stable # None, pulse => stroke, Earned,
           seen # None => seen \in 0..Hold,
           NEW on \in BOOLEAN, NEW oe \in BOOLEAN, NEW sound \in BOOLEAN, NEW pulsed \in BOOLEAN,
           Takes(on, oe, sound, pulsed), ~lapsed', noise' < Samples
    PROVE  Earned'
<1>0. /\ Samples \in Nat \ {0} /\ Hold \in Nat /\ None \notin Nat /\ stable' # None
      /\ Owed \in Int /\ Owed' \in Int /\ (Arrived' <=> Arrived)
      /\ Owed >= 0
  BY ConstantsAssumption, OwedRead
  DEF Takes, Shows, Scalars, Arrived, switch, ConstantsAssumption, Earned
<1>1. Moves("on_normal", on) /\ Moves("on_emergency", oe)
  BY ChannelMoves DEF Takes, Levels
<1>2. /\ noise' \in {noise, noise + 1}
      /\ sound => (on <=> rail = "utility" /\ ~stroke) /\ (oe <=> Arrived)
      /\ sound => ~(on /\ oe)
      /\ Arrived => (sound => ~on /\ oe)
      /\ ~sound => noise' = noise + 1
  BY DEF Takes, Disturbs, Arrived
<1>3. /\ Arrived /\ (SawUtility \/ LeftGenerator) => Owed >= 1
      /\ SawUtility /\ ~stable["on_emergency"] => Clear
      /\ stable["on_normal"] /\ ~stable["on_emergency"] /\ (Arrived \/ ~Clear) => Owed >= 1
  BY DEF Earned
\* The pulse does not hide an arrival of which there is evidence.
<1>4. ASSUME Arrived, SawUtility' \/ LeftGenerator', ~_bit_pulse(seen') \/ seen' = seen,
             stable'["on_emergency"], Waits, fresh' = Samples \/ seen' = None \/ ~_bit_pulse(seen')
      PROVE  Owed >= 2
  <2>1. ~sound /\ stable["on_emergency"] /\ (SawUtility \/ LeftGenerator)
    BY <1>3, <1>4, OldEvidence
  <2>2. seen = None \/ fresh = Samples
    <3>1. CASE seen' = None \/ fresh' = Samples
      BY <1>0, <2>1, <3>1 DEF Takes, Holds, Scalars
    <3>2. CASE seen' # None /\ fresh' # Samples
      <4>1. seen' = Hold
        BY <1>0, <1>4, <3>2 DEF Takes, Holds, _bit_pulse
      <4>2. fresh' < Samples
        BY <1>0, <2>1, <3>2 DEF Takes, Holds, Scalars
      <4> QED BY <4>1, <4>2 DEF Takes, Holds
    <3> QED BY <3>1, <3>2
  <2> QED BY <1>4, <2>1, <2>2 DEF Earned
<1>5. Arrived' /\ (SawUtility' \/ LeftGenerator') => Owed' >= 1
  <2> SUFFICES ASSUME Arrived, SawUtility' \/ LeftGenerator' PROVE Owed' >= 1
    BY <1>0
  <2>1. Owed >= 1
    BY <1>3, OldEvidence
  <2>2. CASE ~Pending'
    BY <1>0, <2>1, <2>2, OwedRead
  <2>3. CASE Pending'
    <3>1. cycle'.position = "generator" /\ Waits
      BY <2>3, OwedRead
    <3>2. ~_bit_pulse(seen') /\ stable'["on_emergency"]
      BY <3>1 DEF Takes, Shows
    <3>3. Owed >= 2
      BY <1>4, <3>1, <3>2
    <3> QED BY <1>0, <2>3, <3>3, OwedRead
  <2> QED BY <2>2, <2>3
<1>6. /\ Arrived' /\ (SawUtility' \/ LeftGenerator') /\ stable'["on_emergency"]
      /\ Waits' /\ (seen' = None \/ fresh' = Samples)
      => Owed' >= 2
  <2> SUFFICES ASSUME Arrived, SawUtility' \/ LeftGenerator', stable'["on_emergency"],
                      Waits', seen' = None \/ fresh' = Samples
               PROVE  Owed' >= 2
    BY <1>0
  <2>1. ~sound
    BY <1>3, OldEvidence
  <2>2. seen' = seen
    BY <1>0, <2>1 DEF Takes, Holds, Scalars
  <2>3. Waits
    <3>1. cycle'.position # "utility"
      BY DEF Takes, Shows
    <3> QED BY <2>2, <3>1, OwedRead DEF Waits
  <2>4. Owed >= 2
    BY <1>4, <2>2, <2>3
  <2> QED BY <1>0, <2>4, OwedRead
<1>7. SawUtility' /\ ~stable'["on_emergency"] => Clear'
  <2> SUFFICES ASSUME SawUtility', ~stable'["on_emergency"] PROVE Clear'
    OBVIOUS
  <2>1. on /\ ~stable["on_normal"] /\ candidate'["on_normal"] = candidate["on_normal"] + 1
    BY <1>1, <1>2 DEF SawUtility, Moves, Scalars
  <2>2. CASE candidate'["on_emergency"] = 0
    BY <1>2, <2>2 DEF Clear, Scalars
  <2>3. CASE candidate'["on_emergency"] # 0
    <3>1. oe /\ ~stable["on_emergency"]
            /\ candidate'["on_emergency"] = candidate["on_emergency"] + 1
      BY <1>1, <2>3 DEF Moves, Scalars
    <3>2. noise' = noise + 1
      BY <1>2, <2>1, <3>1
    <3>3. SawUtility
      BY <2>1, <3>2 DEF SawUtility, Scalars
    <3> QED BY <1>3, <3>1, <3>2, <3>3 DEF Clear, Scalars
  <2> QED BY <2>2, <2>3
<1>8. stable'["on_normal"] /\ ~stable'["on_emergency"] /\ (Arrived' \/ ~Clear') => Owed' >= 1
  <2> SUFFICES ASSUME stable'["on_normal"], ~stable'["on_emergency"], Arrived \/ ~Clear'
               PROVE  Owed' >= 1
    BY <1>0
  <2>1. ~Pending'
    BY OwedRead DEF Takes, Shows
  <2>2. Owed >= 1
    <3>1. CASE Arrived
      <4>1. CASE stable["on_normal"] /\ ~stable["on_emergency"]
        BY <1>3, <3>1, <4>1
      <4>2. CASE ~stable["on_normal"]
        <5>1. on /\ candidate["on_normal"] + 1 >= Samples
          BY <1>1, <4>2 DEF Moves
        <5>2. SawUtility
          BY <1>0, <1>2, <3>1, <4>2, <5>1 DEF SawUtility, Scalars
        <5> QED BY <1>3, <3>1, <5>2
      <4>3. CASE stable["on_emergency"]
        <5>1. ~oe /\ candidate["on_emergency"] + 1 >= Samples
          BY <1>1, <4>3 DEF Moves
        <5>2. LeftGenerator
          BY <1>0, <1>2, <3>1, <4>3, <5>1 DEF LeftGenerator, Scalars
        <5> QED BY <1>3, <3>1, <5>2
      <4> QED BY <4>1, <4>2, <4>3
    <3>2. CASE ~Arrived
      <4>1. candidate'["on_emergency"] > noise'
        BY <1>1, <1>2, <3>2 DEF Clear, Moves, Scalars
      <4>2. oe /\ ~stable["on_emergency"]
              /\ candidate'["on_emergency"] = candidate["on_emergency"] + 1
        BY <1>1, <1>2, <4>1 DEF Moves, Scalars
      <4>3. noise' = noise + 1 /\ ~Clear
        BY <1>2, <3>2, <4>1, <4>2 DEF Clear, Scalars
      <4>4. CASE stable["on_normal"]
        BY <1>3, <4>2, <4>3, <4>4
      <4>5. CASE ~stable["on_normal"]
        <5>1. candidate["on_normal"] + 1 >= Samples
          BY <1>1, <4>5 DEF Moves
        <5>2. SawUtility
          BY <1>0, <4>3, <4>5, <5>1 DEF SawUtility, Scalars
        <5> QED BY <1>3, <4>2, <4>3, <5>2
      <4> QED BY <4>4, <4>5
    <3> QED BY <3>1, <3>2
  <2> QED BY <1>0, <2>1, <2>2, OwedRead
<1>9. Owed' >= 0 /\ (Waits' => Barred' \/ Owed' >= 1)
  <2>1. CASE Waits /\ spurious' = spurious + 1
    BY <1>0, <2>1, OwedRead
  <2>2. CASE Waits /\ ~Barred
    <3>1. Owed >= 1
      BY <2>2 DEF Earned
    <3> QED BY <1>0, <3>1, OwedRead
  <2>3. CASE Waits /\ Barred
    <3>1. Barred' /\ cycle'.position # "generator"
      BY <2>3, BarredKept
    <3> QED BY <1>0, <3>1, OwedRead
  <2>4. CASE ~Waits
    <3>1. published.position \notin Counting /\ ~Pending' /\ ~_bit_pulse(seen)
      BY <2>4, OwedRead DEF Waits
    <3>2. Owed' >= 0
      BY <1>0, <3>1, OwedRead
    <3>3. CASE cycle'.position = "utility"
      <4>1. Owed' >= 1 \/ (~Arrived /\ Clear')
        BY <1>0, <1>8, <3>3 DEF Takes, Shows
      <4> QED BY <1>0, <3>2, <4>1 DEF Barred
    <3>4. CASE _bit_pulse(seen')
      <4>1. pulsed
        BY <3>1, <3>4 DEF Takes, Holds
      <4>2. CASE spurious' = spurious + 1
        BY <1>0, <3>1, <3>2, <4>2, OwedRead
      <4>3. CASE pulse
        BY <3>2, <4>1, <4>3, PulseBars
      <4> QED BY <4>1, <4>2, <4>3 DEF Takes, Holds
    <3> QED BY <3>1, <3>2, <3>3, <3>4, OwedRead
  <2> QED BY <2>1, <2>2, <2>3, <2>4
<1> QED BY <1>5, <1>6, <1>7, <1>8, <1>9 DEF Earned

\* The invariant after the first read, the baseline.
LEMMA EarnedFirst ==
    ASSUME Scalars, DebounceInv', stable = None, pulse => stroke, ~Waits, Owed >= 0,
           NEW on \in BOOLEAN, NEW oe \in BOOLEAN, NEW sound \in BOOLEAN, NEW pulsed \in BOOLEAN,
           Takes(on, oe, sound, pulsed), ~lapsed', noise' < Samples
    PROVE  Earned'
<1>0. /\ Owed \in Int /\ Owed' \in Int /\ (Arrived' <=> Arrived)
      /\ noise' \in Nat
  BY OwedRead DEF Takes, Disturbs, Scalars, Arrived, switch
<1>1. /\ stable'["on_normal"] = on /\ candidate'["on_normal"] = 0
      /\ stable'["on_emergency"] = oe /\ candidate'["on_emergency"] = 0
  BY DEF Takes, Settles
<1>2. ~SawUtility' /\ ~LeftGenerator' /\ (~oe => Clear')
  BY <1>0, <1>1 DEF SawUtility, LeftGenerator, Clear
<1>3. on /\ ~oe => ~Arrived
  BY DEF Takes, Disturbs, Arrived
<1>4. published.position \notin Counting /\ ~Pending' /\ ~_bit_pulse(seen)
  BY OwedRead DEF Waits
<1>5. Owed' >= 0
  BY <1>0, <1>4, OwedRead
<1>6. Waits' => Barred' \/ Owed' >= 1
  <2>1. CASE cycle'.position = "utility"
    <3>1. on /\ ~oe
      BY <1>1, <2>1 DEF Takes, Shows
    <3> QED BY <1>0, <1>2, <1>3, <3>1 DEF Barred
  <2>2. CASE _bit_pulse(seen')
    <3>1. pulsed
      BY <1>4, <2>2 DEF Takes, Holds
    <3>2. CASE spurious' = spurious + 1
      BY <1>0, <1>4, <1>5, <3>2, OwedRead
    <3>3. CASE pulse
      BY <3>1, <3>3, PulseBars
    <3> QED BY <3>1, <3>2, <3>3 DEF Takes, Holds
  <2> QED BY <1>4, <2>1, <2>2, OwedRead
<1> QED BY <1>0, <1>1, <1>2, <1>3, <1>5, <1>6 DEF Earned

------------------------------------------------------------------------------
(* The other steps.                                                          *)

\* What the invariant says of the levels, the counters and the hold stays.
Rests == UNCHANGED <<stable, candidate, reads, noise, fresh, spurious, lapsed, bits>>

\* The switch moves: it arrives at the generator with a transfer, or it does not
\* arrive.
LEMMA EarnedMoves ==
    ASSUME Scalars, Earned, Rests, UNCHANGED <<cycle, published, count, seen>>,
           \/ transfers' = transfers /\ (Arrived' => Arrived)
           \/ transfers' = transfers + 1
    PROVE  Earned'
<1>1. /\ (Waits' <=> Waits) /\ (Noticing' <=> Noticing) /\ (Clear' <=> Clear)
      /\ (SawUtility' <=> SawUtility) /\ (LeftGenerator' <=> LeftGenerator)
      /\ (Pending' <=> Pending)
  BY DEF Rests, Waits, Pending, _bit_pulse, Noticing, Clear, SawUtility, LeftGenerator
<1>2. /\ Owed \in Int /\ Owed' \in Int /\ Owed' >= Owed
      /\ transfers' = transfers + 1 => Owed' = Owed + 1
  <2>1. CASE Pending
    BY <1>1, <2>1 DEF Owed, Scalars, Rests
  <2>2. CASE ~Pending
    BY <1>1, <2>2 DEF Owed, Scalars, Rests
  <2> QED BY <2>1, <2>2
<1>3. CASE transfers' = transfers /\ (Arrived' => Arrived)
  BY <1>1, <1>2, <1>3 DEF Earned, Barred, Rests
<1>4. CASE transfers' = transfers + 1
  <2>1. Owed >= 0 /\ Owed' >= 1
    BY <1>2, <1>4 DEF Earned
  <2>2. ASSUME stable # None, stable["on_emergency"], Waits, seen = None \/ fresh = Samples,
               SawUtility \/ LeftGenerator
        PROVE  Owed >= 1
    <3>1. ~Noticing /\ ~Clear
      BY <2>2 DEF Noticing, Clear, Scalars
    <3> QED BY <2>2, <3>1 DEF Earned, Barred
  <2>3. stable' = stable /\ fresh' = fresh /\ seen' = seen
    BY DEF Rests
  <2> QED BY <1>1, <1>2, <1>4, <2>1, <2>2, <2>3 DEF Earned
<1> QED BY <1>3, <1>4

\* Time passes, or the cycle ends, published or not.
LEMMA EarnedCycle ==
    ASSUME Scalars, Earned, Rests, UNCHANGED <<rail, stroke, transfers>>,
           seen' = None <=> seen = None,
           Waits' => Waits \/ Owed' = Owed + 1,
           Owed' \in {Owed, Owed + 1}, Owed \in Int
    PROVE  Earned'
<1>1. /\ (Noticing' <=> Noticing) /\ (Clear' <=> Clear) /\ (Arrived' <=> Arrived)
      /\ (SawUtility' <=> SawUtility) /\ (LeftGenerator' <=> LeftGenerator)
  BY DEF Rests, Noticing, Clear, Arrived, SawUtility, LeftGenerator
<1>2. /\ stable' = stable /\ fresh' = fresh
  BY DEF Rests
<1>3. CASE Owed' = Owed
  <2>1. Waits' => Waits
    BY <1>3
  <2> QED BY <1>1, <1>2, <1>3, <2>1 DEF Earned, Barred
<1>4. CASE Owed' = Owed + 1
  BY <1>1, <1>2, <1>4 DEF Earned, Barred
<1> QED BY <1>3, <1>4

LEMMA CountRead ==
    ASSUME SensingOK, DebounceInv, DebounceInv', Adam, AdamCountInv,
           ReadInputs \/ ReadInputsDisturbed
    PROVE  AdamCountInv'
<1>1. /\ transfers \in Nat /\ spurious \in Nat /\ noise \in Nat /\ fresh \in 0..Samples
      /\ pulse => stroke
  BY DEF AdamCountInv
<1>2. PICK on \in BOOLEAN, oe \in BOOLEAN, sound \in BOOLEAN, pulsed \in BOOLEAN :
         Takes(on, oe, sound, pulsed)
  BY <1>1, ReadTaken
<1>3. Scalars
  BY <1>1, ScalarsTyped
<1>4. /\ pulse' = pulse /\ stroke' = stroke /\ transfers' = transfers
      /\ stable' # None /\ noise' \in Nat /\ spurious' \in Nat /\ noise' >= noise
      /\ lapsed => lapsed'
  BY <1>1, <1>2 DEF Takes, Shows, Holds, Disturbs, switch
<1>5. fresh' \in 0..Samples
  BY <1>1, <1>2, <1>3 DEF Takes, Holds, Scalars
<1>6. ASSUME ~lapsed', noise' < Samples PROVE Earned'
  <2>1. ~lapsed /\ noise < Samples
    BY <1>1, <1>3, <1>4, <1>6 DEF Scalars
  <2>2. Earned /\ (Waits => stable # None)
    BY <2>1 DEF AdamCountInv
  <2>3. CASE stable = None
    BY <1>1, <1>2, <1>3, <1>6, <2>2, <2>3, EarnedFirst DEF Earned
  <2>4. CASE stable # None
    <3>1. seen # None => seen \in 0..Hold
      BY DEF SensingOK, TypeOK
    <3> QED BY <1>1, <1>2, <1>3, <1>6, <2>2, <2>4, <3>1, EarnedRead
  <2> QED BY <2>3, <2>4
<1> QED BY <1>1, <1>4, <1>5, <1>6 DEF AdamCountInv

LEMMA CountStep ==
    ASSUME SensingOK, DebounceInv, DebounceInv', AdamInv, [Next]_vars
    PROVE  AdamInv'
<1>0. bits' = bits /\ (Adam' <=> Adam)
  BY DEF Next, StartStroke, PulseEnds, EndStroke, PortChanges, ReadInputs, ReadInputsFails,
         ReadInputsDisturbed, Publish, ReadOutputsFails, Tick, Restart, vars, Adam
<1> SUFFICES ASSUME Adam, AdamCountInv PROVE AdamCountInv'
  BY <1>0 DEF AdamInv
<1>1. /\ transfers \in Nat /\ spurious \in Nat /\ noise \in Nat /\ fresh \in 0..Samples
      /\ pulse => stroke
      /\ Waits \/ cycle # None => stable # None
      /\ ~lapsed /\ noise < Samples => Earned
  BY DEF AdamCountInv
<1>2. Scalars
  BY <1>1, ScalarsTyped
<1>3. Owed \in Int
  <2>1. (IF Pending THEN count + 1 ELSE count) \in Nat
    BY <1>2 DEF Scalars
  <2> QED BY <1>2, <2>1 DEF Owed, Scalars
\* Steps that the debounce does not see.
<1>4. ASSUME Rests, UNCHANGED <<cycle, published, count, seen>>, pulse' => stroke',
             \/ transfers' = transfers /\ (Arrived' => Arrived)
             \/ transfers' = transfers + 1
      PROVE  AdamCountInv'
  <2>1. ~lapsed' /\ noise' < Samples => Earned'
    BY <1>1, <1>2, <1>4, EarnedMoves DEF Rests
  <2>2. Waits' <=> Waits
    BY <1>4 DEF Rests, Waits, Pending, _bit_pulse
  <2> QED BY <1>1, <1>4, <2>1, <2>2 DEF AdamCountInv, Rests
<1>5. ASSUME Rests, UNCHANGED <<rail, stroke, pulse, transfers>>,
             seen' = None <=> seen = None, Waits' => Waits \/ Owed' = Owed + 1,
             Owed' \in {Owed, Owed + 1}, Waits' \/ cycle' # None => stable # None
      PROVE  AdamCountInv'
  <2>1. ~lapsed' /\ noise' < Samples => Earned'
    BY <1>1, <1>2, <1>3, <1>5, EarnedCycle DEF Rests
  <2> QED BY <1>1, <1>5, <2>1 DEF AdamCountInv, Rests
<1>6. CASE ReadInputs \/ ReadInputsDisturbed
  BY <1>6, CountRead
<1>7. CASE StartStroke \/ PulseEnds \/ ReadInputsFails \/ UNCHANGED vars
  <2>1. /\ Rests /\ UNCHANGED <<cycle, published, count, seen>>
        /\ pulse' => stroke'
        /\ transfers' = transfers /\ (Arrived' => Arrived)
    BY <1>1, <1>7
    DEF StartStroke, PulseEnds, ReadInputsFails, vars, switch, filter, service, history,
        Rests, Arrived
  <2> QED BY <1>4, <2>1
<1>8. CASE EndStroke
  <2>1. /\ Rests /\ UNCHANGED <<cycle, published, count, seen>> /\ ~pulse'
        /\ Arrived' => transfers' = transfers + 1
        /\ transfers' \in {transfers, transfers + 1}
    BY <1>8 DEF EndStroke, filter, service, history, Rests, Arrived
  <2> QED BY <1>1, <1>4, <2>1
<1>9. CASE PortChanges
  BY <1>9 DEF PortChanges
<1>10. CASE Publish
  <2>1. /\ Rests /\ UNCHANGED <<rail, stroke, pulse, transfers>> /\ seen' = seen
        /\ cycle # None /\ cycle' = None /\ published' = cycle
        /\ count' = IF Pending THEN count + 1 ELSE count
    BY <1>10
    DEF Publish, ToGenerator, Pending, Counting, switch, filter, history, Rests
  <2>2. ~Pending' /\ Owed' = Owed
    BY <2>1 DEF Pending, Owed, Rests
  <2>3. Waits' => Waits
    BY <2>1 DEF Waits, Pending, _bit_pulse
  <2> QED BY <1>1, <1>5, <2>1, <2>2, <2>3
<1>11. CASE ReadOutputsFails
  <2>1. /\ Rests /\ UNCHANGED <<rail, stroke, pulse, transfers, published, count>>
        /\ seen' = seen /\ cycle # None /\ cycle' = None
    BY <1>11 DEF ReadOutputsFails, switch, filter, history, Rests
  <2>2. /\ ~Pending' /\ (Pending => Owed' = Owed + 1) /\ (~Pending => Owed' = Owed)
    <3>1. ~Pending'
      BY <2>1 DEF Pending
    <3>2. Owed' = (transfers + spurious) - count
      BY <2>1, <3>1 DEF Owed, Rests
    <3>3. Pending => Owed = (transfers + spurious) - (count + 1)
      BY DEF Owed
    <3>4. ~Pending => Owed = (transfers + spurious) - count
      BY DEF Owed
    <3> QED BY <1>2, <3>1, <3>2, <3>3, <3>4 DEF Scalars
  <2>3. Waits' => Waits \/ Pending
    BY <2>1 DEF Waits, _bit_pulse
  <2> QED BY <1>1, <1>3, <1>5, <2>1, <2>2, <2>3
<1>12. CASE Tick
  <2>1. /\ Rests /\ UNCHANGED <<rail, stroke, pulse, transfers, published, count, cycle>>
        /\ seen \in 0..Hold /\ seen < Hold /\ seen' = seen + 1 /\ seen # None
    BY <1>12 DEF Tick, switch, service, history, Rests, SensingOK, TypeOK
  <2>2. seen' # None /\ Hold \in Nat
    BY <2>1, ConstantsAssumption DEF ConstantsAssumption
  <2>3. (Pending' <=> Pending) /\ Owed' = Owed
    BY <2>1 DEF Pending, Owed, Rests
  <2>4. Waits' => Waits
    BY <2>1, <2>2, <2>3 DEF Waits, _bit_pulse
  <2> QED BY <1>1, <1>5, <2>1, <2>2, <2>3, <2>4
<1>13. CASE Restart
  <2>1. /\ stable' = None /\ cycle' = None /\ seen' = None /\ fresh' = Samples
        /\ published'.position = "unknown"
        /\ UNCHANGED <<rail, stroke, pulse, transfers, count, spurious, noise, lapsed>>
    BY <1>13 DEF Restart, Unpublished, switch
  <2>2. ~Waits' /\ ~Pending'
    BY <2>1 DEF Waits, Pending, Counting, _bit_pulse
  <2>3. Owed' >= Owed /\ Owed' \in Int
    <3>1. Owed' = (transfers + spurious) - count
      BY <2>1, <2>2 DEF Owed
    <3>2. Pending => Owed = (transfers + spurious) - (count + 1)
      BY DEF Owed
    <3>3. ~Pending => Owed = (transfers + spurious) - count
      BY DEF Owed
    <3> QED BY <1>2, <3>1, <3>2, <3>3 DEF Scalars
  <2>4. ~lapsed' /\ noise' < Samples => Earned'
    BY <1>1, <1>3, <2>1, <2>2, <2>3 DEF Earned
  <2>5. fresh' \in 0..Samples
    BY <1>2, <2>1 DEF Scalars
  <2> QED BY <1>1, <2>1, <2>2, <2>4, <2>5 DEF AdamCountInv
<1> QED
  BY <1>6, <1>7, <1>8, <1>9, <1>10, <1>11, <1>12, <1>13 DEF Next

LEMMA CountInit == Init => AdamInv /\ spurious \in Nat
<1> SUFFICES ASSUME Init PROVE AdamCountInv /\ spurious \in Nat
  BY DEF AdamInv
<1>1. /\ published.position = "unknown" /\ cycle = None /\ seen = None /\ stable = None
      /\ transfers = 0 /\ spurious = 0 /\ count = 0 /\ noise = 0 /\ fresh = Samples
      /\ pulse = FALSE
  BY DEF Init, Unpublished
<1>2. ~Waits /\ ~Pending /\ Owed = 0
  BY <1>1 DEF Waits, Pending, Counting, _bit_pulse, Owed
<1> QED BY <1>1, <1>2, ConstantsAssumption DEF AdamCountInv, Earned, ConstantsAssumption

\* The serial reader does not count disturbances.
SpuriousCounts == spurious \in Nat

LEMMA SpuriousStep ==
    ASSUME SpuriousCounts, [Next]_vars
    PROVE  SpuriousCounts'
<1>1. ASSUME spurious' \in {spurious, spurious + 1} PROVE SpuriousCounts'
  BY <1>1 DEF SpuriousCounts
<1>2. CASE ReadInputs \/ ReadInputsDisturbed
  <2>1. CASE AdamRead \/ AdamReadNoisy
    BY <1>1, <2>1 DEF AdamRead, AdamReadNoisy
  <2>2. CASE AscoRead \/ AscoReadShort
    BY <1>1, <2>2 DEF AscoRead, AscoReadShort, AscoReads
  <2> QED BY <1>2, <2>1, <2>2 DEF ReadInputs, ReadInputsDisturbed
<1>3. CASE ~(ReadInputs \/ ReadInputsDisturbed)
  <2>1. spurious' = spurious
    BY <1>3
    DEF Next, StartStroke, PulseEnds, EndStroke, PortChanges, ReadInputsFails, Publish,
        ReadOutputsFails, Tick, Restart, history, vars
  <2> QED BY <1>1, <2>1
<1> QED BY <1>2, <1>3

\* With either driver, for any debounce and hold: the lifetime count never gets
\* ahead of the transfers that happened and the disturbances that looked like
\* one, unless a hold lapsed or more reads were disturbed than the debounce
\* bears.
THEOREM CountsAreExplained == Spec => []CountsExplained
<1> DEFINE Inv == /\ SensingOK /\ DebounceInv /\ AdamInv /\ SerialCountInv
                  /\ SpuriousCounts
<1>1. Inv => CountsExplained
  <2> SUFFICES ASSUME Inv, Adam \/ Fits, ~lapsed, noise < Samples
               PROVE  count <= transfers + spurious
    BY DEF CountsExplained
  <2>1. count \in Nat /\ spurious \in Nat
    BY DEF SensingOK, TypeOK, SpuriousCounts
  <2>2. CASE Adam
    <3>1. transfers \in Nat /\ Owed >= 0
      BY <2>2 DEF AdamInv, AdamCountInv, Earned
    <3>2. Pending => Owed = (transfers + spurious) - (count + 1)
      BY DEF Owed
    <3>3. ~Pending => Owed = (transfers + spurious) - count
      BY DEF Owed
    <3> QED BY <2>1, <3>1, <3>2, <3>3
  <2>3. CASE ~Adam
    BY <2>1, <2>3 DEF SerialCountInv
  <2> QED BY <2>2, <2>3
<1>2. Init => Inv
  <2>1. Init => SerialCountInv
    BY DEF Init, SerialCountInv, Unpublished, Counting
  <2> QED BY <2>1, SensingInit, DebounceInit, CountInit DEF SpuriousCounts
<1>3. Inv /\ [Next]_vars => Inv'
  BY SensingStep, DebounceStep, CountStep, SerialCountStep, SpuriousStep
<1> QED BY <1>1, <1>2, <1>3, PTL DEF Spec
=============================================================================
