---------------------------- MODULE ToolbarProofs ----------------------------
(* Proofs about Toolbar, for any switches, modes of the keyboard and number  *)
(* of messages on their way.                                                 *)
EXTENDS Toolbar, SequenceTheorems, TLAPS

T == INSTANCE SequenceFacts WITH After <- PanelAfter
E == INSTANCE SequenceFacts WITH After <- OnAfter
C == INSTANCE SequenceFacts WITH After <- PairAfter

-----------------------------------------------------------------------------
(* Values and messages. *)

LEMMA ModeFacts ==
  /\ Pc \in VkModes /\ Closed \notin VkModes
  /\ panel.vk \in VkModes => NextVk \in VkModes
<1>1. DOMAIN VkOrder = 1 .. Len(VkOrder) /\ Len(VkOrder) \in Nat \ {0} /\ Head(VkOrder) = VkOrder[1]
  BY ToolbarAssumption, LenProperties, HeadTailProperties, EmptySeq
<1>2. \A i \in 1 .. Len(VkOrder) : VkOrder[i] \in VkModes
  BY <1>1 DEF VkModes, ToSet
<1>3. Pc \in VkModes
  BY <1>1, <1>2 DEF Pc
<1>4. ASSUME panel.vk \in VkModes PROVE NextVk \in VkModes
  <2> DEFINE n == Len(VkOrder)
             i == CHOOSE j \in 1 .. n : VkOrder[j] = panel.vk
  <2>1. \E j \in 1 .. n : VkOrder[j] = panel.vk
    BY <1>1, <1>4 DEF VkModes, ToSet
  <2>2. i \in 1 .. n
    BY <2>1
  <2>3. NextVk = IF ~panel.open THEN panel.vk ELSE VkOrder[(i % n) + 1]
    BY Zenon DEF NextVk
  <2> HIDE DEF i
  <2>4. n \in Nat \ {0}
    BY <1>1
  <2> HIDE DEF n
  <2>5. (i % n) + 1 \in 1 .. n
    BY <2>2, <2>4
  <2>6. VkOrder[(i % n) + 1] \in VkModes
    BY <1>2, <2>5 DEF n
  <2> QED BY <1>4, <2>3, <2>6
<1> QED BY <1>3, <1>4, ToolbarAssumption

\* Flipping a switch twice brings it back, and the order of flips is no matter.
LEMMA FlippedFacts ==
  ASSUME NEW on \in OnOff, NEW s \in Switches
  PROVE  /\ Flipped(on, s) \in OnOff
         /\ \A t \in Switches : Flipped(Flipped(on, s), t) = Flipped(Flipped(on, t), s)
BY DEF Flipped, OnOff

LEMMA PanelAfterType ==
  ASSUME NEW p \in Panel, NEW msg \in PanelMsg
  PROVE  /\ PanelAfter(p, msg) \in Panel
         /\ PanelAfter(p, msg).up = p.up /\ PanelAfter(p, msg).vk = p.vk
         /\ PanelAfter(p, msg).open = p.open
<1>1. CASE msg \in Flips
  BY <1>1, FlippedFacts DEF PanelAfter, Panel, Flips
<1>2. CASE msg \in [kind : {"mode"}, english : BOOLEAN]
  BY <1>2 DEF PanelAfter, Panel
<1>3. CASE msg \in [kind : {"all"}, on : OnOff, english : BOOLEAN]
  BY <1>3 DEF PanelAfter, Panel
<1> QED BY <1>1, <1>2, <1>3 DEF PanelMsg

LEMMA NewValues ==
  ASSUME file \in File
  PROVE  /\ NewEngine \in Engine /\ NewPanel \in Panel /\ [NewPanel EXCEPT !.up = FALSE] \in Panel
         /\ AllMsg(NewEngine) \in PanelMsg
         /\ NewPanel.up = TRUE /\ NewPanel.open = FALSE /\ [NewPanel EXCEPT !.up = FALSE].up = FALSE
BY ToolbarAssumption, ModeFacts
   DEF NewEngine, NewPanel, Engine, Panel, File, OnOff, AllMsg, PanelMsg

LEMMA MessageFacts ==
  /\ \A s \in Switches : FlipMsg(s) \in PanelMsg /\ FlipMsg(s) \in EngineMsg
  /\ \A en \in BOOLEAN : ModeMsg(en) \in PanelMsg
  /\ NextMsg \in EngineMsg /\ ReloadMsg \in EngineMsg
BY DEF FlipMsg, ModeMsg, NextMsg, ReloadMsg, PanelMsg, EngineMsg, Flips

-----------------------------------------------------------------------------
(* Types. *)

LEMMA TypeInit == Init => TypeOK
<1> SUFFICES ASSUME Init PROVE TypeOK
  OBVIOUS
<1>1. file \in File /\ file.vk = Closed
  BY DEF Init, File
<1>2. engine \in Engine /\ panel \in Panel /\ panel.up = FALSE /\ panel = [NewPanel EXCEPT !.up = FALSE]
  BY <1>1, NewValues DEF Init
<1>3. toPanel \in Seq(PanelMsg) /\ calls \in Seq(PanelCall) /\ toEngine \in Seq(EngineMsg)
  BY <1>1, NewValues DEF Init
<1> QED BY <1>1, <1>2, <1>3 DEF Init, TypeOK

LEMMA TypeStep == TypeOK /\ [Next]_vars => TypeOK'
<1> SUFFICES ASSUME TypeOK, [Next]_vars PROVE TypeOK'
  OBVIOUS
<1> USE DEF TypeOK
<1>1. ASSUME NEW s \in Switches, Shortcut(s) PROVE TypeOK'
  <2>1. engine' \in Engine
    BY <1>1, FlippedFacts DEF Shortcut, Engine
  <2>2. toPanel' \in Seq(PanelMsg)
    BY <1>1, MessageFacts DEF Shortcut, ToPanel
  <2> QED BY <1>1, <2>1, <2>2 DEF Shortcut, NewPanel
<1>2. ASSUME NEW s \in Switches, Click(s) PROVE TypeOK'
  <2>1. panel' \in Panel /\ panel'.up = panel.up /\ panel'.open = panel.open /\ panel'.vk = panel.vk
    BY <1>2, FlippedFacts DEF Click, Panel
  <2>2. toEngine' \in Seq(EngineMsg)
    BY <1>2, MessageFacts DEF Click, Signal
  <2> QED BY <1>2, <2>1, <2>2 DEF Click
<1>3. ASSUME NEW en \in BOOLEAN, ModeBecomes(en), UNCHANGED <<panel, file, calls, knows, paired>>,
             toEngine' \in Seq(EngineMsg)
      PROVE  TypeOK'
  <2>1. engine' \in Engine
    BY <1>3 DEF ModeBecomes, Engine
  <2>2. toPanel' \in Seq(PanelMsg)
    BY <1>3, MessageFacts DEF ModeBecomes, ToPanel
  <2> QED BY <1>3, <2>1, <2>2 DEF NewPanel
<1>4. CASE SwitchKey
  BY <1>3, <1>4 DEF SwitchKey, Engine
<1>5. CASE TempPinyinBegins \/ TempPinyinEnds
  <2>1. engine' \in Engine /\ knows' \in BOOLEAN
    BY <1>5 DEF TempPinyinBegins, TempPinyinEnds, Engine
  <2> QED BY <1>5, <2>1 DEF TempPinyinBegins, TempPinyinEnds, NewPanel
<1>6. ASSUME NEW msg \in PanelCall, Call(msg) PROVE calls' \in Seq(PanelCall)
  BY <1>6 DEF Call
<1>7. CASE PairKey
  <2>1. engine' \in Engine /\ paired' \in BOOLEAN
    BY <1>7 DEF PairKey, Engine, Panel
  <2>2. calls' \in Seq(PanelCall)
    BY <1>6, <1>7 DEF PairKey, PanelCall
  <2> QED BY <1>7, <2>1, <2>2 DEF PairKey, NewPanel
<1>8. CASE VkKey
  <2>1. calls' \in Seq(PanelCall)
    BY <1>6, <1>8 DEF VkKey, PanelCall
  <2> QED BY <1>8, <2>1 DEF VkKey, NewPanel
<1>9. CASE EngineTakesFlip
  <2>1. Head(toEngine) \in Flips /\ Tail(toEngine) \in Seq(EngineMsg)
    BY <1>9, HeadTailProperties DEF EngineTakesFlip, EngineMsg
  <2>2. engine' \in Engine
    BY <1>9, <2>1, FlippedFacts DEF EngineTakesFlip, Engine, Flips
  <2> QED BY <1>9, <2>1, <2>2 DEF EngineTakesFlip, NewPanel
<1>10. CASE EngineTakesNext
  <2>1. Tail(toEngine) \in Seq(EngineMsg)
    BY <1>10, HeadTailProperties DEF EngineTakesNext
  <2> QED BY <1>3, <1>10, <2>1 DEF EngineTakesNext
<1>11. CASE EngineTakesReload
  <2>1. Tail(toEngine) \in Seq(EngineMsg)
    BY <1>11, HeadTailProperties DEF EngineTakesReload
  <2>2. engine' \in Engine /\ paired' \in BOOLEAN
    BY <1>11 DEF EngineTakesReload, ConfigRead, Engine, File
  <2> QED BY <1>11, <2>1, <2>2 DEF EngineTakesReload, NewPanel
<1>12. ASSUME NEW msg \in EngineMsg, Signal(msg) PROVE toEngine' \in Seq(EngineMsg)
  BY <1>12 DEF Signal
<1>13. CASE ClickMode \/ SettingsOk
  <2>1. toEngine' \in Seq(EngineMsg)
    BY <1>13, <1>12, MessageFacts DEF ClickMode, SettingsOk
  <2> QED BY <1>13, <2>1 DEF ClickMode, SettingsOk, NewPanel
<1>14. CASE PanelTakes
  <2>1. Head(toPanel) \in PanelMsg /\ Tail(toPanel) \in Seq(PanelMsg)
    BY <1>14, HeadTailProperties DEF PanelTakes
  <2>2. /\ panel' \in Panel /\ panel'.up = panel.up /\ panel'.vk = panel.vk /\ panel'.open = panel.open
    BY <1>14, <2>1, PanelAfterType DEF PanelTakes
  <2> QED BY <1>14, <2>1, <2>2 DEF PanelTakes
<1>15. ASSUME panel.up, (\E mode \in VkModes : OpenVk(mode)) \/ CloseVk,
              UNCHANGED <<engine, toPanel, knows, paired>>, calls' \in Seq(PanelCall)
       PROVE  TypeOK'
  <2>1. ASSUME NEW mode \in VkModes, OpenVk(mode) PROVE TypeOK'
    <3>1. panel' \in Panel /\ file' \in File /\ panel'.up = TRUE /\ panel'.open = TRUE /\ file'.vk = panel'.vk
      BY <1>15, <2>1 DEF OpenVk, Panel, File
    <3>2. toEngine' \in Seq(EngineMsg)
      BY <1>12, <2>1, MessageFacts DEF OpenVk
    <3> QED BY <1>15, <3>1, <3>2
  <2>2. CASE CloseVk /\ panel.open
    <3>1. panel' \in Panel /\ file' \in File /\ panel'.up = TRUE /\ panel'.open = FALSE /\ file'.vk = Closed
      BY <1>15, <2>2 DEF CloseVk, Panel, File
    <3>2. toEngine' \in Seq(EngineMsg)
      BY <1>12, <2>2, MessageFacts DEF CloseVk
    <3> QED BY <1>15, <3>1, <3>2
  <2>3. CASE CloseVk /\ ~panel.open
    BY <1>15, <2>3 DEF CloseVk
  <2> QED BY <1>15, <2>1, <2>2, <2>3
<1>16. CASE PanelTakesCall
  <2>1. Head(calls) \in PanelCall /\ calls' \in Seq(PanelCall)
    BY <1>16, HeadTailProperties DEF PanelTakesCall
  <2>2. CASE Head(calls) = "pair"
    <3>1. file' \in File /\ file'.vk = file.vk /\ UNCHANGED <<panel, toEngine>>
      BY <1>16, <2>2 DEF PanelTakesCall, File
    <3> QED BY <1>16, <2>1, <3>1 DEF PanelTakesCall, NewPanel
  <2>3. CASE Head(calls) # "pair"
    <3>1. OpenVk(NextVk) \/ CloseVk
      BY <1>16, <2>1, <2>3 DEF PanelTakesCall, PanelCall
    <3>2. NextVk \in VkModes
      BY ModeFacts DEF Panel
    <3> QED BY <1>15, <1>16, <2>1, <3>1, <3>2 DEF PanelTakesCall
  <2> QED BY <2>2, <2>3
<1>17. CASE ClickVk
  BY <1>15, <1>17 DEF ClickVk
<1>18. CASE SettingsPair
  <2>1. file' \in File /\ file'.vk = file.vk
    BY <1>18 DEF SettingsPair, File
  <2> QED BY <1>18, <2>1 DEF SettingsPair
<1>19. CASE PanelDies
  <2>1. panel' \in Panel /\ panel' = [NewPanel EXCEPT !.up = FALSE] /\ panel'.up = FALSE
    BY <1>19, NewValues DEF PanelDies
  <2>2. toPanel' \in Seq(PanelMsg) /\ calls' \in Seq(PanelCall) /\ paired' \in BOOLEAN
    BY <1>19 DEF PanelDies
  <2> QED BY <1>19, <2>1, <2>2 DEF PanelDies, NewPanel
<1>20. CASE PanelStarts
  <2>1. panel' \in Panel /\ panel'.up = TRUE /\ panel'.open = FALSE /\ file' \in File /\ file'.vk = Closed
    BY <1>20, NewValues DEF PanelStarts, File
  <2>2. toEngine' \in Seq(EngineMsg)
    BY <1>20, MessageFacts DEF PanelStarts, Signal
  <2> QED BY <1>20, <2>1, <2>2 DEF PanelStarts
<1>21. CASE EngineRestarts
  <2>1. engine' \in Engine /\ paired' \in BOOLEAN
    BY <1>21, NewValues DEF EngineRestarts
  <2>2. toPanel' \in Seq(PanelMsg) /\ toEngine' \in Seq(EngineMsg)
    BY <1>21, NewValues DEF EngineRestarts, ToPanel
  <2> QED BY <1>21, <2>1, <2>2 DEF EngineRestarts, NewPanel
<1>22. CASE UNCHANGED vars
  BY <1>22 DEF vars, NewPanel
<1> QED
  BY <1>1, <1>2, <1>4, <1>5, <1>7, <1>8, <1>9, <1>10, <1>11, <1>13, <1>14, <1>16, <1>17,
     <1>18, <1>19, <1>20, <1>21, <1>22 DEF Next, EngineTakes

\* Switches, messages and the setting keep the values the code gives them, and
\* the mode in the file is that of the window, through deaths of either side.
THEOREM ToolbarTypeCorrect == Spec => []TypeOK
BY TypeInit, TypeStep, PTL DEF Spec

-----------------------------------------------------------------------------
(* The virtual keyboard: what the engine is still to be told.                *)

LEMMA SignalAdds ==
  ASSUME NEW msg \in EngineMsg, toEngine \in Seq(EngineMsg), Signal(msg)
  PROVE  ToSet(toEngine') = ToSet(toEngine) \cup {msg}
BY T!MembersOfAppend DEF Signal, ToSet, T!ToSet

LEMMA TakenLeaves ==
  ASSUME toEngine \in Seq(EngineMsg), toEngine # <<>>, toEngine' = Tail(toEngine)
  PROVE  ToSet(toEngine) = ToSet(toEngine') \cup {Head(toEngine)}
BY T!MembersOfTail DEF ToSet, T!ToSet

LEMMA KeyboardStep == TypeOK /\ KeyboardMeets /\ [Next]_vars => KeyboardMeets'
<1> SUFFICES ASSUME TypeOK, KeyboardMeets, [Next]_vars PROVE KeyboardMeets'
  OBVIOUS
<1> DEFINE Window(p) == IF p.open THEN p.vk ELSE Closed
<1> USE DEF KeyboardMeets
<1>1. toEngine \in Seq(EngineMsg) /\ panel \in Panel /\ engine \in Engine
  BY DEF TypeOK
<1>2. ASSUME Signal(ReloadMsg) PROVE KeyboardMeets'
  BY <1>1, <1>2, SignalAdds, MessageFacts
<1>3. ASSUME engine'.vk = engine.vk, panel'.up => panel.up, panel'.vk = panel.vk, panel'.open = panel.open,
             ToSet(toEngine) \subseteq ToSet(toEngine')
      PROVE  KeyboardMeets'
  BY <1>3
<1>4. ASSUME NEW s \in Switches, Shortcut(s) PROVE KeyboardMeets'
  BY <1>1, <1>3, <1>4 DEF Shortcut, Engine
<1>5. ASSUME NEW s \in Switches, Click(s) PROVE KeyboardMeets'
  <2>1. ToSet(toEngine) \subseteq ToSet(toEngine')
    BY <1>1, <1>5, SignalAdds, MessageFacts DEF Click
  <2> QED BY <1>1, <1>3, <1>5, <2>1 DEF Click, Panel
<1>6. CASE SwitchKey \/ TempPinyinBegins \/ TempPinyinEnds \/ PairKey \/ VkKey
  BY <1>1, <1>3, <1>6 DEF SwitchKey, ModeBecomes, TempPinyinBegins, TempPinyinEnds, PairKey, VkKey, Engine
<1>7. CASE EngineTakesFlip \/ EngineTakesNext
  <2>0. ReloadMsg.kind = "reload" /\ Head(toEngine).kind \in {"flip", "next"}
    BY <1>7 DEF EngineTakesFlip, EngineTakesNext, ReloadMsg
  <2>1. toEngine # <<>> /\ toEngine' = Tail(toEngine) /\ Head(toEngine) # ReloadMsg
    BY <1>7, <2>0 DEF EngineTakesFlip, EngineTakesNext
  <2>2. ReloadMsg \in ToSet(toEngine) => ReloadMsg \in ToSet(toEngine')
    BY <1>1, <2>1, TakenLeaves
  <2>3. engine'.vk = engine.vk /\ UNCHANGED panel
    BY <1>1, <1>7 DEF EngineTakesFlip, EngineTakesNext, ModeBecomes, Engine
  <2> QED BY <2>2, <2>3
<1>8. CASE EngineTakesReload
  BY <1>1, <1>8 DEF EngineTakesReload, ConfigRead, Engine, TypeOK
<1>9. CASE PanelTakes
  <2>1. Head(toPanel) \in PanelMsg
    BY <1>9, HeadTailProperties DEF PanelTakes, TypeOK
  <2> QED BY <1>1, <1>3, <1>9, <2>1, PanelAfterType DEF PanelTakes
<1>10. ASSUME (\E mode \in VkModes : OpenVk(mode)) \/ CloseVk, UNCHANGED engine PROVE KeyboardMeets'
  <2>1. CASE Signal(ReloadMsg)
    BY <1>2, <2>1
  <2>2. CASE UNCHANGED <<panel, toEngine>>
    BY <1>10, <2>2
  <2> QED BY <1>10, <2>1, <2>2 DEF OpenVk, CloseVk
<1>11. CASE PanelTakesCall
  <2>1. Head(calls) \in PanelCall
    BY <1>11, HeadTailProperties DEF PanelTakesCall, TypeOK
  <2>2. CASE Head(calls) = "pair"
    BY <1>11, <2>2 DEF PanelTakesCall
  <2>3. CASE Head(calls) # "pair"
    <3>1. NextVk \in VkModes
      BY <1>1, ModeFacts DEF Panel
    <3> QED BY <1>10, <1>11, <2>1, <2>3, <3>1 DEF PanelTakesCall, PanelCall
  <2> QED BY <2>2, <2>3
<1>12. CASE ClickVk
  BY <1>10, <1>12 DEF ClickVk
<1>13. CASE ClickMode \/ SettingsOk \/ SettingsPair
  <2>1. UNCHANGED <<engine, panel>> /\ ToSet(toEngine) \subseteq ToSet(toEngine')
    BY <1>1, <1>13, SignalAdds, MessageFacts DEF ClickMode, SettingsOk, SettingsPair
  <2> QED BY <2>1
<1>14. CASE PanelDies
  BY <1>14 DEF PanelDies, NewPanel
<1>15. CASE PanelStarts
  BY <1>2, <1>15 DEF PanelStarts
<1>16. CASE EngineRestarts
  BY <1>16 DEF EngineRestarts, NewEngine, TypeOK
<1>17. CASE UNCHANGED vars
  BY <1>17 DEF vars
<1> QED
  BY <1>4, <1>5, <1>6, <1>7, <1>8, <1>9, <1>11, <1>12, <1>13, <1>14, <1>15, <1>16, <1>17 DEF Next, EngineTakes

LEMMA KeyboardInit == Init => KeyboardMeets
BY DEF Init, KeyboardMeets, NewPanel

\* A keyboard that is open maps the engine's keys, and one that is closed, or
\* died with its panel, does not, once the engine has read what it is told to.
THEOREM KeyboardCorrect == Spec => []KeyboardMeets
BY TypeInit, TypeStep, KeyboardInit, KeyboardStep, PTL DEF Spec

-----------------------------------------------------------------------------
(* The pairing of marks: the calls that are still to flip the setting.       *)

LEMMA PairFacts ==
  ASSUME NEW pair \in BOOLEAN, NEW q \in Seq(PanelCall)
  PROVE  /\ C!Outcome(pair, q) \in BOOLEAN
         /\ "pair" \notin ToSet(q) => C!Outcome(pair, q) = pair
<1>1. ASSUME NEW x \in BOOLEAN PROVE C!Outcome(x, q) \in BOOLEAN
  <2>1. \A y \in BOOLEAN, m \in PanelCall : PairAfter(y, m) \in BOOLEAN
    BY DEF PairAfter
  <2> QED BY <2>1, C!OutcomeStays
<1>2. ASSUME "pair" \notin ToSet(q) PROVE C!Outcome(pair, q) = pair
  <2> DEFINE Same == {pair}
             S == PanelCall \ {"pair"}
  <2>1. q \in Seq(S)
    <3>1. /\ Len(q) \in Nat /\ DOMAIN q = 1 .. Len(q)
          /\ \A i \in 1 .. Len(q) : q[i] \in PanelCall
      BY LenProperties, ElementOfSeq
    <3>2. \A i \in 1 .. Len(q) : q[i] \in S
      BY <1>2, <3>1 DEF ToSet
    <3>3. q = [i \in 1 .. Len(q) |-> q[i]]
      BY <3>1
    <3>4. q \in [1 .. Len(q) -> S]
      BY <3>2, <3>3
    <3> HIDE DEF S
    <3> QED BY <3>1, <3>4, SeqDef
  <2>2. pair \in Same /\ \A x \in Same, m \in S : PairAfter(x, m) \in Same
    BY DEF PairAfter
  <2> HIDE DEF Same, S
  <2>3. C!Outcome(pair, q) \in Same
    BY <2>1, <2>2, C!OutcomeStays
  <2> QED BY <2>3 DEF Same
<1> QED BY <1>1, <1>2

LEMMA PairingInit == Init => PairingMeets
<1> SUFFICES ASSUME Init PROVE PairingMeets
  OBVIOUS
<1>1. /\ file.pair \in BOOLEAN /\ calls \in Seq(PanelCall) /\ "pair" \notin ToSet(calls)
      /\ engine.pair = file.pair
  BY DEF Init, NewEngine, ToSet
<1> QED BY <1>1, PairFacts DEF PairingMeets, PairToBe, CallsTaken!Outcome, C!Outcome

LEMMA PairingStep == TypeOK /\ PairingMeets /\ [Next]_vars => PairingMeets'
<1> SUFFICES ASSUME TypeOK, PairingMeets, [Next]_vars PROVE PairingMeets'
  OBVIOUS
<1> DEFINE ToBe(f, q) == C!Outcome(f.pair, q)
<1>1. /\ PairingMeets  <=> (paired => engine.pair = ToBe(file, calls))
      /\ PairingMeets' <=> (paired' => engine'.pair = ToBe(file', calls'))
  BY DEF PairingMeets, PairToBe, CallsTaken!Outcome, C!Outcome
<1>2. /\ calls \in Seq(PanelCall) /\ file \in File /\ engine \in Engine /\ panel \in Panel
      /\ file.pair \in BOOLEAN /\ engine.pair \in BOOLEAN /\ panel.up \in BOOLEAN
      /\ paired \in BOOLEAN
  BY DEF TypeOK, File, Engine, Panel
<1>3. /\ ToBe(file, calls) \in BOOLEAN
      /\ "pair" \notin ToSet(calls) => ToBe(file, calls) = file.pair
      /\ \A f : f.pair = file.pair => ToBe(f, calls) = ToBe(file, calls)
  BY <1>2, PairFacts
<1>4. ASSUME NEW m \in PanelCall
      PROVE  ToBe(file, Append(calls, m)) = IF m = "pair" THEN ~ToBe(file, calls) ELSE ToBe(file, calls)
  <2>1. ToBe(file, Append(calls, m)) = PairAfter(ToBe(file, calls), m)
    BY <1>2, C!OutcomeOfAppend
  <2> QED BY <2>1 DEF PairAfter
<1>5. calls # <<>> => C!Outcome(PairAfter(file.pair, Head(calls)), Tail(calls)) = ToBe(file, calls)
  BY <1>2, C!OutcomeOfTail
<1> HIDE DEF ToBe
<1>6. ASSUME engine'.pair = engine.pair, file'.pair = file.pair, calls' = calls, paired' => paired
      PROVE  PairingMeets'
  BY <1>1, <1>3, <1>6
<1>7. ASSUME NEW s \in Switches, Shortcut(s) \/ Click(s) PROVE PairingMeets'
  BY <1>2, <1>6, <1>7 DEF Shortcut, Click, Engine
<1>8. CASE SwitchKey \/ TempPinyinBegins \/ TempPinyinEnds \/ EngineTakesFlip \/ EngineTakesNext
  BY <1>2, <1>6, <1>8
     DEF SwitchKey, ModeBecomes, TempPinyinBegins, TempPinyinEnds, EngineTakesFlip, EngineTakesNext, Engine
<1>9. CASE PairKey
  <2>1. engine'.pair = ~engine.pair /\ file' = file /\ paired' = (paired /\ panel.up)
    BY <1>2, <1>9 DEF PairKey, Engine
  <2>2. CASE panel.up
    <3>1. calls' = Append(calls, "pair")
      BY <1>9, <2>2 DEF PairKey, Call
    <3>2. ToBe(file', calls') = ~ToBe(file, calls)
      BY <1>4, <2>1, <3>1 DEF PanelCall
    <3> QED BY <1>1, <1>2, <1>3, <2>1, <3>2
  <2> QED BY <1>1, <2>1, <2>2
<1>10. CASE VkKey
  <2>1. PICK msg \in {"switchVk", "hideVk"} : Call(msg)
    BY <1>10 DEF VkKey
  <2>2. engine' = engine /\ file' = file /\ paired' = paired /\ calls' \in {calls, Append(calls, msg)}
    BY <1>10, <2>1 DEF VkKey, Call
  <2>3. ToBe(file', calls') = ToBe(file, calls)
    BY <1>4, <2>2 DEF PanelCall
  <2> QED BY <1>1, <2>2, <2>3
<1>11. CASE EngineTakesReload
  <2>1. engine'.pair = file.pair /\ paired' = ("pair" \notin ToSet(calls)) /\ UNCHANGED <<file, calls>>
    BY <1>2, <1>11 DEF EngineTakesReload, ConfigRead, Engine
  <2> QED BY <1>1, <1>3, <2>1
<1>12. CASE PanelTakesCall
  <2>1. /\ calls # <<>> /\ Head(calls) \in PanelCall /\ calls' = Tail(calls)
        /\ engine' = engine /\ paired' = paired
    BY <1>2, <1>12, HeadTailProperties DEF PanelTakesCall
  <2>2. file'.pair = PairAfter(file.pair, Head(calls))
    <3>1. CASE Head(calls) = "pair"
      BY <1>2, <1>12, <3>1 DEF PanelTakesCall, PairAfter, File
    <3>2. CASE Head(calls) # "pair"
      <4>1. OpenVk(NextVk) \/ CloseVk
        BY <1>12, <2>1, <3>2 DEF PanelTakesCall, PanelCall
      <4> QED BY <1>2, <3>2, <4>1 DEF OpenVk, CloseVk, PairAfter, File
    <3> QED BY <3>1, <3>2
  <2>3. ToBe(file', calls') = ToBe(file, calls)
    BY <1>5, <2>1, <2>2 DEF ToBe
  <2> QED BY <1>1, <2>1, <2>3
<1>13. CASE PanelTakes \/ ClickMode \/ SettingsOk
  BY <1>6, <1>13 DEF PanelTakes, ClickMode, SettingsOk
<1>14. CASE ClickVk
  <2>1. file'.pair = file.pair
    BY <1>2, <1>14 DEF ClickVk, OpenVk, CloseVk, File
  <2> QED BY <1>6, <1>14, <2>1 DEF ClickVk
<1>15. CASE SettingsPair
  BY <1>1, <1>15 DEF SettingsPair
<1>16. CASE PanelDies
  <2>1. /\ calls' = <<>> /\ UNCHANGED <<engine, file>> /\ paired' = (paired /\ "pair" \notin ToSet(calls))
    BY <1>16 DEF PanelDies
  <2>2. ToBe(file', calls') = file.pair
    BY <2>1, C!OutcomeOfNone DEF ToBe
  <2> QED BY <1>1, <1>3, <2>1, <2>2
<1>17. CASE PanelStarts
  <2>1. file'.pair = file.pair
    BY <1>2, <1>17 DEF PanelStarts, File
  <2> QED BY <1>6, <1>17, <2>1 DEF PanelStarts
<1>18. CASE EngineRestarts
  <2>1. engine'.pair = file.pair /\ paired' = ("pair" \notin ToSet(calls)) /\ UNCHANGED <<file, calls>>
    BY <1>18 DEF EngineRestarts, NewEngine
  <2> QED BY <1>1, <1>3, <2>1
<1>19. CASE UNCHANGED vars
  BY <1>6, <1>19 DEF vars
<1> QED
  BY <1>7, <1>8, <1>9, <1>10, <1>11, <1>12, <1>13, <1>14, <1>15, <1>16, <1>17, <1>18, <1>19 DEF Next, EngineTakes

\* The engine pairs marks as the setting says once the calls on their way are
\* taken, whoever flips it and whichever side dies, as long as no reload
\* overtakes a flip.
THEOREM PairingCorrect == Spec => []PairingMeets
BY TypeInit, TypeStep, PairingInit, PairingStep, PTL DEF Spec

-----------------------------------------------------------------------------
(* The switches: what either side comes to.                                  *)

LEMMA PanelOutcomeType ==
  ASSUME NEW p \in Panel, NEW q \in Seq(PanelMsg)
  PROVE  T!Outcome(p, q) \in Panel
<1>1. \A x \in Panel, m \in PanelMsg : PanelAfter(x, m) \in Panel
  BY PanelAfterType
<1> QED BY <1>1, T!OutcomeStays

LEMMA OnOutcomeType ==
  ASSUME NEW on \in OnOff, NEW q \in Seq(EngineMsg)
  PROVE  E!Outcome(on, q) \in OnOff
<1>1. \A x \in OnOff, m \in EngineMsg : OnAfter(x, m) \in OnOff
  BY FlippedFacts DEF OnAfter, EngineMsg, Flips
<1> QED BY <1>1, E!OutcomeStays

\* The keyboard's mode and window are no matter for the switches.
LEMMA KeyboardNoMatter ==
  ASSUME NEW p \in Panel, NEW r \in Panel, p.on = r.on, p.english = r.english, NEW q \in Seq(PanelMsg)
  PROVE  T!Outcome(p, q).on = T!Outcome(r, q).on /\ T!Outcome(p, q).english = T!Outcome(r, q).english
<1> DEFINE R == {xy \in Panel \X Panel : xy[1].on = xy[2].on /\ xy[1].english = xy[2].english}
<1>1. <<p, r>> \in R
  OBVIOUS
<1>2. ASSUME NEW x \in Panel, NEW y \in Panel, x.on = y.on, x.english = y.english, NEW m \in PanelMsg
      PROVE  /\ PanelAfter(x, m).on = PanelAfter(y, m).on
             /\ PanelAfter(x, m).english = PanelAfter(y, m).english
  BY <1>2 DEF PanelAfter, PanelMsg, Panel, Flips
<1>3. ASSUME NEW x, NEW y, NEW m \in PanelMsg, <<x, y>> \in R
      PROVE  <<PanelAfter(x, m), PanelAfter(y, m)>> \in R
  <2>1. x \in Panel /\ y \in Panel /\ x.on = y.on /\ x.english = y.english
    BY <1>3
  <2> QED BY <1>2, <2>1, PanelAfterType
<1> HIDE DEF R
<1>4. <<T!Outcome(p, q), T!Outcome(r, q)>> \in R
  BY <1>1, <1>3, T!OutcomesStayRelated
<1> QED BY <1>4 DEF R

\* A flip made before a queue that brings no values is the flip made after it.
LEMMA ClickCommutes ==
  ASSUME NEW p \in Panel, NEW s \in Switches, NEW q \in Seq(PanelMsg),
         \A i \in 1 .. Len(q) : q[i].kind # "all"
  PROVE  LET r == [p EXCEPT !.on = Flipped(@, s)]
         IN  /\ T!Outcome(r, q).on = Flipped(T!Outcome(p, q).on, s)
             /\ T!Outcome(r, q).english = T!Outcome(p, q).english
<1> DEFINE r == [p EXCEPT !.on = Flipped(@, s)]
           R == {xy \in Panel \X Panel : xy[2].on = Flipped(xy[1].on, s) /\ xy[2].english = xy[1].english}
           S == {m \in PanelMsg : m.kind # "all"}
<1>1. r \in Panel /\ <<p, r>> \in R
  BY FlippedFacts DEF Panel
<1>2. q \in Seq(S)
  <2>1. Len(q) \in Nat /\ DOMAIN q = 1 .. Len(q) /\ \A i \in 1 .. Len(q) : q[i] \in S
    BY LenProperties, ElementOfSeq
  <2>2. q = [i \in 1 .. Len(q) |-> q[i]]
    BY <2>1
  <2> HIDE DEF S
  <2>3. q \in [1 .. Len(q) -> S]
    BY <2>1, <2>2
  <2> QED BY <2>1, <2>3, SeqDef
<1>3. ASSUME NEW x \in Panel, NEW y \in Panel, y.on = Flipped(x.on, s), y.english = x.english, NEW m \in S
      PROVE  /\ PanelAfter(y, m).on = Flipped(PanelAfter(x, m).on, s)
             /\ PanelAfter(y, m).english = PanelAfter(x, m).english
  <2>1. CASE m \in Flips
    <3>1. Flipped(Flipped(x.on, s), m.switch) = Flipped(Flipped(x.on, m.switch), s)
      BY <2>1, FlippedFacts DEF Panel, Flips
    <3> QED BY <1>3, <2>1, <3>1 DEF PanelAfter, Panel, Flips
  <2>2. CASE m \in [kind : {"mode"}, english : BOOLEAN]
    BY <1>3, <2>2 DEF PanelAfter, Panel
  <2> QED BY <2>1, <2>2 DEF PanelMsg
<1>4. ASSUME NEW x, NEW y, NEW m \in S, <<x, y>> \in R
      PROVE  <<PanelAfter(x, m), PanelAfter(y, m)>> \in R
  <2>1. x \in Panel /\ y \in Panel /\ y.on = Flipped(x.on, s) /\ y.english = x.english /\ m \in PanelMsg
    BY <1>4
  <2> QED BY <1>3, <2>1, PanelAfterType
<1> HIDE DEF R, S
<1>5. <<T!Outcome(p, q), T!Outcome(r, q)>> \in R
  BY <1>1, <1>2, <1>4, T!OutcomesStayRelated
<1> QED BY <1>5 DEF R

LEMMA ShortcutCommutes ==
  ASSUME NEW on \in OnOff, NEW s \in Switches, NEW q \in Seq(EngineMsg)
  PROVE  E!Outcome(Flipped(on, s), q) = Flipped(E!Outcome(on, q), s)
<1> DEFINE R == {xy \in OnOff \X OnOff : xy[2] = Flipped(xy[1], s)}
<1>1. <<on, Flipped(on, s)>> \in R
  BY FlippedFacts
<1>2. ASSUME NEW x, NEW y, NEW m \in EngineMsg, <<x, y>> \in R
      PROVE  <<OnAfter(x, m), OnAfter(y, m)>> \in R
  <2>1. x \in OnOff /\ y \in OnOff /\ y = Flipped(x, s)
    BY <1>2
  <2>2. CASE m \in Flips
    BY <2>1, <2>2, FlippedFacts DEF OnAfter, Flips
  <2>3. CASE m \notin Flips
    BY <2>1, <2>3 DEF OnAfter, EngineMsg
  <2> QED BY <2>2, <2>3
<1> HIDE DEF R
<1>3. <<E!Outcome(on, q), E!Outcome(Flipped(on, s), q)>> \in R
  BY <1>1, <1>2, E!OutcomesStayRelated
<1> QED BY <1>3 DEF R

LEMMA SwitchesInit == Init => SwitchesMeet
<1> SUFFICES ASSUME Init PROVE SwitchesMeet
  OBVIOUS
<1>1. TypeOK
  BY TypeInit
<1>2. /\ T!Outcome(panel, toPanel) = PanelAfter(panel, AllMsg(engine))
      /\ E!Outcome(engine.on, toEngine) = engine.on
  BY T!OutcomeOfOne, E!OutcomeOfNone DEF Init
<1>3. /\ PanelAfter(panel, AllMsg(engine)).on = engine.on
      /\ PanelAfter(panel, AllMsg(engine)).english = engine.english
  BY <1>1 DEF PanelAfter, AllMsg, TypeOK, Panel
<1> QED
  BY <1>2, <1>3 DEF SwitchesMeet, PanelToBe, ToolbarTaken!Outcome, T!Outcome, OnToBe, SignalsTaken!Outcome, E!Outcome

LEMMA SwitchesStep == TypeOK /\ SwitchesMeet /\ [Next]_vars => SwitchesMeet'
<1> SUFFICES ASSUME TypeOK, SwitchesMeet, [Next]_vars, knows' PROVE SwitchesMeet'
  BY DEF SwitchesMeet
<1> DEFINE Bar(p, q) == T!Outcome(p, q)
           On(on, q) == E!Outcome(on, q)
           Meet(e, p, q, r) == Bar(p, q).on = On(e.on, r) /\ Bar(p, q).english = e.english
<1>1. /\ SwitchesMeet  <=> (knows => Meet(engine, panel, toPanel, toEngine))
      /\ SwitchesMeet' <=> (knows' => Meet(engine', panel', toPanel', toEngine'))
  BY DEF SwitchesMeet, PanelToBe, ToolbarTaken!Outcome, T!Outcome, OnToBe, SignalsTaken!Outcome, E!Outcome
<1>2. /\ engine \in Engine /\ panel \in Panel /\ file \in File /\ panel' \in Panel
      /\ engine.on \in OnOff /\ engine.english \in BOOLEAN
      /\ toPanel \in Seq(PanelMsg) /\ toEngine \in Seq(EngineMsg) /\ toPanel' \in Seq(PanelMsg)
  BY TypeStep DEF TypeOK, Engine
<1>3. Bar(panel, toPanel) \in Panel /\ On(engine.on, toEngine) \in OnOff
  BY <1>2, PanelOutcomeType, OnOutcomeType
<1>4. ASSUME NEW m \in PanelMsg PROVE Bar(panel, Append(toPanel, m)) = PanelAfter(Bar(panel, toPanel), m)
  BY <1>2, T!OutcomeOfAppend
<1>5. ASSUME NEW m \in EngineMsg PROVE On(engine.on, Append(toEngine, m)) = OnAfter(On(engine.on, toEngine), m)
  BY <1>2, E!OutcomeOfAppend
<1>6. toPanel # <<>> => Bar(PanelAfter(panel, Head(toPanel)), Tail(toPanel)) = Bar(panel, toPanel)
  BY <1>2, T!OutcomeOfTail
<1>7. toEngine # <<>> => On(OnAfter(engine.on, Head(toEngine)), Tail(toEngine)) = On(engine.on, toEngine)
  BY <1>2, E!OutcomeOfTail
<1>8. ASSUME panel'.on = panel.on, panel'.english = panel.english
      PROVE  Bar(panel', toPanel).on = Bar(panel, toPanel).on /\ Bar(panel', toPanel).english = Bar(panel, toPanel).english
  BY <1>2, <1>8, KeyboardNoMatter
<1>9. \A s \in Switches : On(Flipped(engine.on, s), toEngine) = Flipped(On(engine.on, toEngine), s)
  BY <1>2, ShortcutCommutes
<1>10. ASSUME NEW s \in Switches, panel' = [panel EXCEPT !.on = Flipped(@, s)],
              \A i \in 1 .. Len(toPanel) : toPanel[i].kind # "all"
       PROVE  /\ Bar(panel', toPanel).on = Flipped(Bar(panel, toPanel).on, s)
              /\ Bar(panel', toPanel).english = Bar(panel, toPanel).english
  BY <1>2, <1>10, ClickCommutes
<1>11. On(NewEngine.on, <<>>) = NewEngine.on
  BY E!OutcomeOfNone
<1> HIDE DEF Bar, On
<1>12. ASSUME knows, engine'.on = engine.on, engine'.english = engine.english, panel'.on = panel.on,
              panel'.english = panel.english, toPanel' = toPanel,
              toEngine' = toEngine \/ Signal(ReloadMsg) \/ Signal(NextMsg)
       PROVE  SwitchesMeet'
  <2>1. On(engine'.on, toEngine') = On(engine.on, toEngine)
    <3>1. OnAfter(On(engine.on, toEngine), ReloadMsg) = On(engine.on, toEngine)
      BY DEF OnAfter, ReloadMsg
    <3>2. OnAfter(On(engine.on, toEngine), NextMsg) = On(engine.on, toEngine)
      BY DEF OnAfter, NextMsg
    <3> QED BY <1>5, <1>12, <3>1, <3>2, MessageFacts DEF Signal
  <2> QED BY <1>1, <1>8, <1>12, <2>1
<1>13. ASSUME NEW s \in Switches, Shortcut(s) PROVE SwitchesMeet'
  <2> DEFINE bar == Bar(panel, toPanel)
  <2>1. knows /\ engine'.on = Flipped(engine.on, s) /\ engine'.english = engine.english
        /\ (s \in Frozen => ~engine.english) /\ panel' = panel /\ toEngine' = toEngine
        /\ toPanel' = Append(toPanel, FlipMsg(s))
    BY <1>2, <1>13 DEF Shortcut, ToPanel, Engine
  <2>2. Bar(panel', toPanel') = PanelAfter(bar, FlipMsg(s))
    BY <1>4, <2>1, MessageFacts
  <2>3. PanelAfter(bar, FlipMsg(s)).on = Flipped(bar.on, s) /\ PanelAfter(bar, FlipMsg(s)).english = bar.english
    BY <1>1, <1>3, <2>1 DEF PanelAfter, FlipMsg, Panel
  <2>4. On(engine'.on, toEngine') = Flipped(On(engine.on, toEngine), s)
    BY <1>9, <2>1
  <2> QED BY <1>1, <2>1, <2>2, <2>3, <2>4
<1>14. ASSUME NEW s \in Switches, Click(s) PROVE SwitchesMeet'
  <2>1. /\ knows /\ \A i \in 1 .. Len(toPanel) : toPanel[i].kind # "all"
        /\ panel' = [panel EXCEPT !.on = Flipped(@, s)] /\ toEngine' = Append(toEngine, FlipMsg(s))
        /\ UNCHANGED <<engine, toPanel>>
    BY <1>14 DEF Click, Signal
  <2>2. On(engine'.on, toEngine') = Flipped(On(engine.on, toEngine), s)
    BY <1>5, <2>1, MessageFacts DEF OnAfter, FlipMsg
  <2> QED BY <1>1, <1>10, <2>1, <2>2
<1>15. ASSUME NEW en \in BOOLEAN, ModeBecomes(en), knows, panel' = panel,
              On(engine'.on, toEngine') = On(engine.on, toEngine)
       PROVE  SwitchesMeet'
  <2> DEFINE bar == Bar(panel, toPanel)
  <2>1. Bar(panel', toPanel') = PanelAfter(bar, ModeMsg(en)) /\ engine'.english = en
    BY <1>2, <1>4, <1>15, MessageFacts DEF ModeBecomes, ToPanel, Engine
  <2>2. PanelAfter(bar, ModeMsg(en)).on = bar.on /\ PanelAfter(bar, ModeMsg(en)).english = en
    BY <1>3 DEF PanelAfter, ModeMsg, Panel
  <2> QED BY <1>1, <1>15, <2>1, <2>2
<1>16. CASE SwitchKey
  <2>1. PICK en \in BOOLEAN : ModeBecomes(en)
    BY <1>2, <1>16 DEF SwitchKey
  <2>2. knows /\ panel' = panel /\ engine'.on = engine.on /\ toEngine' = toEngine
    BY <1>2, <1>16, <2>1 DEF SwitchKey, ModeBecomes, Engine
  <2> QED BY <1>15, <2>1, <2>2
<1>17. CASE TempPinyinBegins \/ TempPinyinEnds
  <2>1. /\ knows /\ UNCHANGED <<panel, toPanel, toEngine>> /\ engine'.on = engine.on
        /\ engine'.english = engine.english
    BY <1>2, <1>17 DEF TempPinyinBegins, TempPinyinEnds, Engine
  <2> QED BY <1>12, <2>1
<1>18. CASE PairKey \/ VkKey
  <2>1. knows /\ UNCHANGED <<panel, toPanel, toEngine>> /\ engine'.on = engine.on /\ engine'.english = engine.english
    BY <1>2, <1>18 DEF PairKey, VkKey, Engine
  <2> QED BY <1>12, <2>1
<1>19. CASE EngineTakesFlip
  <2>1. /\ knows /\ UNCHANGED <<panel, toPanel>> /\ engine'.english = engine.english /\ toEngine # <<>>
        /\ engine'.on = OnAfter(engine.on, Head(toEngine)) /\ toEngine' = Tail(toEngine)
    BY <1>2, <1>19 DEF EngineTakesFlip, OnAfter, Engine
  <2> QED BY <1>1, <1>7, <2>1
<1>20. CASE EngineTakesNext
  <2>1. /\ knows /\ panel' = panel /\ toEngine # <<>> /\ toEngine' = Tail(toEngine)
        /\ engine'.on = OnAfter(engine.on, Head(toEngine)) /\ ModeBecomes(FALSE)
    BY <1>2, <1>20 DEF EngineTakesNext, ModeBecomes, OnAfter, Engine
  <2> QED BY <1>7, <1>15, <2>1
<1>21. CASE EngineTakesReload
  <2>1. /\ knows /\ UNCHANGED <<panel, toPanel>> /\ engine'.english = engine.english /\ toEngine # <<>>
        /\ engine'.on = OnAfter(engine.on, Head(toEngine)) /\ toEngine' = Tail(toEngine)
    BY <1>2, <1>21 DEF EngineTakesReload, ConfigRead, OnAfter, Engine
  <2> QED BY <1>1, <1>7, <2>1
<1>22. CASE PanelTakes
  <2>1. /\ knows /\ toPanel # <<>> /\ panel' = PanelAfter(panel, Head(toPanel)) /\ toPanel' = Tail(toPanel)
        /\ UNCHANGED <<engine, toEngine>>
    BY <1>22 DEF PanelTakes
  <2> QED BY <1>1, <1>6, <2>1
<1>23. ASSUME knows, (\E mode \in VkModes : OpenVk(mode)) \/ CloseVk, UNCHANGED <<engine, toPanel>>
       PROVE  SwitchesMeet'
  <2>1. panel'.on = panel.on /\ panel'.english = panel.english /\ (toEngine' = toEngine \/ Signal(ReloadMsg))
    BY <1>2, <1>23 DEF OpenVk, CloseVk, Panel
  <2> QED BY <1>12, <1>23, <2>1
<1>24. CASE PanelTakesCall
  <2>1. Head(calls) \in PanelCall
    BY <1>24, HeadTailProperties DEF PanelTakesCall, TypeOK
  <2>2. CASE Head(calls) = "pair"
    <3>1. knows /\ UNCHANGED <<engine, panel, toPanel, toEngine>>
      BY <1>24, <2>2 DEF PanelTakesCall
    <3> QED BY <1>12, <3>1
  <2>3. CASE Head(calls) # "pair"
    <3>1. NextVk \in VkModes
      BY <1>2, ModeFacts DEF Panel
    <3> QED BY <1>23, <1>24, <2>1, <2>3, <3>1 DEF PanelTakesCall, PanelCall
  <2> QED BY <2>2, <2>3
<1>25. CASE ClickVk
  BY <1>23, <1>25 DEF ClickVk
<1>26. CASE ClickMode \/ SettingsOk \/ SettingsPair
  <2>1. knows /\ UNCHANGED <<engine, panel, toPanel>> /\ (toEngine' = toEngine \/ Signal(ReloadMsg) \/ Signal(NextMsg))
    BY <1>26 DEF ClickMode, SettingsOk, SettingsPair
  <2> QED BY <1>12, <2>1
<1>27. CASE PanelDies
  BY <1>27 DEF PanelDies
<1>28. CASE PanelStarts
  <2>1. knows /\ UNCHANGED <<engine, toPanel>> /\ Signal(ReloadMsg)
    BY <1>28 DEF PanelStarts
  <2>2. panel'.on = panel.on /\ panel'.english = panel.english
    BY <1>28 DEF PanelStarts, TypeOK, NewPanel
  <2> QED BY <1>12, <2>1, <2>2
<1>29. CASE EngineRestarts
  <2> DEFINE bar == Bar(panel, toPanel)
  <2>1. engine' = NewEngine /\ toPanel' = Append(toPanel, AllMsg(NewEngine)) /\ toEngine' = <<>> /\ panel' = panel
    BY <1>29 DEF EngineRestarts, ToPanel
  <2>2. Bar(panel', toPanel') = PanelAfter(bar, AllMsg(NewEngine))
    BY <1>2, <1>4, <2>1, NewValues
  <2>3. /\ PanelAfter(bar, AllMsg(NewEngine)).on = NewEngine.on
        /\ PanelAfter(bar, AllMsg(NewEngine)).english = NewEngine.english
    BY <1>3 DEF PanelAfter, AllMsg, Panel
  <2> QED BY <1>1, <1>11, <2>1, <2>2, <2>3
<1>30. CASE UNCHANGED vars
  <2>1. knows /\ UNCHANGED <<engine, panel, toPanel, toEngine>>
    BY <1>30 DEF vars
  <2> QED BY <1>12, <2>1
<1> QED
  BY <1>13, <1>14, <1>16, <1>17, <1>18, <1>19, <1>20, <1>21, <1>22, <1>24, <1>25, <1>26, <1>27, <1>28, <1>29, <1>30
     DEF Next, EngineTakes

\* Flips that cross on their way cancel out: toolbar and engine agree on every
\* switch and on the mode once both have taken what is on its way, however many
\* messages that is, unless something got past the toolbar (knows).
THEOREM SwitchesCorrect == Spec => []SwitchesMeet
BY TypeInit, TypeStep, SwitchesInit, SwitchesStep, PTL DEF Spec
=============================================================================
