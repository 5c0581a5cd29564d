------------------------------- MODULE Toolbar -------------------------------
(***************************************************************************)
(* The switches that the engine and the panel's toolbar both keep (full    *)
(* width, Chinese punctuation, simplified or traditional, character set),  *)
(* the input mode, and the two settings that reach the engine through the  *)
(* configuration file: the pairing of marks and the virtual keyboard.      *)
(*                                                                         *)
(* A switch is flipped by a shortcut in the engine or by a click on the    *)
(* toolbar; either side flips its own copy and sends the other a message   *)
(* that says "flip" and no value.  Only an engine that starts sends values.*)
(* Panel and engine start and die on their own.  Calls on the panel's      *)
(* service wait for it (it is started by D-Bus); calls on the settings     *)
(* service are lost while no panel runs.                                   *)
(***************************************************************************)
EXTENDS Integers, Sequences, SequencesExt

CONSTANTS
  Switches,   \* the switches both sides keep
  Frozen,     \* those that do not move under the English engine: "punc"
  Initially,  \* their values in the configuration: Switches -> BOOLEAN
  VkOrder,    \* the virtual keyboard's modes in order, VK_MODE_PC first
  Closed,     \* VK_MODE_CLOSED
  MaxQueue    \* bound: messages on their way when a key or a click adds one

VkModes == ToSet(VkOrder)
Pc      == Head(VkOrder)

ASSUME ToolbarAssumption ==
  /\ Frozen \subseteq Switches /\ Initially \in [Switches -> BOOLEAN]
  /\ VkOrder \in Seq(VkModes) /\ VkOrder # <<>> /\ Closed \notin VkModes
  /\ MaxQueue \in Nat

VARIABLES
  engine,    \* [on, english, temp, pair, vk]: Punc, CharWidth, Chttrans, the
             \* character set; the engine is engine:en; temporary Pinyin is
             \* open; puncAutoPairEnabled_; VirtualKeyboard::mode_
  panel,     \* [up, on, english, vk, open]: the toolbar's copies and the
             \* virtual keyboard's work mode and window
  file,      \* [pair, vk]: the configuration file
  toPanel,   \* calls on org.freewb.panel on their way
  calls,     \* calls on org.freewb.settings on their way
  toEngine,  \* signals of the panel on their way
  knows,     \* history: nothing got past the toolbar since the engine told it
  paired     \* history: nothing got past the file since the engine read it

vars == <<engine, panel, file, toPanel, calls, toEngine, knows, paired>>

-----------------------------------------------------------------------------
(* Messages and what they do to the side that takes them. *)

FlipMsg(s)  == [kind |-> "flip", switch |-> s]
ModeMsg(en) == [kind |-> "mode", english |-> en]
AllMsg(e)   == [kind |-> "all", on |-> e.on, english |-> e.english]
NextMsg     == [kind |-> "next"]
ReloadMsg   == [kind |-> "reload"]

\* changeAvailable() and the toolbar's toggles.
Flipped(on, s) == [on EXCEPT ![s] = ~@]

\* toggle_mark_mode(), toggle_char_width_mode(), switch_char_set() ...;
\* set_input_mode(); slot_update_toolbar_properties().
PanelAfter(p, msg) ==
  CASE msg.kind = "flip" -> IF msg.switch \in Frozen /\ p.english THEN p
                            ELSE [p EXCEPT !.on = Flipped(@, msg.switch)]
    [] msg.kind = "mode" -> [p EXCEPT !.english = msg.english]
    [] msg.kind = "all"  -> [p EXCEPT !.on = msg.on, !.english = msg.english]

NewEngine == [on |-> Initially, english |-> FALSE, temp |-> FALSE,
              pair |-> file.pair, vk |-> file.vk]

\* The toolbar reads its copies from the configuration and nothing else.
NewPanel == [up |-> TRUE, on |-> Initially, english |-> FALSE, vk |-> Pc, open |-> FALSE]

Init ==
  /\ file \in [pair : BOOLEAN, vk : {Closed}]
  /\ engine = NewEngine
  /\ panel = [NewPanel EXCEPT !.up = FALSE]
  /\ toPanel = <<AllMsg(engine)>> /\ calls = <<>> /\ toEngine = <<>>
  /\ knows = TRUE /\ paired = TRUE

\* Users add no message, and nobody restarts, while there are MaxQueue of them.
Room == Len(toPanel) + Len(calls) + Len(toEngine) < MaxQueue

ToPanel(msg) == toPanel' = Append(toPanel, msg)
Call(msg)    == calls' = IF panel.up THEN Append(calls, msg) ELSE calls
Signal(msg)  == toEngine' = Append(toEngine, msg)

-----------------------------------------------------------------------------
(* Keys in the engine (handleComboKey, processKeyRelease). *)

\* Mutant of Shortcut: punctuation is flipped under English too.
MutShortcut(s) ==
  /\ Room
  /\ engine' = [engine EXCEPT !.on = Flipped(@, s)]
  /\ ToPanel(FlipMsg(s))
  /\ UNCHANGED <<panel, file, calls, toEngine, knows, paired>>

\* Shift+space, Ctrl+. and the shortcuts of the other switches.
Shortcut(s) ==
  /\ Room
  /\ s \in Frozen => ~engine.english
  /\ engine' = [engine EXCEPT !.on = Flipped(@, s)]
  /\ ToPanel(FlipMsg(s))
  /\ UNCHANGED <<panel, file, calls, toEngine, knows, paired>>

\* A switch of the mode, toggleEnglishEngine() or nextEngine(), and the call
\* that names the engine it led to.
ModeBecomes(en) ==
  /\ engine' = [engine EXCEPT !.english = en]
  /\ ToPanel(ModeMsg(en))

\* The key for English was released, or the shortcut for the next mode.
SwitchKey ==
  /\ Room
  /\ \E en \in {~engine.english, FALSE} : ModeBecomes(en)
  /\ UNCHANGED <<panel, file, calls, toEngine, knows, paired>>

\* Temporary Pinyin changes the engine and back and tells the toolbar nothing:
\* what was switched to meanwhile is left on the toolbar.
TempPinyinBegins ==
  /\ ~engine.english /\ ~engine.temp
  /\ engine' = [engine EXCEPT !.temp = TRUE]
  /\ UNCHANGED <<panel, file, toPanel, calls, toEngine, knows, paired>>

TempPinyinEnds ==
  /\ engine.temp
  /\ engine' = [engine EXCEPT !.temp = FALSE, !.english = FALSE]
  /\ knows' = (knows /\ ~engine.english)
  /\ UNCHANGED <<panel, file, toPanel, calls, toEngine, paired>>

\* Ctrl+' (markAutoPair): the engine flips its copy, the panel is to flip the
\* setting.
PairKey ==
  /\ Room
  /\ engine' = [engine EXCEPT !.pair = ~@]
  /\ Call("pair")
  /\ paired' = (paired /\ panel.up)
  /\ UNCHANGED <<panel, file, toPanel, toEngine, knows>>

\* Ctrl and the key for the virtual keyboard, and Esc, which closes it.
VkKey ==
  /\ Room
  /\ \E msg \in {"switchVk", "hideVk"} : Call(msg)
  /\ UNCHANGED <<engine, panel, file, toPanel, toEngine, knows, paired>>

-----------------------------------------------------------------------------
(* The engine takes a signal of the panel. *)

\* Mutant of ConfigRead: loadSettings of the virtual keyboard is left out.
MutConfigRead == [engine EXCEPT !.pair = file.pair]

\* Mutant of ConfigRead: the marks' settings are read once, when the engine starts.
MutConfigReadMarks == [engine EXCEPT !.vk = file.vk]

\* reloadConfig(), of which the switches and the mode are no part.
ConfigRead == [engine EXCEPT !.pair = file.pair, !.vk = file.vk]

EngineTakesFlip ==
  /\ toEngine # <<>> /\ Head(toEngine).kind = "flip"
  /\ engine' = [engine EXCEPT !.on = Flipped(@, Head(toEngine).switch)]
  /\ toEngine' = Tail(toEngine)
  /\ UNCHANGED <<panel, file, toPanel, calls, knows, paired>>

EngineTakesNext ==
  /\ toEngine # <<>> /\ Head(toEngine).kind = "next"
  /\ ModeBecomes(FALSE)
  /\ toEngine' = Tail(toEngine)
  /\ UNCHANGED <<panel, file, calls, knows, paired>>

\* The file is read as it is by then: a flip of the pairing that the panel has
\* not yet heard of is undone in the engine and done in the file.
EngineTakesReload ==
  /\ toEngine # <<>> /\ Head(toEngine).kind = "reload"
  /\ engine' = ConfigRead
  /\ toEngine' = Tail(toEngine)
  /\ paired' = ("pair" \notin ToSet(calls))
  /\ UNCHANGED <<panel, file, toPanel, calls, knows>>

EngineTakes == EngineTakesFlip \/ EngineTakesNext \/ EngineTakesReload

-----------------------------------------------------------------------------
(* The panel. *)

\* on_btnMark_clicked() and its like.  A click made before the values of a new
\* engine have arrived is overwritten by them, its signal is not.
Click(s) ==
  /\ Room
  /\ panel.up
  /\ s \in Frozen => ~panel.english
  /\ panel' = [panel EXCEPT !.on = Flipped(@, s)]
  /\ Signal(FlipMsg(s))
  /\ knows' = (knows /\ \A i \in 1 .. Len(toPanel) : toPanel[i].kind # "all")
  /\ UNCHANGED <<engine, file, toPanel, calls, paired>>

\* on_btnMode_clicked()
ClickMode ==
  /\ Room
  /\ panel.up
  /\ Signal(NextMsg)
  /\ UNCHANGED <<engine, panel, file, toPanel, calls, knows, paired>>

PanelTakes ==
  /\ panel.up /\ toPanel # <<>>
  /\ panel' = PanelAfter(panel, Head(toPanel))
  /\ toPanel' = Tail(toPanel)
  /\ UNCHANGED <<engine, file, calls, toEngine, knows, paired>>

\* Mutant of OpenVk: a keyboard that is open already takes its mode for written.
MutOpenVk(mode) ==
  /\ panel' = [panel EXCEPT !.vk = mode, !.open = TRUE]
  /\ file' = IF panel.open THEN file ELSE [file EXCEPT !.vk = mode]
  /\ Signal(ReloadMsg)

\* slot_open_win(mode): the mode is written and ReloadConfig sent, though the
\* window may be open in that mode already.
OpenVk(mode) ==
  /\ panel' = [panel EXCEPT !.vk = mode, !.open = TRUE]
  /\ file' = [file EXCEPT !.vk = mode]
  /\ Signal(ReloadMsg)

\* closeWin()
CloseVk ==
  IF panel.open
  THEN /\ panel' = [panel EXCEPT !.open = FALSE]
       /\ file' = [file EXCEPT !.vk = Closed]
       /\ Signal(ReloadMsg)
  ELSE UNCHANGED <<panel, file, toEngine>>

\* switch_vk(0): opens the keyboard, or the next mode of an open one.
NextVk ==
  IF ~panel.open THEN panel.vk
  ELSE LET i == CHOOSE j \in 1 .. Len(VkOrder) : VkOrder[j] = panel.vk
       IN  VkOrder[(i % Len(VkOrder)) + 1]

PanelTakesCall ==
  /\ panel.up /\ calls # <<>>
  /\ calls' = Tail(calls)
  /\ CASE Head(calls) = "pair" ->
            /\ file' = [file EXCEPT !.pair = ~@]
            /\ UNCHANGED <<panel, toEngine>>
       [] Head(calls) = "switchVk" -> OpenVk(NextVk)
       [] Head(calls) = "hideVk"   -> CloseVk
  /\ UNCHANGED <<engine, toPanel, knows, paired>>

\* The toolbar's button and its menu of modes.
ClickVk ==
  /\ Room
  /\ panel.up
  /\ (\E mode \in VkModes : OpenVk(mode)) \/ (panel.open /\ CloseVk)
  /\ UNCHANGED <<engine, toPanel, calls, knows, paired>>

\* The settings window: the pairing is written as it is ticked, and the engine
\* told when the window is closed by its button.
SettingsPair ==
  /\ panel.up
  /\ file' = [file EXCEPT !.pair = ~@]
  /\ paired' = FALSE
  /\ UNCHANGED <<engine, panel, toPanel, calls, toEngine, knows>>

SettingsOk ==
  /\ Room
  /\ panel.up
  /\ Signal(ReloadMsg)
  /\ UNCHANGED <<engine, panel, file, toPanel, calls, knows, paired>>

-----------------------------------------------------------------------------
(* Deaths and starts. *)

\* What the panel was sent dies with it; what it sent is still on its way.
PanelDies ==
  /\ Room
  /\ panel.up
  /\ panel' = [NewPanel EXCEPT !.up = FALSE]
  /\ toPanel' = <<>> /\ calls' = <<>>
  /\ knows' = FALSE
  /\ paired' = (paired /\ "pair" \notin ToSet(calls))
  /\ UNCHANGED <<engine, file, toEngine>>

\* Mutant of PanelStarts: the mode left in the file is not taken back.
MutPanelStarts ==
  /\ ~panel.up
  /\ panel' = NewPanel
  /\ Signal(ReloadMsg)
  /\ UNCHANGED <<engine, file, toPanel, calls, knows, paired>>

\* MainProgram(), VirtualKeyboard(): the keyboard is closed in the file, the
\* engine is told to read it, and nothing is asked of the engine.
PanelStarts ==
  /\ ~panel.up
  /\ panel' = NewPanel
  /\ file' = [file EXCEPT !.vk = Closed]
  /\ Signal(ReloadMsg)
  /\ UNCHANGED <<engine, toPanel, calls, knows, paired>>

\* Freewb(): the signals to the old engine are lost, its own calls are not;
\* the values of the switches and the mode are sent once.
EngineRestarts ==
  /\ Room
  /\ engine' = NewEngine
  /\ ToPanel(AllMsg(NewEngine))
  /\ toEngine' = <<>>
  /\ knows' = TRUE
  /\ paired' = ("pair" \notin ToSet(calls))
  /\ UNCHANGED <<panel, file, calls>>

Next ==
  \/ \E s \in Switches : Shortcut(s) \/ Click(s)
  \/ SwitchKey \/ TempPinyinBegins \/ TempPinyinEnds \/ PairKey \/ VkKey
  \/ EngineTakes
  \/ ClickMode \/ PanelTakes \/ PanelTakesCall \/ ClickVk \/ SettingsPair \/ SettingsOk
  \/ PanelDies \/ PanelStarts \/ EngineRestarts

\* Whoever runs takes what it is sent, and the panel is started again: by the
\* session, or by D-Bus for the next call on its service.
Fairness == WF_vars(EngineTakes) /\ WF_vars(PanelTakes) /\ WF_vars(PanelStarts)

Spec == Init /\ [][Next]_vars /\ Fairness

-----------------------------------------------------------------------------
\* What either side keeps once it has taken the messages on their way.
ToolbarTaken == INSTANCE InOrder WITH After <- PanelAfter
PanelToBe    == ToolbarTaken!Outcome(panel, toPanel)

OnAfter(on, msg) == IF msg.kind = "flip" THEN Flipped(on, msg.switch) ELSE on
SignalsTaken     == INSTANCE InOrder WITH After <- OnAfter
OnToBe           == SignalsTaken!Outcome(engine.on, toEngine)

PairAfter(pair, call) == IF call = "pair" THEN ~pair ELSE pair
CallsTaken            == INSTANCE InOrder WITH After <- PairAfter
PairToBe              == CallsTaken!Outcome(file.pair, calls)

OnOff  == [Switches -> BOOLEAN]
Engine == [on : OnOff, english : BOOLEAN, temp : BOOLEAN, pair : BOOLEAN, vk : VkModes \cup {Closed}]
Panel  == [up : BOOLEAN, on : OnOff, english : BOOLEAN, vk : VkModes, open : BOOLEAN]
File   == [pair : BOOLEAN, vk : VkModes \cup {Closed}]

Flips      == [kind : {"flip"}, switch : Switches]
PanelMsg   == Flips \cup [kind : {"mode"}, english : BOOLEAN] \cup [kind : {"all"}, on : OnOff, english : BOOLEAN]
PanelCall  == {"pair", "switchVk", "hideVk"}
EngineMsg  == Flips \cup [kind : {"next", "reload"}]

\* Every copy has the values it may have, and so has every message; the mode
\* in the file is that of the window while a panel runs.
TypeOK ==
  /\ engine \in Engine /\ panel \in Panel /\ file \in File
  /\ toPanel \in Seq(PanelMsg) /\ calls \in Seq(PanelCall) /\ toEngine \in Seq(EngineMsg)
  /\ knows \in BOOLEAN /\ paired \in BOOLEAN
  /\ panel.up => file.vk = IF panel.open THEN panel.vk ELSE Closed
  /\ ~panel.up => panel = [NewPanel EXCEPT !.up = FALSE]

\* Flips that cross on their way cancel out: whatever keys and clicks there
\* were, toolbar and engine agree on every switch, and on whether the mode is
\* English, once both have taken what is on its way, if no panel died since the
\* engine started, no click came before the first values and no mode was
\* changed under temporary Pinyin.
SwitchesMeet ==
  knows => PanelToBe.on = OnToBe /\ PanelToBe.english = engine.english

\* The engine pairs marks as the setting says, once the calls on their way are
\* taken, if no reload overtook one of them.
PairingMeets == paired => engine.pair = PairToBe

\* The engine maps keys as the keyboard that is open does, or is about to be
\* told: also after a panel that died with its keyboard open came back.
KeyboardMeets ==
  panel.up => \/ engine.vk = IF panel.open THEN panel.vk ELSE Closed
              \/ ReloadMsg \in ToSet(toEngine)

\* Keys are not mapped for good by a keyboard nobody sees, though the panel may
\* die with it open at any time.
KeyboardLetsGo == ~panel.open ~> (engine.vk = Closed \/ panel.open)
=============================================================================
