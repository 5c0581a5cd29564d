------------------------------ MODULE PanelLink ------------------------------
(***************************************************************************)
(* The candidate list and the window that shows it, in another process.    *)
(* The engine sends the preedit and the page after every key it was given  *)
(* (Freewb::updateCandidateAndPreeditToUI), and the window answers with    *)
(* clicks on candidates and arrows; both are late.  A click hides the      *)
(* window at once, and the commit it leads to sends nothing.  fcitx5       *)
(* resets the engine without an update.  The panel may die and come back.  *)
(***************************************************************************)
EXTENDS CandidateList

CONSTANT MaxQueue   \* bound: messages on their way when a user adds some

ASSUME PanelLinkAssumption == MaxQueue \in Nat

VARIABLES
  window,    \* [up, visible, items, prev, next]: InputWin
  toPanel,   \* calls of the engine on org.freewb.panel on their way
  signals,   \* signals of the panel on their way
  told       \* history: neither a click nor a reset crossed an update

linkVars == <<vars, window, toPanel, signals, told>>

NoWindow == [up |-> FALSE, visible |-> FALSE, items |-> <<>>, prev |-> FALSE, next |-> FALSE]
NewWindow == [NoWindow EXCEPT !.up = TRUE]

LinkInit == Init /\ window = NoWindow /\ toPanel = <<>> /\ signals = <<>> /\ told = TRUE

Room == Len(toPanel) + Len(signals) < MaxQueue

-----------------------------------------------------------------------------
(* The engine. *)

\* UpdatePreeditText, and SetLookupTable with ShowLookupTable.
PreeditMsg(l) == [kind |-> "preedit", some |-> ~NoPreedit(l)]
TableMsg(l)   == [kind |-> "table", items |-> l.shown, prev |-> HasPrev(l), next |-> HasNext(l)]

Selecting == \E i \in DOMAIN signals : signals[i].kind = "select"

\* updateCandidateAndPreeditToUI()
Update ==
  /\ toPanel' = toPanel \o <<PreeditMsg(list'), TableMsg(list')>>
  /\ told' = ~Selecting
  /\ UNCHANGED window

\* A key was pressed or released; a loss of focus, and a reset under fcitx4 or
\* ibus.
Key ==
  /\ Room
  /\ (\E c \in Codes : Compose(c)) \/ Pop \/ Discard \/ PageKeyPrev \/ PageKeyNext \/ UNCHANGED vars
  /\ Update
  /\ UNCHANGED signals

\* A reset under fcitx5.
SilentReset ==
  /\ Room
  /\ Discard
  /\ told' = (told /\ NoPreedit(list))
  /\ UNCHANGED <<window, toPanel, signals>>

\* SelectCandidate: what is picked is committed, and the list cleared.
TakeSelect ==
  /\ signals # <<>> /\ Head(signals).kind = "select"
  /\ Discard
  /\ signals' = Tail(signals)
  /\ UNCHANGED <<window, toPanel, told>>

\* LookupTablePageUp, LookupTablePageDown and ReloadConfig.
TakeOther ==
  /\ signals # <<>>
  /\ \/ Head(signals).kind = "up" /\ LookupTablePageUp
     \/ Head(signals).kind = "down" /\ LookupTablePageDown
     \/ Head(signals).kind = "reload" /\ ReloadConfig
  /\ Update
  /\ signals' = Tail(signals)

EngineTakes == TakeSelect \/ TakeOther

-----------------------------------------------------------------------------
(* The panel. *)

\* Mutant of WindowAfter: an empty preedit leaves the window as it is.
MutWindowAfter(w, msg) ==
  IF msg.kind = "preedit" THEN [w EXCEPT !.visible = @ \/ msg.some]
  ELSE [w EXCEPT !.items = msg.items, !.prev = msg.prev, !.next = msg.next,
                 !.visible = @ \/ msg.items # <<>>]

\* slot_kim_UpdatePreeditText(), slot_kim_SetLookupTable() and
\* slot_kim_ShowLookupTable(), which never hides.
WindowAfter(w, msg) ==
  IF msg.kind = "preedit" THEN [w EXCEPT !.visible = msg.some]
  ELSE [w EXCEPT !.items = msg.items, !.prev = msg.prev, !.next = msg.next,
                 !.visible = @ \/ msg.items # <<>>]

PanelTakes ==
  /\ window.up /\ toPanel # <<>>
  /\ window' = WindowAfter(window, Head(toPanel))
  /\ toPanel' = Tail(toPanel)
  /\ UNCHANGED <<vars, signals, told>>

\* Mutant of ClickCandidate: the window waits for the engine to hide it.
MutClickCandidate(i) ==
  /\ Room
  /\ window.visible /\ i < Len(window.items)
  /\ signals' = Append(signals, [kind |-> "select", index |-> i])
  /\ told' = (told /\ toPanel = <<>>)
  /\ UNCHANGED <<vars, window, toPanel>>

\* on_candidate_clicked()
ClickCandidate(i) ==
  /\ Room
  /\ window.visible /\ i < Len(window.items)
  /\ signals' = Append(signals, [kind |-> "select", index |-> i])
  /\ window' = [window EXCEPT !.visible = FALSE]
  /\ told' = (told /\ toPanel = <<>>)
  /\ UNCHANGED <<vars, toPanel>>

\* slot_btnPrevPage_clicked(), slot_btnNextPage_clicked()
ClickArrow ==
  /\ Room
  /\ window.visible
  /\ \E kind \in (IF window.prev THEN {"up"} ELSE {}) \cup (IF window.next THEN {"down"} ELSE {}) :
       signals' = Append(signals, [kind |-> kind])
  /\ UNCHANGED <<vars, window, toPanel, told>>

\* The settings were changed.
SettingsOk ==
  /\ Room /\ window.up
  /\ signals' = Append(signals, [kind |-> "reload"])
  /\ UNCHANGED <<vars, window, toPanel, told>>

\* What the panel was sent dies with it, its signals do not.
PanelDies ==
  /\ window.up /\ Len(signals) < MaxQueue
  /\ window' = NoWindow /\ toPanel' = <<>>
  /\ told' = (told /\ NoPreedit(list))
  /\ UNCHANGED <<vars, signals>>

\* The bus starts the panel for the next call.  It comes up with an empty window
\* and has the engine read the settings, which sends it the page.
PanelStarts ==
  /\ ~window.up
  /\ window' = NewWindow
  /\ signals' = Append(signals, [kind |-> "reload"])
  /\ UNCHANGED <<vars, toPanel, told>>

LinkNext ==
  \/ Key \/ SilentReset \/ EngineTakes
  \/ PanelTakes \/ (\E i \in 0 .. Len(window.items) : ClickCandidate(i)) \/ ClickArrow
  \/ SettingsOk \/ PanelDies \/ PanelStarts

\* Both processes take what they are sent, and the bus starts the panel for it.
LinkFairness == WF_linkVars(EngineTakes) /\ WF_linkVars(PanelTakes) /\ WF_linkVars(PanelStarts)

LinkSpec == LinkInit /\ [][LinkNext]_linkVars /\ LinkFairness

-----------------------------------------------------------------------------
\* The window once it has taken what is on its way.
InWindow == INSTANCE InOrder WITH After <- WindowAfter
WindowToBe == InWindow!Outcome(window, toPanel)

\* The window is open exactly while something is composed, or hidden by a click
\* that is still to be taken, and an open one shows the engine's page and its
\* arrows, once the messages on their way are taken: also after a click, which
\* the engine never confirms.
WindowShowsThePage ==
  told => LET w == WindowToBe
          IN  /\ w.visible => w.items = list.shown /\ w.prev = HasPrev(list) /\ w.next = HasNext(list)
              /\ w.visible \/ NoPreedit(list) \/ Selecting
              /\ w.visible => ~NoPreedit(list)

\* A composition that is over does not stay on the screen: the window goes, or
\* something is composed again, if no click or reset crossed an update.
WindowGoesAway == (told /\ NoPreedit(list)) ~> (~window.visible \/ ~NoPreedit(list) \/ ~told)
=============================================================================
