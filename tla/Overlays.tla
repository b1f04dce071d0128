------------------------------ MODULE Overlays ------------------------------
(***************************************************************************)
(* The overlays of the DNSentinel console (evidence, upload, command       *)
(* palette, settings), the ways that open and close them, and the keyboard *)
(* shortcuts, for which App and every open overlay have each put a         *)
(* listener on the window.                                                 *)
(*                                                                         *)
(* A key is dispatched to the listeners one after the other.  Their        *)
(* onClose is a new function at every render of App, so whenever one of    *)
(* them changes App's state React renders and puts every overlay's         *)
(* listener on anew before the next is reached: the old ones are gone and  *)
(* the new ones are not part of this dispatch.                             *)
(***************************************************************************)
EXTENDS Subsequence, Sequences, SequencesExt, FiniteSetsExt

CONSTANTS
    Listed,         \* the list of queries on the page, a sequence of decisions
    DomainHits,     \* DomainHits[text]: the decisions whose domain has that text
    IpHits,         \* the same for the client address
    OtherHits,      \* the same for the other fields the palette looks in
    ShortcutHits,   \* ShortcutHits[text]: the tabs whose shortcut has that text
    BlockedOnes,    \* the decisions that are BLOCK
    PaletteRows     \* 8: rows of a palette without a text

Listings == ToSet(Listed)
Texts == DOMAIN DomainHits

NoSearchText == "no text"
NoSelection == "no decision"
Tabs == {"DASHBOARD", "DOMAIN_INSPECTOR", "LIVE_DNS", "ANALYTICS", "SOURCE_IPS", "PCAP_ZEEK"}
PaletteFilters == {"ALL", "DOMAINS", "IPS", "BLOCKED"}

\* In the order of App's JSX, which is the order of their effects and, later on
\* top, of their layers
OverlayOrder == <<"evidence", "upload", "palette", "settings">>

ASSUME OverlaysAssumption ==
    /\ NoSearchText \notin Texts /\ NoSelection \notin Listings
    /\ PaletteRows \in Nat \ {0}

VARIABLES
    overlays,       \* the open ones
    selected,       \* selectedDecision, whose evidence is open
    activeTab, globalSearch, paletteFilter,
    key,            \* the key being dispatched
    pending,        \* the listeners it has not reached yet
    openBefore      \* the overlays open when it was pressed

overlayVars == <<overlays, selected, activeTab, globalSearch, paletteFilter, key, pending,
                 openBefore>>

OpenInOrder ==
    KeptAt(OverlayOrder, {i \in DOMAIN OverlayOrder : OverlayOrder[i] \in overlays})

Listeners == <<"app">> \o OpenInOrder
Idle == pending = <<>>

OnTop(o) == o = Last(OpenInOrder)

\* What the palette lists: without a text the newest rows, whatever its filter.
PaletteMatches ==
    IF globalSearch = NoSearchText THEN ToSet(SubSeq(Listed, 1, Min({PaletteRows, Len(Listed)})))
    ELSE LET found == DomainHits[globalSearch] \cup IpHits[globalSearch]
                        \cup OtherHits[globalSearch]
         IN  CASE paletteFilter = "ALL"     -> found
               [] paletteFilter = "DOMAINS" -> DomainHits[globalSearch]
               [] paletteFilter = "IPS"     -> IpHits[globalSearch]
               [] paletteFilter = "BLOCKED" -> found \cap BlockedOnes

\* Where its shortcuts lead, and an address it finds, which takes a text
PaletteTabs ==
    IF globalSearch = NoSearchText THEN Tabs
    ELSE ShortcutHits[globalSearch]
           \cup IF IpHits[globalSearch] # {} THEN {"SOURCE_IPS"} ELSE {}

OverlaysInit ==
    /\ overlays = {} /\ selected = NoSelection
    /\ activeTab = "DASHBOARD" /\ globalSearch = NoSearchText /\ paletteFilter = "ALL"
    /\ key = "none" /\ pending = <<>> /\ openBefore = {}

-----------------------------------------------------------------------------
PressKey(k) ==
    /\ Idle
    /\ key' = k
    /\ pending' = Listeners
    /\ openBefore' = overlays
    /\ UNCHANGED <<overlays, selected, activeTab, globalSearch, paletteFilter>>

\* App's handler turns the palette around on Ctrl+K; the palette's closes itself
\* on Ctrl+K and, as every overlay's, on Escape.
Reaction(listener) ==
    CASE listener = "app" /\ key = "Ctrl+K" ->
           IF "palette" \in overlays THEN overlays \ {"palette"} ELSE overlays \cup {"palette"}
      [] listener = "palette" /\ key = "Ctrl+K" -> overlays \ {"palette"}
      [] listener # "app" /\ key = "Escape"     -> overlays \ {listener}
      [] OTHER                                  -> overlays

Reacts(listener) ==
    /\ overlays' = Reaction(listener)
    /\ selected' = IF "evidence" \in overlays' THEN selected ELSE NoSelection
    /\ UNCHANGED <<activeTab, globalSearch, paletteFilter, key, openBefore>>

\* Mutant: onClose is stable, so the listeners stay on through a render.
ListenerRunsStably ==
    /\ ~Idle
    /\ Reacts(Head(pending))
    /\ pending' = Tail(pending)

ListenerRuns ==
    /\ ~Idle
    /\ Reacts(Head(pending))
    /\ pending' = IF overlays' = overlays THEN Tail(pending) ELSE <<>>

-----------------------------------------------------------------------------
\* The mouse reaches the page only when no overlay covers it, and of the
\* overlays only the one on top.  key is back to none once anything but a key acts.
Show(o) == overlays' = overlays \cup {o}
Hide(o) == overlays' = overlays \ {o}
NoKey == key' = "none" /\ openBefore' = {} /\ UNCHANGED pending
Elsewhere == NoKey /\ UNCHANGED paletteFilter

\* A row of the stream, of the source addresses or of a forensic report
SelectRow(d) ==
    /\ Idle /\ overlays = {}
    /\ selected' = d /\ Show("evidence")
    /\ UNCHANGED <<activeTab, globalSearch>> /\ Elsewhere

\* The sidebar; its PCAP / Zeek entry opens the upload modal as well.
OpenTab(tab) ==
    /\ Idle /\ overlays = {}
    /\ activeTab' = tab
    /\ overlays' = IF tab = "PCAP_ZEEK" THEN {"upload"} ELSE {}
    /\ UNCHANGED <<selected, globalSearch>> /\ Elsewhere

\* The icons of the topbar
OpenFromTopbar(o) ==
    /\ Idle /\ overlays = {}
    /\ Show(o)
    /\ UNCHANGED <<selected, activeTab, globalSearch>> /\ Elsewhere

\* The topbar's search opens the palette when it gets the focus, which the
\* keyboard gives it under any overlay, and when it is typed in.
TopbarSearch(text) ==
    /\ Idle
    /\ globalSearch' = text /\ Show("palette")
    /\ UNCHANGED <<selected, activeTab>> /\ Elsewhere

ClearSearch ==
    /\ Idle
    /\ globalSearch' = NoSearchText
    /\ UNCHANGED <<overlays, selected, activeTab>> /\ Elsewhere

PaletteSearch(text, filter) ==
    /\ Idle /\ "palette" \in overlays
    /\ globalSearch' = text /\ paletteFilter' = filter
    /\ UNCHANGED <<overlays, selected, activeTab>> /\ NoKey

PaletteOpensDecision(d) ==
    /\ Idle /\ "palette" \in overlays /\ OnTop("palette") /\ d \in PaletteMatches
    /\ selected' = d
    /\ overlays' = (overlays \ {"palette"}) \cup {"evidence"}
    /\ UNCHANGED <<activeTab, globalSearch>> /\ Elsewhere

PaletteOpensTab(tab) ==
    /\ Idle /\ "palette" \in overlays /\ OnTop("palette")
    /\ tab \in PaletteTabs
    /\ activeTab' = tab /\ Hide("palette")
    /\ UNCHANGED <<selected, globalSearch>> /\ Elsewhere

\* The cross of each, the backdrop of the palette and the settings, and Reload,
\* which refreshes and closes the settings
CloseTop(o) ==
    /\ Idle /\ o \in overlays /\ OnTop(o)
    /\ Hide(o)
    /\ selected' = IF o = "evidence" THEN NoSelection ELSE selected
    /\ UNCHANGED <<activeTab, globalSearch>> /\ Elsewhere

\* onUploadSuccess and onClose of the upload modal, whenever its answer comes
UploadEnds ==
    /\ Idle
    /\ activeTab' = "PCAP_ZEEK" /\ Hide("upload")
    /\ UNCHANGED <<selected, globalSearch>> /\ Elsewhere

\* The copilot navigates on its own.
CopilotNavigates(tab) ==
    /\ Idle
    /\ activeTab' = tab
    /\ UNCHANGED <<overlays, selected, globalSearch>> /\ Elsewhere

OverlaysNext ==
    \/ \E k \in {"Ctrl+K", "Escape", "other"} : PressKey(k)
    \/ ListenerRuns \/ ClearSearch \/ UploadEnds
    \/ \E d \in Listings : SelectRow(d) \/ PaletteOpensDecision(d)
    \/ \E tab \in Tabs : OpenTab(tab) \/ PaletteOpensTab(tab)
    \/ \E tab \in Tabs : CopilotNavigates(tab)
    \/ \E o \in {"upload", "settings"} : OpenFromTopbar(o)
    \/ \E text \in Texts \cup {NoSearchText} :
         \/ TopbarSearch(text)
         \/ \E filter \in PaletteFilters : PaletteSearch(text, filter)
    \/ \E o \in overlays : CloseTop(o)

OverlaysSpec == OverlaysInit /\ [][OverlaysNext]_overlayVars

-----------------------------------------------------------------------------
OverlaysTypeOK ==
    /\ overlays \subseteq ToSet(OverlayOrder)
    /\ selected \in Listings \cup {NoSelection}
    /\ "evidence" \in overlays <=> selected # NoSelection
    /\ activeTab \in Tabs /\ globalSearch \in Texts \cup {NoSearchText}
    /\ paletteFilter \in PaletteFilters

\* A key does what it says once, however many overlays listen: Ctrl+K opens or
\* closes the palette and nothing else, although App and the palette both answer
\* it; Escape closes one overlay if any is open, not all of them.
KeysActOnce ==
    LET changed == SymDiff(overlays, openBefore)
    IN  key # "none" /\ Idle =>
          CASE key = "Ctrl+K" -> changed = {"palette"}
            [] key = "Escape" -> changed \subseteq openBefore
                                 /\ Cardinality(changed) = Min({1, Cardinality(openBefore)})
            [] OTHER          -> changed = {}
=============================================================================
