------------------------------ MODULE Consoles ------------------------------
(***************************************************************************)
(* The two consoles' components in one instance, all but the stream of     *)
(* LiveFeed: view says which of them a behaviour is about, the others keep *)
(* their initial state.  What the components share is an action of each of *)
(* them, taken at any time, so that nothing is gained by letting two of    *)
(* them advance in one behaviour.                                          *)
(***************************************************************************)
EXTENDS StreamTable, DomainInspector, IndicatorBrowser, ForensicUpload, CopilotChat, Overlays,
        DonutChart, QueryGroups, EliteTelemetry, EliteQueryTable, EliteDialogs

VARIABLE view

Views == {"table", "inspector", "browser", "upload", "chat", "overlays", "donut", "groups",
          "elite", "elite table", "elite dialogs"}

consoleVars == <<tableVars, inspectorVars, browserVars, uploadVars, chatVars, overlayVars,
                 donutVars, groupVars, eliteVars, queryTableVars, dialogVars>>

Init ==
    /\ view \in Views
    /\ InspectorInit /\ BrowserInit /\ UploadInit /\ ChatInit /\ OverlaysInit
    /\ GroupsInit /\ EliteInit /\ QueryTableInit
    /\ TableInit /\ (view = "table" \/ tableQueries = <<>>)
    /\ DonutInit /\ (view = "donut" \/ \A kind \in Kinds : summary[kind] = 0)
    /\ DialogsInit /\ (view = "elite dialogs" \/ liveIds = {})

Next ==
    /\ UNCHANGED view
    /\ \/ view = "table"         /\ TableNext
       \/ view = "inspector"     /\ InspectorNext
       \/ view = "browser"       /\ BrowserNext
       \/ view = "upload"        /\ UploadNext
       \/ view = "chat"          /\ ChatNext
       \/ view = "overlays"      /\ OverlaysNext
       \/ view = "donut"         /\ DonutNext
       \/ view = "groups"        /\ GroupsNext
       \/ view = "elite"         /\ EliteNext
       \/ view = "elite table"   /\ QueryTableNext
       \/ view = "elite dialogs" /\ DialogsNext
    /\ IF view = "table" THEN TRUE ELSE UNCHANGED tableVars
    /\ IF view = "inspector" THEN TRUE ELSE UNCHANGED inspectorVars
    /\ IF view = "browser" THEN TRUE ELSE UNCHANGED browserVars
    /\ IF view = "upload" THEN TRUE ELSE UNCHANGED uploadVars
    /\ IF view = "chat" THEN TRUE ELSE UNCHANGED chatVars
    /\ IF view = "overlays" THEN TRUE ELSE UNCHANGED overlayVars
    /\ IF view = "donut" THEN TRUE ELSE UNCHANGED donutVars
    /\ IF view = "groups" THEN TRUE ELSE UNCHANGED groupVars
    /\ IF view = "elite" THEN TRUE ELSE UNCHANGED eliteVars
    /\ IF view = "elite table" THEN TRUE ELSE UNCHANGED queryTableVars
    /\ IF view = "elite dialogs" THEN TRUE ELSE UNCHANGED dialogVars

Spec == Init /\ [][Next]_<<view, consoleVars>>

\* The types of every component's state
ConsolesTypeOK ==
    /\ TableTypeOK /\ InspectorTypeOK /\ BrowserTypeOK /\ UploadTypeOK
    /\ ChatTypeOK /\ OverlaysTypeOK /\ DonutTypeOK /\ EliteTypeOK /\ QueryTableTypeOK
    /\ DialogsTypeOK
=============================================================================
