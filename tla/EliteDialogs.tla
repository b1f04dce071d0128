---------------------------- MODULE EliteDialogs ----------------------------
(***************************************************************************)
(* The two dialogs of the EliteCore dashboard: the evidence of a row       *)
(* (Dashboard.tsx), taken from the events or asked for, with requests that *)
(* closing the dialog does not cancel, and the upload (UploadModal.tsx),   *)
(* which is mounted anew each time it is opened.                           *)
(***************************************************************************)
EXTENDS Naturals, Bags

CONSTANTS
    RowIds,         \* the rows that can be opened
    Captures,       \* files
    MaxDetails      \* bound on requests in flight

NoRow == "no row"
NoCapture == "no capture"

ASSUME EliteDialogsAssumption ==
    NoRow \notin RowIds /\ NoCapture \notin Captures /\ MaxDetails \in Nat

VARIABLES
    liveIds,        \* the rows whose decision is among the events
    selectedId, shownId, evidenceLoading,   \* shownId: the row of selectedDecision
    details,        \* bag of rows whose details have been asked for
    upset,          \* since the selected row was opened its own request failed, or
                    \* an answer for another row came and none for it since
    uploadShown, captureFile, phase, captureResult,
    captureSent,    \* captures sent by the mounted dialog and not answered
    lastSent        \* the capture it sent last

evidenceVars == <<liveIds, selectedId, shownId, evidenceLoading, details, upset>>
captureVars == <<uploadShown, captureFile, phase, captureResult, captureSent, lastSent>>
dialogVars == <<evidenceVars, captureVars>>

DialogsInit ==
    /\ liveIds \in SUBSET RowIds
    /\ selectedId = NoRow /\ shownId = NoRow /\ evidenceLoading = FALSE
    /\ details = EmptyBag /\ upset = FALSE
    /\ uploadShown = FALSE /\ captureFile = NoCapture /\ phase = "idle"
    /\ captureResult = NoCapture /\ captureSent = {} /\ lastSent = NoCapture

\* EvidenceModal is rendered, and shows something.
EvidenceUp ==
    /\ selectedId # NoRow \/ evidenceLoading
    /\ shownId # NoRow \/ evidenceLoading

-----------------------------------------------------------------------------
\* Mutant: evidence that is held is not asked for again, whosever it is.
OpenKeepsShown(id) ==
    /\ selectedId' = id /\ upset' = FALSE
    /\ IF shownId # NoRow
       THEN UNCHANGED <<shownId, evidenceLoading, details>>
       ELSE /\ BagCardinality(details) < MaxDetails
            /\ evidenceLoading' = TRUE
            /\ details' = details (+) SetToBag({id})
            /\ UNCHANGED shownId
    /\ UNCHANGED <<liveIds, captureVars>>

\* openEvidence: what is shown stays until the details come.
OpenEvidence(id) ==
    /\ selectedId' = id /\ upset' = FALSE
    /\ IF id \in liveIds
       THEN shownId' = id /\ UNCHANGED <<evidenceLoading, details>>
       ELSE /\ BagCardinality(details) < MaxDetails
            /\ evidenceLoading' = TRUE
            /\ details' = details (+) SetToBag({id})
            /\ UNCHANGED shownId
    /\ UNCHANGED <<liveIds, captureVars>>

\* The rows are behind the dialogs' backdrops.
OpenFromRow(id) ==
    /\ ~EvidenceUp /\ ~uploadShown
    /\ OpenEvidence(id)

\* The toasts are above them; their decision is an event unless newer ones have
\* pushed it out.
OpenFromToast(id) == OpenEvidence(id)

\* getQueryDetail's answer is shown whichever row is selected by now.
DetailAnswered(id) ==
    /\ details' = details (-) SetToBag({id})
    /\ shownId' = id
    /\ evidenceLoading' = FALSE
    /\ upset' = (selectedId \notin {id, NoRow})
    /\ UNCHANGED <<liveIds, selectedId, captureVars>>

DetailFails(id) ==
    /\ details' = details (-) SetToBag({id})
    /\ evidenceLoading' = FALSE
    /\ upset' = (upset \/ id = selectedId)
    /\ UNCHANGED <<liveIds, selectedId, shownId, captureVars>>

\* closeEvidence; while details load the dialog stays until they come.
CloseEvidence ==
    /\ EvidenceUp
    /\ selectedId' = NoRow /\ shownId' = NoRow /\ upset' = FALSE
    /\ UNCHANGED <<liveIds, evidenceLoading, details, captureVars>>

\* The list of events goes on changing.
EventsChange(ids) ==
    /\ liveIds' = ids
    /\ UNCHANGED <<selectedId, shownId, evidenceLoading, details, upset, captureVars>>

-----------------------------------------------------------------------------
\* A dialog mounted anew starts from nothing, and gets no answer to a former.
MountedUpload(up) ==
    /\ uploadShown' = up
    /\ captureFile' = NoCapture /\ phase' = "idle" /\ captureResult' = NoCapture
    /\ captureSent' = {} /\ lastSent' = NoCapture
    /\ UNCHANGED evidenceVars

OpenUpload == ~uploadShown /\ ~EvidenceUp /\ MountedUpload(TRUE)
CloseUpload == uploadShown /\ MountedUpload(FALSE)

\* pickFile, also while an upload is under way
PickCapture(f) ==
    /\ uploadShown /\ phase # "complete"
    /\ captureFile' = f
    /\ UNCHANGED <<uploadShown, phase, captureResult, captureSent, lastSent, evidenceVars>>

\* analyze
AnalyzeCapture ==
    /\ uploadShown /\ captureFile # NoCapture /\ phase \in {"idle", "error"}
    /\ phase' = "uploading"
    /\ captureSent' = captureSent \cup {captureFile}
    /\ lastSent' = captureFile
    /\ UNCHANGED <<uploadShown, captureFile, captureResult, evidenceVars>>

CaptureAnalyzed(f) ==
    /\ captureSent' = captureSent \ {f}
    /\ \/ phase' = "complete" /\ captureResult' = f
       \/ phase' = "error" /\ UNCHANGED captureResult
    /\ UNCHANGED <<uploadShown, captureFile, lastSent, evidenceVars>>

DialogsNext ==
    \/ \E id \in RowIds : OpenFromRow(id) \/ OpenFromToast(id)
    \/ \E id \in BagToSet(details) : DetailAnswered(id) \/ DetailFails(id)
    \/ CloseEvidence
    \/ \E ids \in SUBSET RowIds : EventsChange(ids)
    \/ OpenUpload \/ CloseUpload \/ AnalyzeCapture
    \/ \E f \in Captures : PickCapture(f)
    \/ \E f \in captureSent : CaptureAnalyzed(f)

DialogsSpec == DialogsInit /\ [][DialogsNext]_dialogVars

-----------------------------------------------------------------------------
DialogsTypeOK ==
    /\ liveIds \subseteq RowIds /\ {selectedId, shownId} \subseteq RowIds \cup {NoRow}
    /\ BagToSet(details) \subseteq RowIds
    /\ phase \in {"idle", "uploading", "complete", "error"}
    /\ {captureFile, captureResult, lastSent} \subseteq Captures \cup {NoCapture}

\* While a row is selected its own evidence is shown or its details are still
\* under way, whatever was opened, closed, answered and lost before; only its own
\* failed request and an answer for another row that comes after it was opened
\* leave another row's evidence under it. The dialog waits only for details under
\* way; and an upload's result is of the capture it sent last, one at a time.
DialogsAgree ==
    /\ evidenceLoading => details # EmptyBag
    /\ selectedId # NoRow /\ ~upset =>
          shownId = selectedId \/ selectedId \in BagToSet(details)
    /\ captureSent = IF phase = "uploading" THEN {lastSent} ELSE {}
    /\ phase = "complete" => captureResult = lastSent
=============================================================================
