--------------------------- MODULE ForensicUpload ---------------------------
(***************************************************************************)
(* Uploads of captures in the DNSentinel console: the upload modal         *)
(* (UploadModal.tsx), which stays mounted when it is closed, the           *)
(* investigator (PcapZeekInvestigator.tsx), which is mounted anew whenever *)
(* its tab is entered, and App's report that both write and the            *)
(* investigator shows.  An upload cannot be cancelled: its answer comes    *)
(* after a cancel, after another upload's, or to a view that is gone.      *)
(*                                                                         *)
(* Two uploads of one file in flight are taken for one.  What a successful *)
(* upload does to the list of queries is in LiveFeed.                      *)
(***************************************************************************)
EXTENDS Naturals, FiniteSets

CONSTANTS
    Files,          \* captures: [ext, lower, dnsLog, format, queries, blocked]
    MaxUploads      \* bound on uploads of the investigator in flight

\* ext is the extension as written and lower the same in lower case; dnsLog says
\* that the name has "dns.log" in it, in any case; the back end finds the
\* capture's queries only with the parser of its format.
ASSUME ForensicUploadAssumption ==
    \A f \in Files : /\ f.dnsLog \in BOOLEAN /\ f.format \in {"zeek", "pcap"}
                     /\ f.queries \in Nat /\ f.blocked \in 0 .. f.queries

VARIABLES
    onForensics,    \* the active tab is PCAP_ZEEK
    uploadOpen,     \* isUploadOpen
    modalFile, modalLoading,    \* the modal's file and loading
    modalUploads,   \* its uploads in flight
    forensicReport, \* App's
    report, selectedFile, analyzingCapture, errorShown,     \* the mounted investigator
    viewUploads     \* investigators' uploads in flight; own: of the mounted one

modalVars == <<uploadOpen, modalFile, modalLoading, modalUploads>>
viewVars == <<report, selectedFile, analyzingCapture, errorShown, viewUploads>>
uploadVars == <<onForensics, forensicReport, modalVars, viewVars>>

NoFile == [ext |-> "none"]
NoReport == [file |-> NoFile]

-----------------------------------------------------------------------------
\* The modal sends by the letters of the name, the investigator too, although
\* it accepts the name in any case.
ModalEndpoint(f) == IF f.ext \in {".log", ".tsv"} THEN "zeek" ELSE "pcap"
ViewEndpoint(f)  == IF f.ext \in {".log", ".txt"} \/ f.dnsLog THEN "zeek" ELSE "pcap"
Accepted(f)      == f.dnsLog \/ f.lower \in {".log", ".txt", ".pcap", ".pcapng"}

\* The back end's counts; the wrong parser finds nothing.
Counted(f, endpoint, n) == IF endpoint = f.format THEN n ELSE 0

\* The modal hands on the answer as it is: it has no field threats_found, so
\* that counter stays blank.  Without an answer it makes up a report of ten.
ModalReports(f) ==
    {[file |-> f, queries |-> Counted(f, ModalEndpoint(f), f.queries), threats |-> "blank"],
     [file |-> f, queries |-> 10, threats |-> "blank"]}

\* The investigator reads `blocked`, and `total_queries_analyzed || 6`: an empty
\* capture is shown as one of six.  Its made-up report has six and one, too.
ViewReports(f) ==
    LET n == Counted(f, ViewEndpoint(f), f.queries)
    IN  {[file |-> f, queries |-> IF n = 0 THEN 6 ELSE n,
          threats |-> Counted(f, ViewEndpoint(f), f.blocked)],
         [file |-> f, queries |-> 6, threats |-> 1]}

UploadInit ==
    /\ onForensics = FALSE /\ uploadOpen = FALSE
    /\ modalFile = NoFile /\ modalLoading = FALSE /\ modalUploads = {}
    /\ forensicReport = NoReport
    /\ report = NoReport /\ selectedFile = NoFile
    /\ analyzingCapture = FALSE /\ errorShown = FALSE
    /\ viewUploads = {}

-----------------------------------------------------------------------------
\* A fresh investigator takes App's report; so does its effect on activeReport.
Mounted ==
    /\ report' = forensicReport
    /\ selectedFile' = NoFile /\ analyzingCapture' = FALSE /\ errorShown' = FALSE
    /\ UNCHANGED viewUploads

\* The sidebar's PCAP / Zeek entry also opens the modal; the copilot and the
\* command palette only change the tab, the header only opens the modal.
OpenForensics(withModal) ==
    /\ onForensics' = TRUE
    /\ uploadOpen' = (uploadOpen \/ withModal)
    /\ IF onForensics THEN UNCHANGED viewVars ELSE Mounted
    /\ UNCHANGED <<forensicReport, modalFile, modalLoading, modalUploads>>

LeaveForensics ==
    /\ onForensics
    /\ onForensics' = FALSE
    /\ report' = NoReport /\ selectedFile' = NoFile
    /\ analyzingCapture' = FALSE /\ errorShown' = FALSE
    /\ viewUploads' = {[u EXCEPT !.own = FALSE] : u \in viewUploads}
    /\ UNCHANGED <<forensicReport, modalVars>>

OpenModal ==
    /\ ~uploadOpen
    /\ uploadOpen' = TRUE
    /\ UNCHANGED <<onForensics, forensicReport, modalFile, modalLoading, modalUploads, viewVars>>

\* Cancel, the cross or Escape; file and loading stay as they are.
CloseModal ==
    /\ uploadOpen
    /\ uploadOpen' = FALSE
    /\ UNCHANGED <<onForensics, forensicReport, modalFile, modalLoading, modalUploads, viewVars>>

ChooseFile(f) ==
    /\ uploadOpen
    /\ modalFile' = f
    /\ UNCHANGED <<onForensics, forensicReport, uploadOpen, modalLoading, modalUploads, viewVars>>

\* handleUpload: the button is disabled without a file and while loading.
StartUpload ==
    /\ uploadOpen /\ modalFile # NoFile /\ ~modalLoading
    /\ modalLoading' = TRUE
    /\ modalUploads' = modalUploads \cup {modalFile}
    /\ UNCHANGED <<onForensics, forensicReport, uploadOpen, modalFile, viewVars>>

\* handleUploadSuccess with the view that is then on the page: App's report
\* changes, the tab is entered, and its effect takes the report over.
Succeeded(r) ==
    /\ forensicReport' = r
    /\ onForensics' = TRUE
    /\ report' = r

\* Whatever comes of it, App gets a report and the modal is closed, also if it
\* was cancelled and opened again meanwhile.
ModalAnswered(f) ==
    /\ \E r \in ModalReports(f) : Succeeded(r)
    /\ uploadOpen' = FALSE
    /\ modalLoading' = FALSE
    /\ modalUploads' = modalUploads \ {f}
    /\ UNCHANGED <<modalFile, selectedFile, analyzingCapture, errorShown, viewUploads>>

\* processFile on a drop or a choice: a name with another extension is refused
\* and shown as an error, an upload under way does not prevent another.
DropCapture(f) ==
    /\ onForensics
    /\ IF Accepted(f)
       THEN /\ Cardinality(viewUploads) < MaxUploads
            /\ errorShown' = FALSE
            /\ selectedFile' = f
            /\ analyzingCapture' = TRUE
            /\ viewUploads' = viewUploads \cup {[file |-> f, own |-> TRUE]}
       ELSE /\ errorShown' = TRUE
            /\ UNCHANGED <<selectedFile, analyzingCapture, viewUploads>>
    /\ UNCHANGED <<onForensics, forensicReport, report, modalVars>>

DismissError ==
    /\ onForensics /\ errorShown
    /\ errorShown' = FALSE
    /\ UNCHANGED <<onForensics, forensicReport, report, selectedFile, analyzingCapture,
                   viewUploads, modalVars>>

\* Mutant: the investigator keeps the report that it asked for to itself.
CaptureAnsweredToViewOnly(u) ==
    /\ \E r \in ViewReports(u.file) :
         /\ report' = IF u.own THEN r ELSE report
         /\ forensicReport' = IF u.own THEN forensicReport ELSE r
    /\ onForensics' = TRUE
    /\ viewUploads' = viewUploads \ {u}
    /\ analyzingCapture' = (analyzingCapture /\ ~u.own)
    /\ UNCHANGED <<selectedFile, errorShown, modalVars>>

\* The answer ends the analysing banner of the investigator that asked, whatever
\* else that one is uploading, and leads back to the tab from anywhere.
CaptureAnswered(u) ==
    /\ \E r \in ViewReports(u.file) : Succeeded(r)
    /\ viewUploads' = viewUploads \ {u}
    /\ analyzingCapture' = (analyzingCapture /\ ~u.own)
    /\ UNCHANGED <<selectedFile, errorShown, modalVars>>

UploadNext ==
    \/ \E withModal \in BOOLEAN : OpenForensics(withModal)
    \/ LeaveForensics \/ OpenModal \/ CloseModal \/ StartUpload \/ DismissError
    \/ \E f \in Files : ChooseFile(f) \/ DropCapture(f)
    \/ \E f \in modalUploads : ModalAnswered(f)
    \/ \E u \in viewUploads : CaptureAnswered(u)

UploadSpec == UploadInit /\ [][UploadNext]_uploadVars

-----------------------------------------------------------------------------
UploadTypeOK ==
    /\ {onForensics, uploadOpen, modalLoading, analyzingCapture, errorShown} \subseteq BOOLEAN
    /\ {modalFile, selectedFile} \subseteq Files \cup {NoFile}
    /\ modalUploads \subseteq Files /\ viewUploads \subseteq [file : Files, own : BOOLEAN]

\* The modal never uploads twice at once, through any cancelling, reopening and
\* changing of files, and says that it is loading exactly while it does; the
\* investigator's banner never outlives its own uploads; and the report on the
\* page is App's, whichever of the uploads under way answered last and wherever
\* the reader was then.
UploadsAgree ==
    /\ Cardinality(modalUploads) <= 1
    /\ modalLoading = (modalUploads # {})
    /\ analyzingCapture => \E u \in viewUploads : u.own
    /\ onForensics => report = forensicReport
=============================================================================
