----------------------------- MODULE Captioning -----------------------------
(***************************************************************************)
(* How a photo becomes a memory: the captioning server                     *)
(* (scripts/caption-photos.js), which offers a photo of the images         *)
(* directory, sends it on with its caption and moves it to `completed';    *)
(* and the upload server (scripts/upload-image.ts), which stores the image *)
(* and then adds the document.                                             *)
(*                                                                         *)
(* A page is one GET / with, perhaps, the POST of its form; pages may be   *)
(* open side by side.  A rejection that nothing handles ends the           *)
(* captioning server (Node 18, package.json), and with it every page that  *)
(* waits for an answer; the upload server goes on with what it has.        *)
(***************************************************************************)
EXTENDS Naturals, FiniteSets

CONSTANTS
  Photos,      \* the files of the images directory
  Completed,   \* its entry `completed', a directory
  Pages        \* bound: the pages ever opened

ASSUME CompletedAssumption == Completed \notin Photos

VARIABLES
  up,         \* is the captioning server running?
  inbox,      \* photos still in the images directory
  file,       \* file[p]: what page p offers
  page,       \* page[p]: the captioning server's side of p
  upload,     \* upload[p]: the upload server's side of p
  blobs,      \* pages whose image is in Storage (each under a new name)
  docs,       \* pages whose document is in `memories'
  unsettled   \* history: unsettled[p], the pages of p's file that p found open or cut off

vars == <<up, inbox, file, page, upload, blobs, docs, unsettled>>

Files == Photos \cup {Completed}

\* What has become of a page: not yet opened; shown; skipped; waiting for
\* the upload server; its photo moved; its answer never seen.
PageStates == {"new", "shown", "skipped", "waiting", "moved", "cutoff"}
UploadStates == {"none", "reading", "saving", "adding", "ok", "error"}

TypeOK ==
  /\ up \in BOOLEAN
  /\ inbox \subseteq Photos
  /\ file \in [Pages -> Files]
  /\ page \in [Pages -> PageStates]
  /\ upload \in [Pages -> UploadStates]
  /\ blobs \subseteq Pages /\ docs \subseteq Pages
  /\ unsettled \in [Pages -> SUBSET Pages]

\* At startup the captioning server creates `completed'.
Init ==
  /\ up = TRUE
  /\ inbox = Photos
  /\ file = [p \in Pages |-> Completed]
  /\ page = [p \in Pages |-> "new"]
  /\ upload = [p \in Pages |-> "none"]
  /\ blobs = {} /\ docs = {}
  /\ unsettled = [p \in Pages |-> {}]

-----------------------------------------------------------------------------
(* caption-photos.js.                                                      *)

\* readdirSync lists the photos and the directory `completed' among them.
RandomImages == inbox \cup {Completed}

\* GET /: null never happens, `completed' is always there.
GetPage(p) ==
  /\ up /\ page[p] = "new"
  /\ \E f \in RandomImages :
       /\ file' = [file EXCEPT ![p] = f]
       /\ unsettled' = [unsettled EXCEPT ![p] =
            {q \in Pages : file[q] = f /\ page[q] \in {"shown", "waiting", "cutoff"}}]
  /\ page' = [page EXCEPT ![p] = "shown"]
  /\ UNCHANGED <<up, inbox, upload, blobs, docs>>

Skip(p) ==
  /\ page[p] = "shown"
  /\ page' = [page EXCEPT ![p] = "skipped"]
  /\ UNCHANGED <<up, inbox, file, upload, blobs, docs, unsettled>>

\* POST /upload, up to the awaited fetch.
PostUpload(p) ==
  /\ up /\ page[p] = "shown"
  /\ page' = [page EXCEPT ![p] = "waiting"]
  /\ upload' = [upload EXCEPT ![p] = "reading"]
  /\ UNCHANGED <<up, inbox, file, blobs, docs, unsettled>>

\* An unhandled rejection.
Crash ==
  /\ up' = FALSE
  /\ page' = [q \in Pages |-> IF page[q] = "waiting" THEN "cutoff" ELSE page[q]]
  /\ UNCHANGED <<inbox, file, upload, blobs, docs, unsettled>>

\* Mutant: the photo is moved whatever the status of the answer.
AnsweredAnyStatus(p) ==
  /\ up /\ page[p] = "waiting" /\ upload[p] \in {"ok", "error"}
  /\ page' = [page EXCEPT ![p] = "moved"]
  /\ inbox' = inbox \ {file[p]}
  /\ UNCHANGED <<up, file, upload, blobs, docs, unsettled>>

\* Mutant: the answer redirects, and the photo stays where it is.
AnsweredNoMove(p) ==
  /\ up /\ page[p] = "waiting" /\ upload[p] = "ok"
  /\ page' = [page EXCEPT ![p] = "moved"]
  /\ UNCHANGED <<up, inbox, file, upload, blobs, docs, unsettled>>

\* 200: renameSync moves the photo and the page is redirected.
Answered(p) ==
  /\ up /\ page[p] = "waiting" /\ upload[p] = "ok" /\ file[p] \in inbox
  /\ page' = [page EXCEPT ![p] = "moved"]
  /\ inbox' = inbox \ {file[p]}
  /\ UNCHANGED <<up, file, upload, blobs, docs, unsettled>>

\* 200, but another page has moved the photo: renameSync throws.
RenameThrows(p) ==
  /\ up /\ page[p] = "waiting" /\ upload[p] = "ok" /\ file[p] \notin inbox
  /\ Crash

\* 500: `alert' is not defined in Node.
AlertThrows(p) ==
  /\ up /\ page[p] = "waiting" /\ upload[p] = "error"
  /\ Crash

\* The connection to the upload server fails while the page waits.
FetchThrows(p) ==
  /\ up /\ page[p] = "waiting"
  /\ Crash

\* The operator starts the captioning server again.
Restart ==
  /\ ~up
  /\ up' = TRUE
  /\ UNCHANGED <<inbox, file, page, upload, blobs, docs, unsettled>>

-----------------------------------------------------------------------------
(* upload-image.ts.                                                        *)

Uploading(p, from, to) ==
  /\ upload[p] = from
  /\ upload' = [upload EXCEPT ![p] = to]
  /\ UNCHANGED <<up, inbox, file, page, unsettled>>

\* readFileSync throws for a directory and for a photo moved meanwhile.
ReadFile(p) ==
  /\ Uploading(p, "reading", IF file[p] \in inbox THEN "saving" ELSE "error")
  /\ UNCHANGED <<blobs, docs>>

SaveBlob(p) ==
  /\ Uploading(p, "saving", "adding")
  /\ blobs' = blobs \cup {p}
  /\ UNCHANGED docs

\* The image may have been stored although save throws.
SaveBlobFails(p) ==
  /\ Uploading(p, "saving", "error")
  /\ blobs' \in {blobs, blobs \cup {p}}
  /\ UNCHANGED docs

AddDocument(p) ==
  /\ Uploading(p, "adding", "ok")
  /\ docs' = docs \cup {p}
  /\ UNCHANGED blobs

\* The document may have been added although add throws.
AddDocumentFails(p) ==
  /\ Uploading(p, "adding", "error")
  /\ docs' \in {docs, docs \cup {p}}
  /\ UNCHANGED blobs

-----------------------------------------------------------------------------

Captioner(p) ==
  \/ GetPage(p)
  \/ Skip(p)
  \/ PostUpload(p)
  \/ Answered(p)
  \/ RenameThrows(p)
  \/ AlertThrows(p)
  \/ FetchThrows(p)

Uploader(p) ==
  \/ ReadFile(p)
  \/ SaveBlob(p)
  \/ SaveBlobFails(p)
  \/ AddDocument(p)
  \/ AddDocumentFails(p)

Next == Restart \/ \E p \in Pages : Captioner(p) \/ Uploader(p)

Spec == Init /\ [][Next]_vars

-----------------------------------------------------------------------------
(* Properties.                                                             *)

\* A photo leaves the images directory only once its memory is complete:
\* the document is there and so is the image it points to.
CompletedIsMemory ==
  \A f \in Photos \ inbox : \E p \in docs \cap blobs : file[p] = f

\* A photo becomes two memories only if its second page was opened while the
\* first was still open or had been cut off by a crash; a captioner whose
\* pages come one after another and are all answered makes no duplicates.
DuplicatesAreExplained ==
  \A p, q \in docs :
    p # q /\ file[p] = file[q] => p \in unsettled[q] \/ q \in unsettled[p]
=============================================================================
