-------------------------- MODULE CaptioningProofs --------------------------
(***************************************************************************)
(* Theorems about Captioning, for any set of photos and any number of      *)
(* pages.                                                                  *)
(*                                                                         *)
(* UploadsInOrder ties what is stored of a page to how far its upload has  *)
(* come; MovedIsGone and OpenedApart say what a page can find when it is   *)
(* opened.  Together with the types they are inductive.                    *)
(***************************************************************************)
EXTENDS Captioning, TLAPS

-----------------------------------------------------------------------------
(* The inductive invariant.                                                *)

\* The upload server stores the image first and the document after it.
UploadsInOrder ==
  \A p \in Pages :
    /\ upload[p] \in {"none", "reading", "saving"} => p \notin docs
    /\ upload[p] = "adding" => p \in blobs
    /\ upload[p] = "ok" => p \in docs \cap blobs

\* Only the form of a page starts an upload.
UploadsHaveForms ==
  \A p \in Pages : page[p] \in {"new", "shown", "skipped"} => upload[p] = "none"

\* A page that was answered has taken its photo out of the directory.
MovedIsGone == \A p \in Pages : page[p] = "moved" => file[p] \in Photos \ inbox

\* Opened, and not skipped so far.
Kept(p) == page[p] \notin {"new", "skipped"}

\* Of two kept pages of one file, one was opened while the other was unsettled.
OpenedApart ==
  \A p, q \in Pages :
    p # q /\ file[p] = file[q] /\ Kept(p) /\ Kept(q)
      => p \in unsettled[q] \/ q \in unsettled[p]

CaptionInv ==
  /\ TypeOK
  /\ UploadsInOrder
  /\ UploadsHaveForms
  /\ MovedIsGone
  /\ OpenedApart
  /\ CompletedIsMemory

-----------------------------------------------------------------------------

LEMMA CaptionInit == Init => CaptionInv
<1> SUFFICES ASSUME Init PROVE CaptionInv
  OBVIOUS
<1>1. TypeOK
  BY DEF Init, TypeOK, Files, PageStates, UploadStates
<1>2. \A p \in Pages : page[p] = "new" /\ upload[p] = "none" /\ p \notin docs
  BY DEF Init
<1>3. UploadsInOrder /\ UploadsHaveForms
  BY <1>2 DEF UploadsInOrder, UploadsHaveForms
<1>4. MovedIsGone /\ OpenedApart
  BY <1>2 DEF MovedIsGone, OpenedApart, Kept
<1>5. CompletedIsMemory
  BY DEF Init, CompletedIsMemory
<1> QED BY <1>1, <1>3, <1>4, <1>5 DEF CaptionInv

\* A crash cuts off the pages that wait, and touches nothing else.
LEMMA CrashKeeps == CaptionInv /\ Crash => CaptionInv'
<1> SUFFICES ASSUME CaptionInv, Crash PROVE CaptionInv'
  OBVIOUS
<1> USE DEF CaptionInv, Crash
<1>1. TypeOK'
  BY DEF TypeOK, PageStates
<1>2. UploadsInOrder' /\ CompletedIsMemory'
  BY DEF UploadsInOrder, CompletedIsMemory
<1>3. \A p \in Pages :
        page'[p] = IF page[p] = "waiting" THEN "cutoff" ELSE page[p]
  OBVIOUS
<1>4. UploadsHaveForms' /\ MovedIsGone' /\ OpenedApart'
  BY <1>3 DEF UploadsHaveForms, MovedIsGone, OpenedApart, Kept
<1> QED BY <1>1, <1>2, <1>4

LEMMA CaptionerKeeps ==
  ASSUME NEW p \in Pages, CaptionInv, Captioner(p)
  PROVE  CaptionInv'
<1> USE DEF CaptionInv
<1>1. CASE GetPage(p)
  <2>1. PICK f \in RandomImages :
          /\ file' = [file EXCEPT ![p] = f]
          /\ unsettled' = [unsettled EXCEPT ![p] =
               {q \in Pages : file[q] = f /\ page[q] \in {"shown", "waiting", "cutoff"}}]
    BY <1>1 DEF GetPage
  <2>2. page[p] = "new" /\ upload[p] = "none"
    BY <1>1 DEF GetPage, UploadsHaveForms
  <2>3. f \in inbox \/ f = Completed
    BY DEF RandomImages
  <2>4. TypeOK'
    BY <1>1, <2>1, <2>3 DEF GetPage, TypeOK, Files, PageStates
  <2>5. UploadsInOrder' /\ UploadsHaveForms' /\ MovedIsGone'
    BY <1>1, <2>1, <2>2 DEF GetPage, TypeOK, UploadsInOrder, UploadsHaveForms, MovedIsGone
  <2>6. p \notin docs
    BY <2>2 DEF UploadsInOrder
  <2>7. CompletedIsMemory'
    BY <1>1, <2>1, <2>6 DEF GetPage, TypeOK, CompletedIsMemory
  <2>8. ASSUME NEW q \in Pages, q # p, file[q] = f, Kept(q)
        PROVE  page[q] \in {"shown", "waiting", "cutoff"}
    BY <2>3, <2>8, CompletedAssumption DEF Kept, MovedIsGone, TypeOK, PageStates
  <2>9. OpenedApart'
    BY <1>1, <2>1, <2>8 DEF GetPage, OpenedApart, Kept, TypeOK
  <2> QED BY <2>4, <2>5, <2>7, <2>9
<1>2. CASE Skip(p)
  <2>1. TypeOK' /\ UploadsInOrder' /\ CompletedIsMemory'
    BY <1>2 DEF Skip, TypeOK, PageStates, UploadsInOrder, CompletedIsMemory
  <2>2. UploadsHaveForms' /\ MovedIsGone' /\ OpenedApart'
    BY <1>2 DEF Skip, TypeOK, UploadsHaveForms, MovedIsGone, OpenedApart, Kept
  <2> QED BY <2>1, <2>2
<1>3. CASE PostUpload(p)
  <2>1. upload[p] = "none"
    BY <1>3 DEF PostUpload, UploadsHaveForms
  <2>2. TypeOK' /\ CompletedIsMemory'
    BY <1>3 DEF PostUpload, TypeOK, PageStates, UploadStates, CompletedIsMemory
  <2>3. UploadsInOrder' /\ UploadsHaveForms'
    BY <1>3, <2>1 DEF PostUpload, TypeOK, UploadsInOrder, UploadsHaveForms
  <2>4. MovedIsGone' /\ OpenedApart'
    BY <1>3 DEF PostUpload, TypeOK, MovedIsGone, OpenedApart, Kept
  <2> QED BY <2>2, <2>3, <2>4
<1>4. CASE Answered(p)
  <2>1. p \in docs \cap blobs
    BY <1>4 DEF Answered, UploadsInOrder
  <2>2. TypeOK' /\ UploadsInOrder' /\ UploadsHaveForms'
    BY <1>4 DEF Answered, TypeOK, PageStates, UploadsInOrder, UploadsHaveForms
  <2>3. MovedIsGone' /\ OpenedApart'
    BY <1>4 DEF Answered, TypeOK, MovedIsGone, OpenedApart, Kept
  <2>4. CompletedIsMemory'
    BY <1>4, <2>1 DEF Answered, CompletedIsMemory
  <2> QED BY <2>2, <2>3, <2>4
<1>5. CASE RenameThrows(p) \/ AlertThrows(p) \/ FetchThrows(p)
  BY <1>5, CrashKeeps DEF RenameThrows, AlertThrows, FetchThrows
<1> QED BY <1>1, <1>2, <1>3, <1>4, <1>5 DEF Captioner

LEMMA UploaderKeeps ==
  ASSUME NEW p \in Pages, CaptionInv, Uploader(p)
  PROVE  CaptionInv'
<1> USE DEF CaptionInv
<1>1. PICK from \in UploadStates, to \in UploadStates : Uploading(p, from, to) /\ from # "none"
  BY DEF Uploader, ReadFile, SaveBlob, SaveBlobFails, AddDocument, AddDocumentFails,
         UploadStates
<1>2. blobs \subseteq blobs' /\ docs \subseteq docs' /\ blobs' \subseteq blobs \cup {p}
        /\ docs' \subseteq docs \cup {p}
  BY DEF Uploader, ReadFile, SaveBlob, SaveBlobFails, AddDocument, AddDocumentFails
<1>3. TypeOK' /\ CompletedIsMemory'
  BY <1>1, <1>2 DEF Uploading, TypeOK, CompletedIsMemory
<1>4. UploadsHaveForms' /\ MovedIsGone' /\ OpenedApart'
  BY <1>1 DEF Uploading, TypeOK, UploadsHaveForms, MovedIsGone, OpenedApart, Kept
<1>5. /\ upload'[p] \in {"none", "reading", "saving"} => p \notin docs'
      /\ upload'[p] = "adding" => p \in blobs'
      /\ upload'[p] = "ok" => p \in docs' \cap blobs'
  BY DEF Uploader, Uploading, ReadFile, SaveBlob, SaveBlobFails, AddDocument,
         AddDocumentFails, UploadsInOrder, TypeOK
<1>6. UploadsInOrder'
  BY <1>1, <1>2, <1>5 DEF Uploading, UploadsInOrder, TypeOK
<1> QED BY <1>3, <1>4, <1>6

LEMMA CaptionStep == CaptionInv /\ [Next]_vars => CaptionInv'
<1> SUFFICES ASSUME CaptionInv, [Next]_vars PROVE CaptionInv'
  OBVIOUS
<1>1. CASE Restart
  BY <1>1
  DEF Restart, CaptionInv, TypeOK, UploadsInOrder, UploadsHaveForms, MovedIsGone,
      OpenedApart, Kept, CompletedIsMemory
<1>2. CASE UNCHANGED vars
  BY <1>2
  DEF vars, CaptionInv, TypeOK, UploadsInOrder, UploadsHaveForms, MovedIsGone,
      OpenedApart, Kept, CompletedIsMemory
<1> QED BY <1>1, <1>2, CaptionerKeeps, UploaderKeeps DEF Next

\* A document belongs to a page whose form was sent, and OpenedApart is about
\* such pages.
LEMMA DuplicatesFromInv == CaptionInv => DuplicatesAreExplained
<1> SUFFICES ASSUME CaptionInv, NEW p \in docs, NEW q \in docs, p # q, file[p] = file[q]
             PROVE  p \in unsettled[q] \/ q \in unsettled[p]
  BY DEF DuplicatesAreExplained
<1> USE DEF CaptionInv
<1>1. p \in Pages /\ q \in Pages
  BY DEF TypeOK
<1>2. Kept(p) /\ Kept(q)
  BY <1>1 DEF UploadsInOrder, UploadsHaveForms, Kept
<1> QED BY <1>1, <1>2 DEF OpenedApart

-----------------------------------------------------------------------------
(* The theorems.                                                           *)

\* Every state of the two servers is of the types that Captioning declares.
THEOREM CaptioningTypes == Spec => []TypeOK
BY CaptionInit, CaptionStep, PTL DEF Spec, CaptionInv

\* A photo in `completed' has become a memory with its image, through every
\* crash, lost answer and half-done upload (caption-photos.js renames only after
\* a 200, upload-image.ts answers 200 only after both awaits).
THEOREM CompletedPhotosAreMemories == Spec => []CompletedIsMemory
BY CaptionInit, CaptionStep, PTL DEF Spec, CaptionInv

\* Only a page that was opened beside, or after the loss of, another page of the
\* same photo makes a second memory of it (GET / offers what is still in the
\* directory).
THEOREM OnlyOpenPagesDuplicate == Spec => []DuplicatesAreExplained
BY CaptionInit, CaptionStep, DuplicatesFromInv, PTL DEF Spec
=============================================================================
