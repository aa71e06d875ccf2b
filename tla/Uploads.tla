------------------------------ MODULE Uploads ------------------------------
(***************************************************************************)
(* The texts behind EditLock and the uploads into them (EditorWrapper,     *)
(* useEditorUploadBridge, useAttachmentUpload): an upload puts a           *)
(* placeholder into the text and replaces it when its answer comes.        *)
(* Nothing waits for it, not even the save of a page that is left.         *)
(*                                                                         *)
(* Every step of EditLock is a step here.  A text is the sequence of its   *)
(* placeholders: what replaces one, a reference or an error marker, is     *)
(* text like any other, and what the user types or removes is left out.    *)
(* The editor stays in its markdown mode.                                  *)
(***************************************************************************)
EXTENDS EditLock, SequencesExt

CONSTANTS
    Numbers,    \* the numbers a page gives its uploads, bounded
    MaxMarks    \* bound on the placeholders of a text

ASSUME UploadsAssumption == Numbers \subseteq Nat \ {0} /\ MaxMarks \in Nat

VARIABLES
    text,         \* per visit: the text it loaded and edits, then the one its save carries
    saved,        \* the text of the current version
    started,      \* per visit: the number of its last upload
    uploads,      \* per visit: the uploads under way
    unfinished    \* history: an editor was left with an upload under way

texts == <<text, saved, started, uploads, unfinished>>
allvars == <<vars, texts>>

---------------------------------------------------------------------------
\* A step of EditLock.  get_document reads the current text, the editor opens with
\* it, and the page is left with the text it has by then, which its save makes
\* current.  A page that is gone hears nothing of its uploads.
Edit(s) ==
    /\ Server(s) \/ Page(s) \/ Network(s)
    /\ text' = [text EXCEPT ![s] =
                  IF visit'[s].phase \notin {"loading", "editing"} /\ "save" \notin inbox'[s] THEN <<>>
                  ELSE IF visit[s].answer = "none" /\ "get" \in inbox[s] \ inbox'[s] THEN saved
                  ELSE @]
    /\ saved' = IF log' = log THEN saved ELSE text[s]
    /\ IF visit'[s].phase = "left"
       THEN started' = [started EXCEPT ![s] = 0] /\ uploads' = [uploads EXCEPT ![s] = {}]
       ELSE UNCHANGED <<started, uploads>>
    /\ unfinished' = (unfinished \/ ("save" \in inbox'[s] /\ uploads[s] # {}))

\* counterRef: numbers start again with each mount of the page.
NextNumber(s) == started[s] + 1

\* addImageBlobHook, handleDrop: a file reaches an editor that is open.
FileGiven(s) == visit[s].phase = "editing" /\ NextNumber(s) \in Numbers

\* EditorHandle.insert: the placeholder goes where the cursor is.
Inserted(t, n) == {InsertAt(t, at, n) : at \in 1..(Len(t) + 1)}

\* startUpload, up to the upload.
StartUpload(s) ==
    /\ FileGiven(s) /\ Len(text[s]) < MaxMarks
    /\ \E t \in Inserted(text[s], NextNumber(s)) : text' = [text EXCEPT ![s] = t]
    /\ started' = [started EXCEPT ![s] = @ + 1]
    /\ uploads' = [uploads EXCEPT ![s] = @ \cup {NextNumber(s)}]
    /\ UNCHANGED <<vars, saved, unfinished>>

\* locateToken: where the placeholder with number n is first found.
Located(t, n) == {i \in DOMAIN t : t[i] = n /\ \A j \in 1..(i - 1) : t[j] # n}

\* Mutant: the first placeholder is replaced, whatever its number.
ReplacedAny(t, n) == IF t = <<>> THEN t ELSE Tail(t)

\* replaceToken: a placeholder the user has removed is not put back.
Replaced(t, n) == IF Located(t, n) = {} THEN t ELSE RemoveAt(t, CHOOSE i \in Located(t, n) : TRUE)

\* startUpload, after the upload: its reference, or the marker of its error.
UploadAnswered(s, n) ==
    /\ n \in uploads[s]
    /\ uploads' = [uploads EXCEPT ![s] = @ \ {n}]
    /\ text' = [text EXCEPT ![s] = Replaced(@, n)]
    /\ UNCHANGED <<vars, saved, started, unfinished>>

---------------------------------------------------------------------------
UploadsInit ==
    /\ Init
    /\ text = [s \in Visits |-> <<>>] /\ saved = <<>>
    /\ started = [s \in Visits |-> 0] /\ uploads = [s \in Visits |-> {}]
    /\ unfinished = FALSE

UploadsNext ==
    \E s \in Visits :
        Edit(s) \/ StartUpload(s) \/ (\E n \in Numbers : UploadAnswered(s, n))

UploadsSpec == UploadsInit /\ [][UploadsNext]_allvars

---------------------------------------------------------------------------
(***************************************************************************)
(* Properties.                                                             *)
(***************************************************************************)
\* However the uploads of a page overlap and in whatever order they end, each finds its
\* own placeholder: unless some page was left with an upload under way, every placeholder
\* in an editor is that of an upload of the page, and none is stored in a version.
PlaceholdersResolved ==
    ~unfinished =>
        /\ saved = <<>>
        /\ \A s \in Visits : visit[s].phase = "editing" => Range(text[s]) \subseteq uploads[s]
=============================================================================
