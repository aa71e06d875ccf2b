----------------------------- MODULE MCEditLock -----------------------------
(* A small instance of EditLock with Uploads for TLC. *)
EXTENDS Uploads, TLC

\* Visits are interchangeable (safety runs only).
Interchangeable == Permutations(Visits)

\* What pages and lock do does not depend on uploads, so these bounds leave out none of it.
\* Nothing is claimed of texts once an editor was left with an upload under way, and
\* the texts of two open pages meet in the stored version only.
UploadsFinished == ~unfinished
OnePageUploads == \A s, t \in Visits : s # t => started[s] = 0 \/ started[t] = 0
=============================================================================
