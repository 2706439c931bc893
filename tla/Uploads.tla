------------------------------- MODULE Uploads -------------------------------
(***************************************************************************)
(* Documents too long for one call (db/blobs.py, tools/content.py): they    *)
(* are uploaded in pieces, sealed, and then referenced.  A text grows by    *)
(* pieces only, so their number stands for it, and for its hash.  Each call *)
(* checks and writes in one transaction, and is one step.                   *)
(* A definition X_Fault is X with a plausible mistake; nothing uses it.     *)
(***************************************************************************)
EXTENDS Integers, Sequences

CONSTANTS
    Uploader,     \* roles that upload
    MaxPieces,    \* MAX_UPLOAD_BYTES, in pieces
    MaxUploads    \* bound

ASSUME UploadAssumption == {MaxPieces, MaxUploads} \subseteq Nat

VARIABLE blob     \* content_blobs

NoHash == 0       \* sha256 IS NULL; a text has at least one piece

\* blob_append without an upload_id
StartUpload(r) ==
    /\ Len(blob) < MaxUploads /\ 1 <= MaxPieces
    /\ blob' = Append(blob, [owner |-> r, text |-> 1, sealed |-> FALSE, hash |-> NoHash])

\* anyone who knows the id may append, sealed or not
AppendTo_Unguarded(r, u) ==
    /\ blob[u].text + 1 <= MaxPieces
    /\ blob' = [blob EXCEPT ![u].text = @ + 1]
\* blob_append: by its uploader, until it is sealed
AppendTo(r, u) ==
    /\ blob[u].owner = r /\ ~blob[u].sealed
    /\ blob[u].text + 1 <= MaxPieces
    /\ blob' = [blob EXCEPT ![u].text = @ + 1]

\* blob_seal; sealing again changes nothing
Seal(r, u) ==
    /\ blob[u].owner = r
    /\ blob' = IF blob[u].sealed THEN blob
               ELSE [blob EXCEPT ![u].sealed = TRUE, ![u].hash = blob[u].text]

Uploads(r) ==
    StartUpload(r) \/ \E u \in DOMAIN blob : AppendTo(r, u) \/ Seal(r, u)
=============================================================================
