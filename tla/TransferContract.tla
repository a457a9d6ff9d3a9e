--------------------------- MODULE TransferContract ---------------------------
(***************************************************************************)
(* What the Steam Cloud transfers promise to the synchronisation.  The     *)
(* file on Steam is always one whole save, one that was uploaded by the    *)
(* phone or by a PC; an upload that reports success has put its save       *)
(* there; a download that reports success has brought one that was there,  *)
(* if Steam gave a SHA-1 for it, and anything at all if it gave none.  An   *)
(* upload that reports failure promises nothing: its save may appear on    *)
(* Steam, then or later.                                                   *)
(***************************************************************************)
CONSTANTS
  Contents,  \* the saves
  None

VARIABLES
  remote,    \* the save on Steam
  been,      \* the saves that have been on Steam
  asked,     \* the saves an upload was asked for
  transfer,  \* what is being transferred
  landed,    \* has the save of that upload been on Steam since it began?
  outcome    \* what the last transfer reported

vars == <<remote, been, asked, transfer, landed, outcome>>

NoTransfer == [kind |-> "none", save |-> None, hashed |-> FALSE]
Uploading(c) == [kind |-> "upload", save |-> c, hashed |-> FALSE]
Downloading(hashed) == [kind |-> "download", save |-> None, hashed |-> hashed]
Pending == [result |-> "none", save |-> None]
Ok(c) == [result |-> "ok", save |-> c]
Failed == [result |-> "failed", save |-> None]

Init ==
  /\ remote \in Contents /\ been = {remote} /\ asked = {}
  /\ transfer = NoTransfer /\ landed = FALSE
  /\ outcome = Pending

Appears(c) ==
  /\ remote' = c
  /\ been' = been \cup {c}

BeginUpload(c) ==
  /\ transfer = NoTransfer
  /\ transfer' = Uploading(c) /\ landed' = FALSE /\ asked' = asked \cup {c}
  /\ outcome' = Pending
  /\ UNCHANGED <<remote, been>>

BeginDownload ==
  /\ transfer = NoTransfer
  /\ \E hashed \in BOOLEAN : transfer' = Downloading(hashed)
  /\ landed' = FALSE
  /\ outcome' = Pending
  /\ UNCHANGED <<remote, been, asked>>

\* Steam gives a SHA-1 for the file that is being downloaded.
LearnHash ==
  /\ transfer = Downloading(FALSE)
  /\ transfer' = Downloading(TRUE)
  /\ UNCHANGED <<remote, been, asked, landed, outcome>>

\* A save that an upload was asked for appears, also after that upload failed.
Land ==
  /\ \E c \in asked :
       /\ Appears(c)
       /\ \/ landed' = TRUE /\ transfer = Uploading(c)
          \/ landed' = landed
  /\ UNCHANGED <<asked, transfer, outcome>>

PcUploads ==
  /\ \E c \in Contents : Appears(c)
  /\ UNCHANGED <<asked, transfer, landed, outcome>>

UploadSucceeds ==
  /\ transfer.kind = "upload" /\ landed
  /\ outcome' = Ok(transfer.save) /\ transfer' = NoTransfer
  /\ UNCHANGED <<remote, been, asked, landed>>

DownloadSucceeds ==
  /\ transfer.kind = "download"
  /\ \E c \in IF transfer.hashed THEN been ELSE Contents \cup {None} :
       outcome' = Ok(c)
  /\ transfer' = NoTransfer
  /\ UNCHANGED <<remote, been, asked, landed>>

Fails ==
  /\ transfer # NoTransfer
  /\ outcome' = Failed /\ transfer' = NoTransfer
  /\ UNCHANGED <<remote, been, asked, landed>>

Next ==
  \/ \E c \in Contents : BeginUpload(c)
  \/ BeginDownload \/ LearnHash \/ Land \/ PcUploads
  \/ UploadSucceeds \/ DownloadSucceeds \/ Fails

Spec == Init /\ [][Next]_vars
================================================================================
