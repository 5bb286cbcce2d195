---------------------------- MODULE DocumentFiles ----------------------------
(***************************************************************************)
(* A document has its row in the database and its pages in file storage.   *)
(* No transaction spans the two: a call stores the pages first, then saves *)
(* the row, then deletes what is no longer needed, and any of its awaits   *)
(* may fail, may succeed while the reply is lost, or be the last thing the *)
(* process does.                                                           *)
(*                                                                         *)
(* The row is of one of two kinds, written in two ways: a driver's slot    *)
(* (driver-document-storage.service.ts; the row is read under a lock       *)
(* inside the save) or a partner's document (partner-document-storage.     *)
(* service.ts; the row is read before the upload and a version decides     *)
(* whether the save still applies).                                        *)
(*                                                                         *)
(* Abstractions.  A file is the number of the random key it is stored      *)
(* under.  A bundle has one or two pages; its first page is the row's own  *)
(* storage key.  Who may do what, the checks of a file's type, size and    *)
(* content, validity dates and the status EXPIRED are left out; the        *)
(* verdicts on a driver's document are those of Approvals.                 *)
(***************************************************************************)
EXTENDS Naturals, FiniteSets

CONSTANTS
  Requests,      \* requests that may run at the same time
  MaxFiles,      \* bound on the files ever stored
  MaxVersion,    \* bound on the versions of a row
  NoDocument,    \* the row does not exist
  NoCall         \* the client has no request running

VARIABLES
  kind,      \* whose row it is (never changes)
  doc,       \* the row
  stored,    \* files in storage
  issued,    \* files ever stored
  work,      \* what each client's request is doing
  unheard,   \* files of rows that were saved while the reply was lost
  left       \* files nobody needs that the code does not delete

filesVars == <<kind, doc, stored, issued, work, unheard, left>>

File == 1..MaxFiles
Status == {"PENDING", "SUBMITTED", "VERIFIED", "REJECTED"}
Document == [id : File, first : File, rest : SUBSET File,
             version : 1..MaxVersion, status : Status]
Kind == {"driver", "partner"}
Step == {"upload", "save", "remove", "judge", "edit", "clean"}
Work == [step : Step, pages : 0..2, up : SUBSET File,
         read : Document \cup {NoDocument}, to : Status, drop : SUBSET File]

ASSUME FilesAssumption ==
  /\ MaxFiles \in Nat /\ MaxVersion \in Nat \ {0}
  /\ NoDocument \notin Document /\ NoCall \notin Work

FilesTypeOK ==
  /\ kind \in Kind /\ doc \in Document \cup {NoDocument}
  /\ issued \in 0..MaxFiles /\ stored \subseteq 1..issued
  /\ work \in [Requests -> Work \cup {NoCall}]
  /\ unheard \subseteq 1..issued /\ left \subseteq stored
  /\ \A c \in Requests : work[c] # NoCall => work[c].up \subseteq 1..issued

----------------------------------------------------------------------------
Pages(d) == {d.first} \cup d.rest
Live == IF doc = NoDocument THEN {} ELSE Pages(doc)

\* What running requests have stored or are about to delete.
InHand == UNION {work[c].up \cup work[c].drop : c \in {b \in Requests : work[b] # NoCall}}

BeginWork(c, step, pages, read, to) ==
  /\ work[c] = NoCall
  /\ work' = [work EXCEPT ![c] = [step |-> step, pages |-> pages, up |-> {},
                                  read |-> read, to |-> to, drop |-> {}]]
  /\ UNCHANGED <<kind, doc, stored, issued, unheard, left>>

\* A driver's upload: one page, or up to five.
BeginDriverUpload(c) ==
  kind = "driver" /\ \E n \in 1..2 : BeginWork(c, "upload", n, NoDocument, "PENDING")

\* A partner's new document.
BeginPartnerUpload(c) ==
  kind = "partner" /\ \E n \in 1..2 : BeginWork(c, "upload", n, NoDocument, "PENDING")

\* replaceDocument reads the row it replaces, then uploads.
BeginReplace(c) ==
  /\ kind = "partner" /\ doc # NoDocument
  /\ \E n \in 1..2 : BeginWork(c, "upload", n, doc, "PENDING")

\* One page is stored; with the last one the bundle is complete.
Store(c) ==
  /\ work[c] # NoCall /\ work[c].step = "upload" /\ issued < MaxFiles
  /\ issued' = issued + 1 /\ stored' = stored \cup {issued'}
  /\ work' = [work EXCEPT ![c].up = @ \cup {issued'}, ![c].pages = @ - 1,
                          ![c].step = IF work[c].pages = 1 THEN "save" ELSE "upload"]
  /\ UNCHANGED <<kind, doc, unheard, left>>

Clean(c, F) == [work EXCEPT ![c].step = "clean", ![c].up = {}, ![c].drop = F]

\* Storage fails: the pages stored so far are cleaned up.  The page that
\* failed may be stored all the same, under a key nobody knows.
StoreFails(c) ==
  /\ work[c] # NoCall /\ work[c].step = "upload"
  /\ work' = Clean(c, work[c].up)
  /\ \/ UNCHANGED <<stored, issued, left>>
     \/ /\ issued < MaxFiles /\ issued' = issued + 1
        /\ stored' = stored \cup {issued'} /\ left' = left \cup {issued'}
  /\ UNCHANGED <<kind, doc, unheard>>

----------------------------------------------------------------------------
(* Saving the row.                                                         *)

First(F) == CHOOSE f \in F : \A g \in F : f <= g

\* Triggers driver_document_version and partner_document_version: new pages
\* are a new version, which nobody has judged.
Renewed(old, F) ==
  LET first == First(F)
  IN IF old = NoDocument
     THEN [id |-> first, first |-> first, rest |-> F \ {first},
           version |-> 1, status |-> "PENDING"]
     ELSE [id |-> old.id, first |-> first, rest |-> F \ {first},
           version |-> old.version + 1, status |-> "PENDING"]

\* Mutant: the UPDATE does not compare the version.
AsReadAnyVersion(c) ==
  doc # NoDocument /\ doc.id = work[c].read.id

\* UPDATE .. WHERE id = .. AND version = the one that was read.
AsRead(c) ==
  /\ doc # NoDocument
  /\ doc.id = work[c].read.id /\ doc.version = work[c].read.version

\* A save supersedes the version `old`.  Once told of the commit the request
\* deletes the superseded main file, but not the further pages of that
\* version.  Told of a failure it deletes its own pages: also when the
\* commit went through and only the reply was lost.
Commit(c, old) ==
  /\ work[c] # NoCall /\ work[c].step = "save"
  /\ old # NoDocument => old.version < MaxVersion
  /\ doc' = Renewed(doc, work[c].up)
  /\ \/ /\ work' = Clean(c, IF old = NoDocument THEN {} ELSE {old.first})
        /\ left' = left \cup (IF old = NoDocument THEN {} ELSE old.rest \cap stored)
        /\ UNCHANGED unheard
     \/ /\ work' = Clean(c, work[c].up)
        /\ left' = left \cup (IF old = NoDocument THEN {} ELSE Pages(old) \cap stored)
        /\ unheard' = unheard \cup work[c].up
  /\ UNCHANGED <<kind, stored, issued>>

\* Mutant: the slot is read before the upload, without a lock.
LockedAsRead(c) == work[c].read

\* SELECT .. FOR UPDATE of the slot, inside the transaction that saves it.
Locked(c) == doc

\* saveBundle: a driver's slot always takes the bundle.
SaveBundle(c) == kind = "driver" /\ Commit(c, Locked(c))

\* A partner's new document must be the only one of its type.
CreateMetadata(c) ==
  /\ kind = "partner" /\ work[c] # NoCall /\ work[c].read = NoDocument
  /\ doc = NoDocument /\ Commit(c, NoDocument)

\* A partner's replacement must meet the version it read.
ReplaceMetadata(c) ==
  /\ kind = "partner" /\ work[c] # NoCall /\ work[c].read # NoDocument
  /\ AsRead(c) /\ Commit(c, work[c].read)

\* The save is refused (a conflict, DOCUMENT_CHANGED) or the database fails.
SaveFails(c) ==
  /\ work[c] # NoCall /\ work[c].step = "save"
  /\ work' = Clean(c, work[c].up)
  /\ UNCHANGED <<kind, doc, stored, issued, unheard, left>>

\* Best-effort deletion: a file may stay.  The request ends.
CleanUp(c) ==
  /\ work[c] # NoCall /\ work[c].step = "clean"
  /\ \E kept \in SUBSET (work[c].drop \cap stored) :
       /\ stored' = stored \ (work[c].drop \ kept)
       /\ left' = (left \ work[c].drop) \cup kept
  /\ work' = [work EXCEPT ![c] = NoCall]
  /\ UNCHANGED <<kind, doc, issued, unheard>>

----------------------------------------------------------------------------
(* Removal.                                                                *)

\* getDocument, before the row is deleted.
BeginRemove(c) == doc # NoDocument /\ BeginWork(c, "remove", 0, doc, "PENDING")

Gone(c, drop) ==
  /\ doc' = NoDocument
  /\ work' = Clean(c, drop)
  /\ left' = left \cup ((Pages(doc) \ drop) \cap stored)

Remove(c, may, drop) ==
  /\ work[c] # NoCall /\ work[c].step = "remove"
  /\ IF may /\ doc # NoDocument /\ doc.id = work[c].read.id
     THEN Gone(c, drop)
     ELSE work' = [work EXCEPT ![c] = NoCall] /\ UNCHANGED <<doc, left>>
  /\ UNCHANGED <<kind, stored, issued, unheard>>

\* A driver's row is deleted whatever it has become; the file deleted after
\* it is the main one of the row as read.
RemoveDriverDocument(c) ==
  /\ kind = "driver" /\ work[c] # NoCall /\ work[c].step = "remove"
  /\ Remove(c, TRUE, {work[c].read.first})

\* A partner's row is deleted only as it was first submitted, and all its
\* pages with it.
RemovePartnerDocument(c) ==
  /\ kind = "partner" /\ work[c] # NoCall /\ work[c].step = "remove"
  /\ Remove(c, AsRead(c) /\ doc.status = "PENDING" /\ doc.version = 1, Pages(work[c].read))

----------------------------------------------------------------------------
(* Verdicts and edits of a partner's document (PATCH, no file involved).   *)

Allowed == {<<"PENDING", "SUBMITTED">>, <<"SUBMITTED", "VERIFIED">>,
            <<"SUBMITTED", "REJECTED">>, <<"REJECTED", "SUBMITTED">>}

BeginJudge(c, to) ==
  /\ kind = "partner" /\ doc # NoDocument /\ <<doc.status, to>> \in Allowed
  /\ BeginWork(c, "judge", 0, doc, to)

BeginEdit(c) ==
  /\ kind = "partner" /\ doc # NoDocument
  /\ BeginWork(c, "edit", 0, doc, doc.status)

\* The status is written over that of the row now, which the trigger
\* validate_partner_document_status_transition compares.
Judge(c) ==
  /\ work[c] # NoCall /\ work[c].step = "judge"
  /\ work' = [work EXCEPT ![c] = NoCall]
  /\ doc' = IF AsRead(c) /\ (doc.status = work[c].to \/ <<doc.status, work[c].to>> \in Allowed)
            THEN [doc EXCEPT !.status = work[c].to] ELSE doc
  /\ UNCHANGED <<kind, stored, issued, unheard, left>>

\* An edit writes back the whole metadata as read, the file keys with it,
\* and the status as read.  What a reviewer has to look at (number,
\* authority, dates) makes a new version; a name does not.
Edit(c) ==
  LET read == work[c].read
  IN /\ work[c] # NoCall /\ work[c].step = "edit"
     /\ work' = [work EXCEPT ![c] = NoCall]
     /\ IF AsRead(c)
        THEN \/ /\ doc.version < MaxVersion
                /\ doc' = [doc EXCEPT !.first = read.first, !.rest = read.rest,
                               !.version = doc.version + 1, !.status = "PENDING"]
             \/ /\ doc.status = read.status \/ <<doc.status, read.status>> \in Allowed
                /\ doc' = [doc EXCEPT !.first = read.first, !.rest = read.rest,
                               !.status = read.status]
        ELSE UNCHANGED doc
     /\ UNCHANGED <<kind, stored, issued, unheard, left>>

\* The process dies with all its requests; what they held is not cleaned up.
Crash ==
  /\ \E c \in Requests : work[c] # NoCall
  /\ left' = left \cup ((InHand \cap stored) \ Live)
  /\ work' = [c \in Requests |-> NoCall]
  /\ UNCHANGED <<kind, doc, stored, issued, unheard>>

----------------------------------------------------------------------------
FilesInit ==
  /\ kind \in Kind /\ doc = NoDocument
  /\ stored = {} /\ issued = 0 /\ unheard = {} /\ left = {}
  /\ work = [c \in Requests |-> NoCall]

FilesNext ==
  \/ \E c \in Requests :
       \/ BeginDriverUpload(c) \/ BeginPartnerUpload(c) \/ BeginReplace(c)
       \/ BeginRemove(c) \/ BeginEdit(c)
       \/ \E s \in Status : BeginJudge(c, s)
       \/ Store(c) \/ StoreFails(c) \/ SaveFails(c) \/ CleanUp(c)
       \/ SaveBundle(c) \/ CreateMetadata(c) \/ ReplaceMetadata(c)
       \/ RemoveDriverDocument(c) \/ RemovePartnerDocument(c) \/ Judge(c) \/ Edit(c)
  \/ Crash

FilesSpec == FilesInit /\ [][FilesNext]_filesVars

----------------------------------------------------------------------------
(* Properties.                                                             *)

\* A row never points at a file that was deleted: however saves, edits,
\* removals and their clean-ups overlap, the pages of a live row are in
\* storage, unless the row was saved by a request that was told it failed.
LiveFilesKept == Live \subseteq stored \cup unheard

\* A file in storage belongs to a row, to a running request, or is one of
\* those the code gives up on.
NoFileLeaks == stored \subseteq Live \cup InHand \cup left

\* Both: files are kept while a row or a request needs them, and no other is
\* left that the code does not know of.
FilesAreSound == LiveFilesKept /\ NoFileLeaks

\* VERIFIED is the verdict of a reviewer who read the version it is
\* written on, not of one whose version was replaced or edited meanwhile.
VerdictOnVersionRead ==
  [][doc' # NoDocument /\ doc'.status = "VERIFIED"
       /\ doc # NoDocument /\ doc.status # "VERIFIED"
     => \E c \in Requests :
          /\ work[c] # NoCall /\ work[c].step = "judge" /\ work[c].to = "VERIFIED"
          /\ Pages(work[c].read) = Pages(doc')
          /\ work[c].read.version = doc'.version]_filesVars
=============================================================================
