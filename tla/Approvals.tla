------------------------------ MODULE Approvals ------------------------------
(***************************************************************************)
(* Admission of one driver: the profile and the documents each carry a     *)
(* verification state, and a queue of requests                             *)
(* (`provider_approval_requests`) asks administrators to judge them.       *)
(*                                                                         *)
(* The queue is filled and emptied from two sides.  Handlers insert        *)
(* requests and close the one they judge; database triggers insert one     *)
(* whenever a row falls back to pending and close every pending one of a   *)
(* row that has been judged.  An administrator judges what a page showed   *)
(* some time ago, and sends back the `updated_at` of each row seen.        *)
(*                                                                         *)
(* Every handler locks the row it judges (or, to change a document, the    *)
(* profile) before it decides and commits once: each is one action.        *)
(*                                                                         *)
(* Abstractions.  The content of a row is a number that grows.  A row's    *)
(* `updated_at` is compared for equality only, so a page records which of  *)
(* its rows nobody has touched since.  Pages per document, licence expiry  *)
(* and the reviewers' identity (never the driver) are left out.            *)
(***************************************************************************)
EXTENDS Naturals, Sequences, Functions

CONSTANTS
  Docs,           \* document codes of the driver
  Licence,        \* the one of them that is the driving licence
  Reviewers,      \* administrators
  MaxContent,     \* bound
  Nothing         \* no page is open, no onboarding was submitted

ASSUME ApprovalsAssumption ==
  /\ Licence \in Docs /\ "profile" \notin Docs
  /\ MaxContent \in Nat \ {0}

VARIABLES
  row,        \* the profile and the documents
  queue,      \* per row the purposes of its pending requests, oldest first
  page,       \* what each administrator has on screen
  required,   \* documents that provider_document_requirements demands
  receipt,    \* snapshot of the last onboarding submission
  judged      \* content each row had on the page its last approval came from

approvalVars == <<row, queue, page, required, receipt, judged>>

Target == Docs \cup {"profile"}
State == {"absent", "pending", "approved", "rejected"}   \* pending: or under review
Purpose == {"handoff", "asked", "association"}
Request == Target \X Purpose
Page == [items : SUBSET Request, group : BOOLEAN, live : SUBSET Request,
         shown : [Target -> 0..MaxContent], fresh : SUBSET Target]

ApprovalsTypeOK ==
  /\ row \in [Target -> [state : State, content : 0..MaxContent, expired : BOOLEAN]]
  /\ queue \in [Target -> Seq(Purpose)]
  /\ \A t \in Target : IsInjective(queue[t])   \* provider_approval_pending_target_uidx
  /\ page \in [Reviewers -> Page \cup {Nothing}]
  /\ required \subseteq Docs
  /\ receipt \in [rows : SUBSET Target, fresh : SUBSET Target] \cup {Nothing}
  /\ judged \in [Target -> 0..MaxContent]

----------------------------------------------------------------------------
(* The queue.                                                              *)

Pending(q) == {w \in Request : w[2] \in Range(q[w[1]])}

\* Mutant: no unique index on pending requests.
InsertAlways(q, t, k) == [q EXCEPT ![t] = Append(@, k)]

\* INSERT .. ON CONFLICT DO NOTHING.
Insert(q, t, k) == IF <<t, k>> \in Pending(q) THEN q ELSE [q EXCEPT ![t] = Append(@, k)]

\* Mutant: the trigger is content with any request about the row.
EnqueueUnlessAsked(q, t) == IF q[t] = <<>> THEN [q EXCEPT ![t] = <<"handoff">>] ELSE q

\* The request of purpose k is no longer pending.
Without(q, k) ==
  LET i == CHOOSE j \in DOMAIN q : q[j] = k
  IN IF k \in Range(q) THEN SubSeq(q, 1, i - 1) \o SubSeq(q, i + 1, Len(q)) ELSE q

\* enqueue_provider_approval: a row that waits for a verdict has a request
\* of the trigger's own type; one that is there already is submitted anew.
Enqueue(q, t) == [q EXCEPT ![t] = Append(Without(@, "handoff"), "handoff")]

\* synchronize_provider_approval: a row that has been judged leaves no
\* request about it pending, of whatever type.
Synchronize(q, T) == [t \in Target |-> IF t \in T THEN <<>> ELSE q[t]]

\* A page shows requests of which some are closed since, and rows of which
\* some have been touched (every update stamps the row).
Seen(T, q) ==
  /\ page' = [r \in Reviewers |->
                IF page[r] = Nothing THEN Nothing
                ELSE [page[r] EXCEPT !.fresh = @ \ T, !.live = @ \cap Pending(q)]]
  /\ receipt' = IF receipt = Nothing THEN Nothing ELSE [receipt EXCEPT !.fresh = @ \ T]

----------------------------------------------------------------------------
(* The driver.                                                             *)

Resubmitted(t) == [state |-> "pending", content |-> row[t].content + 1, expired |-> FALSE]

\* New licence details: trigger driver_licence_reverification.
SaveProfile ==
  /\ row["profile"].content < MaxContent
  /\ row' = [row EXCEPT !["profile"] = Resubmitted("profile")]
  /\ queue' = Enqueue(queue, "profile")
  /\ Seen({"profile"}, queue)
  /\ UNCHANGED <<required, judged>>

\* saveBundle locks the profile, then the document.  A new licence file
\* also sends the profile back (driver_licence_upload_reverification).
Upload(d) ==
  LET back == IF d = Licence THEN {d, "profile"} ELSE {d}
      queued == Enqueue(queue, d)
  IN /\ row["profile"].state # "absent" /\ row[d].content < MaxContent
     /\ row' = [t \in Target |-> IF t = d THEN Resubmitted(d)
                                 ELSE IF t \in back THEN [row[t] EXCEPT !.state = "pending"]
                                 ELSE row[t]]
     /\ queue' = (IF d = Licence THEN Enqueue(queued, "profile") ELSE queued)
     /\ Seen(back, queue)
     /\ UNCHANGED <<required, judged>>

\* requestApproval: any of the types that apply to the driver's own rows.
Ask(t) ==
  /\ row[t].state # "absent"
  /\ queue' = Insert(queue, t, "asked")
  /\ UNCHANGED <<row, page, required, receipt, judged>>

\* requestApproval by an approved fleet that wants the driver.
Associate ==
  /\ row["profile"].state = "approved"
  /\ queue' = Insert(queue, "profile", "association")
  /\ UNCHANGED <<row, page, required, receipt, judged>>

\* onboarding({submit}): the rows of the driver that may be judged.  Nothing
\* happens when the same rows were submitted and none has changed since.
Evident(d) == row[d].state \notin {"absent", "rejected"} /\ ~row[d].expired
Submitted == {"profile"} \cup {d \in Docs : row[d].state \notin {"absent", "rejected"}}

Submit ==
  /\ row["profile"].state # "absent"
  /\ \A d \in required \cup {Licence} : Evident(d)
  /\ receipt # [rows |-> Submitted, fresh |-> Submitted]
  /\ queue' = [t \in Target |->
                 IF t \in Submitted /\ row[t].state # "approved" /\ queue[t] = <<>>
                 THEN <<"asked">> ELSE queue[t]]
  /\ receipt' = [rows |-> Submitted, fresh |-> Submitted]
  /\ UNCHANGED <<row, page, required, judged>>

\* submitFleetApprovals: what still waits and could be judged is asked for
\* once, whoever asks for it already.
Waits(t) ==
  /\ row[t].state = "pending" /\ ~row[t].expired
  /\ t = "profile" => row[Licence].state \notin {"absent", "rejected"}
SubmitFleet ==
  /\ queue' = [t \in Target |-> IF Waits(t) /\ queue[t] = <<>> THEN <<"asked">> ELSE queue[t]]
  /\ UNCHANGED <<row, page, required, receipt, judged>>

----------------------------------------------------------------------------
(* The administrators.                                                     *)

\* pendingApprovals, approvalDetail: one request, or the driver's group.
GroupItems == {w \in Pending(queue) : w[2] # "association"}
Rows(I) == {w[1] : w \in I}

Open(r, I, group) ==
  /\ I # {}
  /\ page' = [page EXCEPT ![r] =
       [items |-> I, live |-> I, group |-> group,
        fresh |-> Rows(I) \cup (IF group THEN {"profile"} ELSE {}),
        shown |-> [t \in Target |-> IF t \in Rows(I) THEN row[t].content ELSE 0]]]
  /\ UNCHANGED <<row, queue, required, receipt, judged>>

\* provider_compliance_satisfied on a driver's profile, given the rows.
Compliant(rows) == \A d \in required : rows[d].state = "approved" /\ ~rows[d].expired

Outcome(verdict) == IF verdict = "APPROVED" THEN "approved" ELSE "rejected"

\* reviewApproval once it holds its row and its request.  An association
\* makes the driver a member (action Join of Fleet) and leaves the row alone.  Any other verdict
\* sets the row's state, and the trigger closes all that is pending about it.
Decide(w, verdict, seen, from) ==
  LET t == w[1] IN
  IF w[2] = "association"
  THEN /\ verdict = "APPROVED" => row["profile"].state = "approved"
       /\ queue' = [from EXCEPT ![t] = Without(@, "association")]
       /\ Seen({}, queue')
       /\ UNCHANGED <<row, required, judged>>
  ELSE /\ verdict = "APPROVED" => ~row[t].expired /\ (t = "profile" => Compliant(row))
       /\ row' = [row EXCEPT ![t].state = Outcome(verdict)]
       /\ queue' = Synchronize(from, {t})
       /\ judged' = IF verdict = "APPROVED" THEN [judged EXCEPT ![t] = seen] ELSE judged
       /\ Seen({t}, queue')
       /\ UNCHANGED required

\* Mutant: the verdict is taken without comparing updated_at.
UnmovedUnchecked(r, t) == t \in Target

\* The updated_at the administrator sends is the row's own.
Unmoved(r, t) == t \in page[r].fresh

Review(r, verdict) ==
  /\ page[r] # Nothing
  /\ \E w \in page[r].live :
       /\ Unmoved(r, w[1])
       /\ Decide(w, verdict, page[r].shown[w[1]], queue)

\* reviewOnboarding: the pending requests of the group must be those on the
\* page, none of their rows may have moved.  Documents first, then the
\* profile; each is judged by reviewApproval, whose trigger closes every
\* request of the row, so a second request about it makes the call fail,
\* and the failure of one rolls back them all.
GroupMatches(r) ==
  /\ page[r] # Nothing /\ page[r].group
  /\ GroupItems # {} /\ GroupItems = page[r].live /\ page[r].live = page[r].items
  /\ Rows(GroupItems) \cup {"profile"} \subseteq page[r].fresh
GroupRows(verdict) ==
  [t \in Target |-> IF t \in Rows(GroupItems) THEN [row[t] EXCEPT !.state = Outcome(verdict)]
                    ELSE row[t]]
EvidenceHolds ==
  /\ \A t \in Rows(GroupItems) : ~row[t].expired
  /\ "profile" \in Rows(GroupItems) => Compliant(GroupRows("APPROVED"))
OncePerRow == \A v, w \in GroupItems : v[1] = w[1] => v = w

ReviewOnboarding(r, verdict) ==
  /\ GroupMatches(r)
  /\ OncePerRow
  /\ verdict = "APPROVED" => EvidenceHolds
  /\ row' = GroupRows(verdict)
  /\ queue' = Synchronize(queue, Rows(GroupItems))
  /\ judged' = [t \in Target |-> IF t \in Rows(GroupItems) /\ verdict = "APPROVED"
                                 THEN page[r].shown[t] ELSE judged[t]]
  /\ Seen(Rows(GroupItems), queue')
  /\ UNCHANGED required

\* reviewLegacyTarget: the older endpoints name the row, not a request.  The
\* oldest pending request about the row is judged, whatever it asks, or one
\* is made; the row's own updated_at stands for the page.
LegacyReview(verdict) ==
  LET from == IF queue["profile"] = <<>> THEN Enqueue(queue, "profile") ELSE queue
  IN /\ row["profile"].state # "absent"
     /\ Decide(<<"profile", Head(from["profile"])>>, verdict, row["profile"].content, from)

\* The same endpoint takes a profile back to pending or under review.
LegacyReset ==
  /\ row["profile"].state # "absent"
  /\ row' = [row EXCEPT !["profile"].state = "pending"]
  /\ queue' = Enqueue(queue, "profile")
  /\ Seen({"profile"}, queue)
  /\ UNCHANGED <<required, judged>>

\* configureDocumentRequirement.
Configure(d) ==
  /\ required' = IF d \in required THEN required \ {d} ELSE required \cup {d}
  /\ UNCHANGED <<row, queue, page, receipt, judged>>

\* The validity of a row's evidence runs out.
Expire(t) ==
  /\ row[t].state # "absent" /\ ~row[t].expired
  /\ row' = [row EXCEPT ![t].expired = TRUE]
  /\ UNCHANGED <<queue, page, required, receipt, judged>>

----------------------------------------------------------------------------
ApprovalsInit ==
  /\ row = [t \in Target |-> [state |-> "absent", content |-> 0, expired |-> FALSE]]
  /\ queue = [t \in Target |-> <<>>]
  /\ page = [r \in Reviewers |-> Nothing]
  /\ required \in SUBSET Docs
  /\ receipt = Nothing
  /\ judged = [t \in Target |-> 0]

ApprovalsNext ==
  \/ SaveProfile \/ Associate \/ Submit \/ SubmitFleet
  \/ \E d \in Docs : Upload(d) \/ Configure(d) \/ Expire(d)
  \/ \E t \in Target : Ask(t)
  \/ \E r \in Reviewers :
       \/ Open(r, GroupItems, TRUE)
       \/ \E w \in Pending(queue) : Open(r, {w}, FALSE)
       \/ \E v \in {"APPROVED", "REJECTED"} : Review(r, v) \/ ReviewOnboarding(r, v)
  \/ \E v \in {"APPROVED", "REJECTED"} : LegacyReview(v)
  \/ LegacyReset

ApprovalsSpec == ApprovalsInit /\ [][ApprovalsNext]_approvalVars

----------------------------------------------------------------------------
(* Properties.                                                             *)

\* What is approved is what a reviewer looked at: an approved row still
\* holds the content that was on the page its approval came from, however
\* uploads, edits and other verdicts interleaved with the reading of it.
ApprovedWasSeen ==
  \A t \in Target : row[t].state = "approved" => judged[t] = row[t].content

\* A row that waits for a verdict can be found: a request about it other
\* than a fleet's association is pending, so nobody waits for ever because
\* a verdict closed the request of a later upload.
WaitingIsQueued ==
  \A t \in Target : row[t].state = "pending" =>
    \E k \in Range(queue[t]) : k # "association"

\* What is approved was on the page its reviewer judged, and what waits for
\* a review is queued.
ReviewsAreSound == ApprovedWasSeen /\ WaitingIsQueued

\* A driver whose page is current and whose evidence is in order can be
\* approved as a whole
\* ("approves all pending documents and the profile atomically").
GroupIsDecidable ==
  \A r \in Reviewers : GroupMatches(r) /\ EvidenceHolds => OncePerRow
=============================================================================
