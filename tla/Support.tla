------------------------------ MODULE Support ------------------------------
(***************************************************************************)
(* Support tickets: `PostgresSupportRepository` (createTicket,             *)
(* updateStatus) and the archive of finished tickets that the              *)
(* administrators' record deletion keeps.                                  *)
(*                                                                         *)
(* A submission carries a request id, unique per user, so that a client    *)
(* may send it again.  The INSERT and the SELECT that follows a conflict   *)
(* are statements of one transaction; a status change and an archive hold  *)
(* the row.                                                                *)
(*                                                                         *)
(* Abstractions.  One user.  A ticket is named by its request id (one      *)
(* submitted without an id never conflicts).                               *)
(***************************************************************************)
EXTENDS Naturals, FiniteSets

CONSTANTS
  Request, Body, Client, Staff,
  MaxVersion,   \* bound: the last version a ticket reaches
  MaxAnswers,   \* bound: submissions answered
  None

SupportAssumption == {MaxVersion, MaxAnswers} \subseteq Nat /\ None \notin Request \cup Body

VARIABLES
  ticket,    \* support_tickets, None before the submission commits
  sending,   \* the submission each client has in progress
  opened,    \* history: support_ticket_created entries
  answers,   \* history: what submissions were answered with
  page,      \* the ticket each member of staff has on screen
  work       \* the transaction each of them has in progress

supportVars == <<ticket, sending, opened, answers, page, work>>

Status == {"OPEN", "UNDER_REVIEW", "RESOLVED", "CLOSED"}
Ticket == [body : Body, status : Status, version : 1..MaxVersion, archived : BOOLEAN]
Answer == [request : Request, body : Body, got : Body \cup {"conflict"}]

SupportTypeOK ==
  /\ ticket \in [Request -> Ticket \cup {None}]
  /\ sending \in [Client -> [at : {"begun", "inserted"}, request : Request, body : Body] \cup {None}]
  /\ opened \in [Request -> 0..Cardinality(Client)]
  /\ answers \subseteq Answer
  /\ page \in [Staff -> [request : Request, status : Status, version : 1..MaxVersion] \cup {None}]
  /\ work \in [Staff -> [does : Status \cup {"archive"}, request : Request, held : BOOLEAN] \cup {None}]

SupportInit ==
  /\ ticket = [r \in Request |-> None]
  /\ sending = [c \in Client |-> None]
  /\ opened = [r \in Request |-> 0]
  /\ answers = {}
  /\ page = [s \in Staff |-> None]
  /\ work = [s \in Staff |-> None]

-----------------------------------------------------------------------------
(* createTicket. *)
Submit(c, r, b) ==
  /\ sending[c] = None /\ Cardinality(answers) < MaxAnswers
  /\ sending' = [sending EXCEPT ![c] = [at |-> "begun", request |-> r, body |-> b]]
  /\ UNCHANGED <<ticket, opened, answers, page, work>>

(* ON CONFLICT DO NOTHING waits for a transaction that inserted the same    *)
(* request id and has not ended.                                            *)
UniqueAlways(c) == TRUE   \* mutant: no unique index on (user_id, request_id)
Unique(c) ==
  /\ ticket[sending[c].request] = None
  /\ ~\E d \in Client \ {c} :
        sending[d] # None /\ sending[d].at = "inserted" /\ sending[d].request = sending[c].request

Insert(c) ==
  /\ sending[c] # None /\ sending[c].at = "begun" /\ Unique(c)
  /\ sending' = [sending EXCEPT ![c].at = "inserted"]
  /\ UNCHANGED <<ticket, opened, answers, page, work>>

CommitTicket(c) ==
  LET s == sending[c] IN
  /\ s # None /\ s.at = "inserted"
  /\ ticket' = [ticket EXCEPT ![s.request] =
                  [body |-> s.body, status |-> "OPEN", version |-> 1, archived |-> FALSE]]
  /\ opened' = [opened EXCEPT ![s.request] = @ + 1]
  /\ answers' = answers \cup {[request |-> s.request, body |-> s.body, got |-> s.body]}
  /\ sending' = [sending EXCEPT ![c] = None]
  /\ UNCHANGED <<page, work>>

SameIssueAlways(c) == TRUE   \* mutant: the stored ticket is not compared
SameIssue(c) == ticket[sending[c].request].body = sending[c].body

AnswerExisting(c) ==
  LET s == sending[c] IN
  /\ s # None /\ s.at = "begun" /\ ticket[s.request] # None
  /\ answers' = answers \cup
       {[request |-> s.request, body |-> s.body,
         got |-> IF SameIssue(c) THEN ticket[s.request].body ELSE "conflict"]}
  /\ sending' = [sending EXCEPT ![c] = None]
  /\ UNCHANGED <<ticket, opened, page, work>>

(* The connection is lost: the transaction is rolled back and the client    *)
(* knows nothing; or only the reply is lost, and the ticket is there.       *)
FailSubmit(c) ==
  /\ sending[c] # None
  /\ sending' = [sending EXCEPT ![c] = None]
  /\ UNCHANGED <<ticket, opened, answers, page, work>>

LoseReply(c) ==
  LET s == sending[c] IN
  /\ s # None /\ s.at = "inserted"
  /\ ticket' = [ticket EXCEPT ![s.request] =
                  [body |-> s.body, status |-> "OPEN", version |-> 1, archived |-> FALSE]]
  /\ opened' = [opened EXCEPT ![s.request] = @ + 1]
  /\ sending' = [sending EXCEPT ![c] = None]
  /\ UNCHANGED <<answers, page, work>>

-----------------------------------------------------------------------------
(* Staff: a page, then a change that names the version shown. *)
OpenPage(s, r) ==
  /\ ticket[r] # None
  /\ page' = [page EXCEPT ![s] = [request |-> r, status |-> ticket[r].status, version |-> ticket[r].version]]
  /\ UNCHANGED <<ticket, sending, opened, answers, work>>

BeginWork(s, does) ==
  /\ work[s] = None /\ page[s] # None
  /\ work' = [work EXCEPT ![s] = [does |-> does, request |-> page[s].request, held |-> FALSE]]
  /\ UNCHANGED <<ticket, sending, opened, answers, page>>

HeldByOther(s) ==
  \E t \in Staff \ {s} : work[t] # None /\ work[t].held /\ work[t].request = work[s].request

supportTransitions ==
  [OPEN |-> {"UNDER_REVIEW", "RESOLVED"}, UNDER_REVIEW |-> {"RESOLVED"},
   RESOLVED |-> {"CLOSED"}, CLOSED |-> {}]

CurrentAlways(s) == TRUE   \* mutant: expectedVersion is not compared
Current(s) == page[s].request = work[s].request /\ ticket[work[s].request].version = page[s].version

FinishedAlways(r) == ~ticket[r].archived   \* mutant: a ticket is archived in any status
Finished(r) == ~ticket[r].archived /\ ticket[r].status = "CLOSED"

(* SELECT ... FOR UPDATE, then the checks on the row it returns; the page   *)
(* is kept until the change ends.                                           *)
LockTicket(s) ==
  LET w == work[s] IN
  /\ w # None /\ ~w.held /\ ~HeldByOther(s)
  /\ IF IF w.does = "archive" THEN Finished(w.request)
        ELSE Current(s) /\ w.does \in supportTransitions[ticket[w.request].status]
     THEN work' = [work EXCEPT ![s].held = TRUE]
     ELSE work' = [work EXCEPT ![s] = None]
  /\ UNCHANGED <<ticket, sending, opened, answers, page>>

CommitWork(s) ==
  LET w == work[s] IN
  /\ w # None /\ w.held
  /\ IF w.does = "archive"
     THEN ticket' = [ticket EXCEPT ![w.request].archived = TRUE]
     ELSE /\ ticket[w.request].version < MaxVersion
          /\ ticket' = [ticket EXCEPT ![w.request].status = w.does, ![w.request].version = @ + 1]
  /\ work' = [work EXCEPT ![s] = None]
  /\ UNCHANGED <<sending, opened, answers, page>>

FailWork(s) ==
  /\ work[s] # None
  /\ work' = [work EXCEPT ![s] = None]
  /\ UNCHANGED <<ticket, sending, opened, answers, page>>

SupportNext ==
  \/ \E c \in Client :
       \/ \E r \in Request, b \in Body : Submit(c, r, b)
       \/ Insert(c) \/ CommitTicket(c) \/ AnswerExisting(c) \/ FailSubmit(c) \/ LoseReply(c)
  \/ \E s \in Staff :
       \/ \E r \in Request : work[s] = None /\ OpenPage(s, r)
       \/ \E does \in Status \cup {"archive"} : BeginWork(s, does)
       \/ LockTicket(s) \/ CommitWork(s) \/ FailWork(s)

SupportSpec == SupportInit /\ [][SupportNext]_supportVars

-----------------------------------------------------------------------------
(* A submission, however often it is sent and whatever was lost, opens one  *)
(* ticket; nobody is answered with a ticket they did not write; and an      *)
(* archived ticket is a closed one.                                         *)
TicketsAreSound ==
  /\ \A r \in Request : opened[r] <= 1
  /\ \A a \in answers : a.got # "conflict" => a.got = a.body /\ ticket[a.request].body = a.body
  /\ \A r \in Request : ticket[r] # None /\ ticket[r].archived => ticket[r].status = "CLOSED"

(* A status is changed by somebody who saw the one it replaces.             *)
StatusWasSeen ==
  [][\A r \in Request : ticket[r] # None /\ ticket'[r].status # ticket[r].status =>
       \E s \in Staff :
         /\ work[s] # None /\ work'[s] = None
         /\ page[s].request = r /\ page[s].status = ticket[r].status]_supportVars
=============================================================================
