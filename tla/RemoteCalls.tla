----------------------------- MODULE RemoteCalls -----------------------------
(***************************************************************************)
(* The two HTTP clients of the package, against servers that are not in    *)
(* it: the jobs of a pull request that keep one sticky comment             *)
(* (GitHubPRCommentPoster.post, ecl_trainer/ci/github_comment.py), and the *)
(* callers that submit events to the control plane                         *)
(* (SaaSControlPlaneClient._submit, ecl_trainer/core/client.py).           *)
(*                                                                         *)
(* A request that was sent may be executed now, later, after its client    *)
(* has given up on it, or never; its answer may never arrive.  A client    *)
(* waits until its answer comes, or until a timeout strikes and it raises: *)
(* neither client retries, but a job may be run again and a caller may     *)
(* call again.  The timeout is httpx's, per operation and not per call: a  *)
(* server that trickles its answer can keep a client waiting, so that no   *)
(* call is promised to end.                                                *)
(***************************************************************************)
EXTENDS Naturals, Sequences, FiniteSets, SequencesExt, FiniteSetsExt

CONSTANTS
    Job,         \* the CI jobs that post a report on one pull request
    Caller,      \* the processes that submit events
    Event,       \* what a caller submits, in the order of the sequence
    PageSize,    \* the comments on a page of the listing (100 in the code)
    MaxAttempts, \* bound: the runs and the calls of all processes together
    MaxComments  \* bound: other people write while there were fewer comments

ASSUME RemoteAssumption ==
    /\ Job \cap Caller = {}
    /\ Event \in Seq(STRING)
    /\ PageSize \in Nat \ {0} /\ MaxAttempts \in Nat /\ MaxComments \in Nat

VARIABLES
    comments,   \* the comments of the pull request, oldest first
    created,    \* the number of comments there ever were
    recorded,   \* the events the control plane has recorded, each with its key
    net,        \* the requests sent and not executed
    answer,     \* answer[p]: the answer on its way to p
    pc,         \* pc[p]: "idle", "listing", "listed" or "sent"
    attempts,   \* the number of runs and calls there were
    attempt,    \* attempt[p]: which of them is p's last
    existing,   \* existing[j]: the comment j found, or NoComment
    newest,     \* the newest report whose job has listed
    current,    \* current[c]: the place in Event of what c submits
    returned,   \* the events whose submission returned to its caller
    raised,     \* raised[c]: the calls of c that raised, for each event
    latest,     \* the report whose post was the last to return
    deleted,    \* the newest report that was deleted from the page
    missed,     \* TRUE once a listing hid a comment or raced with a change, or
                \* someone else wrote the marker
    overtaken   \* TRUE once a job listed after one that had read a newer report

commentVars == <<comments, created, existing, newest, latest, deleted, missed, overtaken>>
submitVars == <<recorded, current, returned, raised>>
vars == <<commentVars, submitVars, net, answer, pc, attempts, attempt>>

Process == Job \cup Caller

NoReport == 0
NoComment == [id |-> NoReport]
NoAnswer == [status |-> "none"]

RemoteInit ==
    /\ comments = << >> /\ created = 0 /\ recorded = {} /\ net = {}
    /\ answer = [p \in Process |-> NoAnswer]
    /\ pc = [p \in Process |-> "idle"]
    /\ attempts = 0 /\ attempt = [p \in Process |-> 0]
    /\ existing = [j \in Job |-> NoComment]
    /\ newest = NoReport
    /\ current = [c \in Caller |-> 1]
    /\ returned = {}
    /\ raised = [c \in Caller |-> [i \in DOMAIN Event |-> 0]]
    /\ latest = NoReport /\ deleted = NoReport
    /\ missed = FALSE /\ overtaken = FALSE

-----------------------------------------------------------------------------
(* The comment.                                                            *)

Marked == {i \in DOMAIN comments : comments[i].marked}

\* A request that will change the comments is about to be sent, or under way.
ChangePending(j) ==
    \/ \E k \in Job \ {j} : pc[k] = "listed" \/ (pc[k] = "sent" /\ answer[k] = NoAnswer)
    \/ \E r \in net : r.op \in {"update", "create"}

\* The report of a run is read as the run starts, before the listing: the
\* number of the run tells which report it is, and how new.
Report(j) == attempt[j]

\* The job starts: the report is read and checked, and the listing asked for.
StartPost(j) ==
    /\ pc[j] = "idle" /\ attempts < MaxAttempts
    /\ pc' = [pc EXCEPT ![j] = "listing"]
    /\ attempts' = attempts + 1
    /\ attempt' = [attempt EXCEPT ![j] = attempts']
    /\ UNCHANGED <<commentVars, submitVars, net, answer>>

\* The first comment of the first page that has the marker.
FindExisting(j) ==
    LET page == {i \in Marked : i <= PageSize}
    IN  IF page = {} THEN NoComment
        ELSE comments[CHOOSE i \in page : \A k \in page : i <= k]

\* The listing is answered, with the comments of that moment.
List(j) ==
    /\ pc[j] = "listing"
    /\ existing' = [existing EXCEPT ![j] = FindExisting(j)]
    /\ newest' = Max({newest, Report(j)})
    /\ overtaken' = (overtaken \/ Report(j) < newest)
    /\ missed' = (missed \/ ChangePending(j) \/ \E i \in Marked : i > PageSize)
    /\ pc' = [pc EXCEPT ![j] = "listed"]
    /\ UNCHANGED <<comments, created, latest, deleted, submitVars, net, answer, attempts, attempt>>

\* A plausible bug: the job never looks for its comment.
AlwaysCreate(j) ==
    /\ pc[j] = "listed"
    /\ net' = net \cup {[op |-> "create", from |-> j, attempt |-> Report(j), target |-> 0]}
    /\ pc' = [pc EXCEPT ![j] = "sent"]
    /\ UNCHANGED <<commentVars, submitVars, answer, attempts, attempt>>

\* The comment found is updated, otherwise one is created.
SendReport(j) ==
    /\ pc[j] = "listed"
    /\ net' = net \cup {[op |-> IF existing[j] = NoComment THEN "create" ELSE "update",
                         from |-> j, attempt |-> Report(j), target |-> existing[j].id]}
    /\ pc' = [pc EXCEPT ![j] = "sent"]
    /\ UNCHANGED <<commentVars, submitVars, answer, attempts, attempt>>

\* The first answer to a request is for the client that still waits for it.
Answered(r, status) ==
    answer' = IF pc[r.from] = "sent" /\ attempt[r.from] = r.attempt /\ answer[r.from] = NoAnswer
              THEN [answer EXCEPT ![r.from] = [status |-> status]]
              ELSE answer

\* GitHub creates a comment or replaces a body, and says so or fails after
\* it; or it refuses, the token or an update of a comment that is gone.
ExecuteComment(r) ==
    /\ r \in net /\ r.op \in {"create", "update"}
    /\ net' = net \ {r}
    /\ \/ /\ r.op = "create"
          /\ comments' = Append(comments, [id |-> created + 1, marked |-> TRUE, body |-> r.attempt])
          /\ created' = created + 1
          /\ \E status \in {"ok", "error"} : Answered(r, status)
       \/ \E i \in Marked :
             /\ r.op = "update" /\ comments[i].id = r.target
             /\ comments' = [comments EXCEPT ![i].body = r.attempt]
             /\ UNCHANGED created
             /\ \E status \in {"ok", "error"} : Answered(r, status)
       \/ Answered(r, "error") /\ UNCHANGED <<comments, created>>
    /\ UNCHANGED <<existing, newest, latest, deleted, missed, overtaken, submitVars, pc, attempts, attempt>>

\* A plausible bug: the status of the answer is not looked at.
PostReturnsUnchecked(j) ==
    /\ pc[j] = "sent" /\ answer[j] # NoAnswer
    /\ latest' = Report(j)
    /\ pc' = [pc EXCEPT ![j] = "idle"]
    /\ answer' = [answer EXCEPT ![j] = NoAnswer]
    /\ UNCHANGED <<comments, created, existing, newest, deleted, missed, overtaken, submitVars, net, attempts, attempt>>

\* post returns what it did, or raise_for_status raises.
PostReturns(j) ==
    /\ pc[j] = "sent" /\ answer[j] # NoAnswer
    /\ latest' = IF answer[j].status = "ok" THEN Report(j) ELSE latest
    /\ pc' = [pc EXCEPT ![j] = "idle"]
    /\ answer' = [answer EXCEPT ![j] = NoAnswer]
    /\ UNCHANGED <<comments, created, existing, newest, deleted, missed, overtaken, submitVars, net, attempts, attempt>>

\* Other people comment.  post takes whatever comment holds the marker, so one
\* who quotes it has written a report as far as post can see.
OtherComments ==
    /\ created < MaxComments
    /\ created' = created + 1
    /\ \E quotes \in BOOLEAN :
          /\ comments' = Append(comments, [id |-> created + 1, marked |-> quotes, body |-> NoReport])
          /\ missed' = (missed \/ quotes)
    /\ UNCHANGED <<existing, newest, latest, deleted, overtaken, submitVars, net, answer, pc, attempts, attempt>>

\* They may delete the report.
DeleteReport ==
    \E i \in Marked :
        /\ comments' = RemoveAt(comments, i)
        /\ deleted' = Max({deleted, comments[i].body})
        /\ UNCHANGED <<created, existing, newest, latest, missed, overtaken, submitVars, net, answer, pc, attempts, attempt>>

-----------------------------------------------------------------------------
(* The control plane.                                                      *)

\* A plausible bug: one key for all the calls of a client.
KeyOfClient(c) == <<c, 1>>

\* uuid4: every call has a key of its own.
Key(c) == <<c, attempts + 1>>

\* _submit: the payload is checked and signed, and posted once.
Submit(c) ==
    /\ pc[c] = "idle" /\ attempts < MaxAttempts /\ current[c] <= Len(Event)
    /\ attempts' = attempts + 1
    /\ attempt' = [attempt EXCEPT ![c] = attempts']
    /\ net' = net \cup {[op |-> "submit", from |-> c, attempt |-> attempts + 1,
                         target |-> Key(c), event |-> current[c]]}
    /\ pc' = [pc EXCEPT ![c] = "sent"]
    /\ UNCHANGED <<commentVars, submitVars, answer>>

\* The control plane records a key once, however often the request is
\* delivered to it, and says so or fails after it; or it refuses.
ExecuteSubmit(r) ==
    /\ r \in net /\ r.op = "submit"
    /\ net' \in {net, net \ {r}}
    /\ \/ /\ recorded' = IF \E e \in recorded : e.key = r.target THEN recorded
                         ELSE recorded \cup {[key |-> r.target, from |-> r.from, event |-> r.event]}
          /\ \E status \in {"ok", "error"} : Answered(r, status)
       \/ Answered(r, "error") /\ UNCHANGED recorded
    /\ UNCHANGED <<commentVars, current, returned, raised, pc, attempts, attempt>>

\* The caller makes a call that raised again, or goes on with the next event.
CallRaises(c) ==
    /\ raised' = [raised EXCEPT ![c][current[c]] = @ + 1]
    /\ current' \in {current, [current EXCEPT ![c] = @ + 1]}

\* _submit returns the answer, or raise_for_status raises.
SubmitReturns(c) ==
    /\ pc[c] = "sent" /\ answer[c] # NoAnswer
    /\ IF answer[c].status = "ok"
       THEN /\ returned' = returned \cup {<<c, current[c]>>}
            /\ current' = [current EXCEPT ![c] = @ + 1]
            /\ UNCHANGED raised
       ELSE CallRaises(c) /\ UNCHANGED returned
    /\ pc' = [pc EXCEPT ![c] = "idle"]
    /\ answer' = [answer EXCEPT ![c] = NoAnswer]
    /\ UNCHANGED <<commentVars, recorded, net, attempts, attempt>>

-----------------------------------------------------------------------------
\* A plausible bug: a call that timed out is posted again, under a new key.
TimesOutAndRepeats(p) ==
    /\ pc[p] = "sent" /\ p \in Caller /\ attempts < MaxAttempts
    /\ attempts' = attempts + 1
    /\ attempt' = [attempt EXCEPT ![p] = attempts']
    /\ net' = net \cup {[op |-> "submit", from |-> p, attempt |-> attempts + 1,
                         target |-> Key(p), event |-> current[p]]}
    /\ answer' = [answer EXCEPT ![p] = NoAnswer]
    /\ UNCHANGED <<commentVars, submitVars, pc>>

\* The client gives up, whatever becomes of its request: no byte came or went
\* for as long as the timeout.
TimesOut(p) ==
    /\ pc[p] # "idle"
    /\ pc' = [pc EXCEPT ![p] = "idle"]
    /\ answer' = [answer EXCEPT ![p] = NoAnswer]
    /\ IF p \in Caller THEN CallRaises(p) ELSE UNCHANGED <<raised, current>>
    /\ UNCHANGED <<commentVars, recorded, returned, net, attempts, attempt>>

RemoteNext ==
    \/ \E j \in Job : StartPost(j) \/ List(j) \/ SendReport(j) \/ PostReturns(j)
    \/ \E c \in Caller : Submit(c) \/ SubmitReturns(c)
    \/ \E p \in Process : TimesOut(p)
    \/ \E r \in net : ExecuteComment(r) \/ ExecuteSubmit(r)
    \/ OtherComments \/ DeleteReport

RemoteSpec == RemoteInit /\ [][RemoteNext]_vars

-----------------------------------------------------------------------------
(***************************************************************************)
(* Properties.                                                             *)
(***************************************************************************)
\* The comment is sticky as long as jobs do not overlap, the first page shows
\* it and nobody else writes the marker: there is at most one report on the
\* pull request, after any number of runs, errors, deletions and timeouts that
\* were not followed by a listing too early (GitHubPRCommentPoster.post).
OneReportUnlessMissed == ~missed => Cardinality(Marked) <= 1

\* Under the same condition, and as long as no job lists after one that read
\* its report later (post reads the report before it lists, and there is
\* nothing to keep an older report from replacing a newer one), what is read
\* is the report posted last, or the newer one of a run whose answer was lost:
\* a post that failed does not return as if it had not, and no late request
\* brings an older report back.
LatestReportStays ==
    ~missed /\ ~overtaken /\ latest > deleted =>
        \E i \in Marked : comments[i].body >= latest

\* What a caller was told is recorded is recorded (_submit).
ReturnedMeansRecorded ==
    \A x \in returned : \E e \in recorded : e.from = x[1] /\ e.event = x[2]

\* An event is recorded again only through a call that raised: there is one
\* copy for the call that returned and at most one for each that did not.
CopiesAreRaisedCalls ==
    \A c \in Caller, i \in DOMAIN Event :
        Cardinality({e \in recorded : e.from = c /\ e.event = i})
            <= raised[c][i] + (IF pc[c] # "idle" /\ current[c] = i THEN 1 ELSE 0)
                            + (IF <<c, i>> \in returned THEN 1 ELSE 0)

-----------------------------------------------------------------------------
(***************************************************************************)
(* The invariant the proofs rest on.                                       *)
(***************************************************************************)
Comment == [id : Nat, marked : BOOLEAN, body : Nat]
CommentRequest ==
    [op : {"create", "update"}, from : Job, attempt : Nat, target : Nat]
SubmitRequest ==
    [op : {"submit"}, from : Caller, attempt : Nat, target : Caller \X Nat, event : DOMAIN Event]
RecordedEvent == [key : Caller \X Nat, from : Caller, event : DOMAIN Event]

RemoteTypeOK ==
    /\ comments \in Seq(Comment) /\ created \in Nat
    /\ recorded \subseteq RecordedEvent /\ IsFiniteSet(recorded)
    /\ net \subseteq CommentRequest \cup SubmitRequest /\ IsFiniteSet(net)
    /\ answer \in [Process -> [status : {"none", "ok", "error"}]]
    /\ pc \in [Process -> {"idle", "listing", "listed", "sent"}]
    /\ attempts \in Nat /\ attempt \in [Process -> Nat]
    /\ existing \in [Job -> {NoComment} \cup Comment]
    /\ newest \in Nat
    /\ current \in [Caller -> Nat \ {0}]
    /\ returned \subseteq Caller \X DOMAIN Event
    /\ raised \in [Caller -> [DOMAIN Event -> Nat]]
    /\ latest \in Nat /\ deleted \in Nat /\ missed \in BOOLEAN /\ overtaken \in BOOLEAN

Submits == {r \in net : r.op = "submit"}
Changes == {r \in net : r.op \in {"create", "update"}}

\* The keys of the requests and of the records of event i of caller c.
KeysOf(c, i) ==
    {r.target : r \in {r \in Submits : r.from = c /\ r.event = i}}
        \cup {e.key : e \in {e \in recorded : e.from = c /\ e.event = i}}

\* An answer is for a client that waits, and a request is older than what its
\* client does before it sends the next.
AnswersAreAwaited ==
    /\ \A p \in Process :
          /\ attempt[p] <= attempts
          /\ answer[p] # NoAnswer => pc[p] = "sent"
    /\ \A c \in Caller : pc[c] \in {"idle", "sent"}
    /\ \A r \in net :
          /\ r.attempt <= attempts
          /\ pc[r.from] \in {"listing", "listed"} => r.attempt < attempt[r.from]

\* A key is the one of a single call, for a single event.
KeysAreOfCalls ==
    /\ \A c \in Caller :
          pc[c] = "sent" =>
              /\ current[c] \in DOMAIN Event
              /\ \A r \in Submits : r.target = <<c, attempt[c]>> => r.event = current[c]
              /\ \A e \in recorded : e.key = <<c, attempt[c]>> => e.event = current[c]
    /\ \A r \in Submits :
          /\ r.target = <<r.from, r.attempt>>
          /\ \A s \in Submits : s.target = r.target => s.event = r.event
          /\ \A e \in recorded : e.key = r.target => e.event = r.event
    /\ \A e, f \in recorded : e.key = f.key => e = f
    /\ \A e \in recorded : e.key[1] = e.from /\ e.key[2] <= attempts

\* What a call that waits has been told, or one that returned, is true.
AnswersAreTrue ==
    \A c \in Caller :
        answer[c].status = "ok" => \E e \in recorded : e.key = <<c, attempt[c]>>

\* The calls of c for event i that may have been, or may be, recorded are those
\* that raised, returned or wait.
KeysAreCounted ==
    \A c \in Caller, i \in DOMAIN Event :
        /\ <<c, i>> \in returned => i < current[c]
        /\ Cardinality(KeysOf(c, i))
              <= raised[c][i] + (IF pc[c] # "idle" /\ current[c] = i THEN 1 ELSE 0)
                              + (IF <<c, i>> \in returned THEN 1 ELSE 0)

\* Until a listing missed something, one job at most is between its listing and
\* the execution of its request, and it creates only where there is no report.
OneChange ==
    ~missed =>
        /\ \A i, k \in Marked : i = k
        /\ \A j, k \in Job : pc[j] = "listed" /\ pc[k] = "listed" => j = k
        /\ \A r, s \in Changes : r = s
        /\ \A j \in Job :
              pc[j] = "listed" =>
                  Changes = {} /\ (existing[j] = NoComment => Marked = {})
        /\ \A r \in Changes : r.op = "create" => Marked = {}

\* Until a job was overtaken as well, it has the newest report of those that
\* have listed, and the one that is shown is not newer.
NewestIsPosted ==
    ~missed /\ ~overtaken =>
        /\ \A j \in Job : pc[j] = "listed" => Report(j) = newest
        /\ \A r \in Changes : r.attempt = newest
        /\ \A i \in Marked : comments[i].body <= newest

\* A report whose post succeeded, and that was not deleted since, is shown, or
\* a newer one is.
PostsAreShown ==
    ~missed /\ ~overtaken =>
        \A j \in Job :
            answer[j].status = "ok" /\ Report(j) > deleted =>
                \E i \in Marked : comments[i].body >= Report(j)

RemoteInvariant ==
    /\ RemoteTypeOK /\ AnswersAreAwaited
    /\ KeysAreOfCalls /\ AnswersAreTrue /\ ReturnedMeansRecorded /\ KeysAreCounted
    /\ OneChange /\ NewestIsPosted /\ PostsAreShown /\ LatestReportStays
=============================================================================
