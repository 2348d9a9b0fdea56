---------------------------- MODULE RemoteProofs ----------------------------
(* Proofs of the safety properties of RemoteCalls, for any number of jobs, *)
(* callers, attempts and events, and whatever the two servers do.          *)
EXTENDS RemoteCalls, FiniteSetTheorems, WellFoundedInduction, TLAPS

-----------------------------------------------------------------------------
(* Facts about comments, requests and answers.                             *)

LEMMA EachComment ==
    ASSUME RemoteTypeOK, NEW i \in DOMAIN comments
    PROVE  /\ comments[i] \in Comment /\ i \in 1..Len(comments)
           /\ comments[i].id \in Nat /\ comments[i].body \in Nat
           /\ comments[i].marked \in BOOLEAN
<1>1. comments[i] \in Comment /\ i \in 1..Len(comments)
    BY DEF RemoteTypeOK
<1> QED
    BY <1>1 DEF Comment

LEMMA CommentIsNotNone == \A x \in Comment : x # NoComment
<1>1. \A x \in Comment : DOMAIN x = {"id", "marked", "body"}
    BY DEF Comment
<1>2. DOMAIN NoComment = {"id"}
    BY DEF NoComment
<1> QED
    BY <1>1, <1>2

\* A request is a caller's submission or a job's change of the comments.
LEMMA EachRequest ==
    ASSUME RemoteTypeOK
    PROVE  /\ \A r \in Submits : r \in SubmitRequest
           /\ \A r \in Changes : r \in CommentRequest
           /\ net = Submits \cup Changes
BY DEF RemoteTypeOK, Submits, Changes, CommentRequest, SubmitRequest

\* What Answered does to the answers.
LEMMA AnswerGiven ==
    ASSUME RemoteTypeOK, NEW r \in net, NEW status \in {"ok", "error"}, Answered(r, status)
    PROVE  /\ r.from \in Process
           /\ answer' \in [Process -> [status : {"none", "ok", "error"}]]
           /\ \A p \in Process :
                 \/ answer'[p] = answer[p]
                 \/ /\ p = r.from /\ pc[p] = "sent" /\ attempt[p] = r.attempt
                    /\ answer'[p] = [status |-> status]
<1>1. r.from \in Process
    BY DEF RemoteTypeOK, Process, CommentRequest, SubmitRequest
<1>2. [status |-> status] \in [status : {"none", "ok", "error"}]
    OBVIOUS
<1> QED
    BY <1>1, <1>2 DEF RemoteTypeOK, Answered

-----------------------------------------------------------------------------
(* The types.                                                              *)

\* Every set of numbers that is not empty has a least one.
LEMMA LeastOf ==
    ASSUME NEW S \in SUBSET Nat, S # {}
    PROVE  \E n \in S : \A m \in S : n <= m
<1>1. PICK n \in S : \A m \in S : ~(<<m, n>> \in OpToRel(<, Nat))
    BY NatLessThanWellFounded, WFMin
<1>2. ASSUME NEW i \in Nat, NEW k \in Nat, k < i PROVE <<k, i>> \in OpToRel(<, Nat)
    BY <1>2 DEF OpToRel
<1>3. \A m \in S : n \in Nat /\ m \in Nat /\ ~(m < n)
    BY <1>1, <1>2
<1> QED
    BY <1>3

\* The search of the first page finds the first marked comment of it.
LEMMA FirstMarked ==
    ASSUME RemoteTypeOK, NEW j
    PROVE  \/ /\ {i \in Marked : i <= PageSize} = {}
              /\ FindExisting(j) = NoComment
           \/ \E i \in Marked : FindExisting(j) = comments[i] /\ comments[i] \in Comment
<1> DEFINE page == {i \in Marked : i <= PageSize}
           P(i) == i \in page /\ \A k \in page : i <= k
<1>1. CASE page = {}
    BY <1>1 DEF FindExisting
<1>2. CASE page # {}
    <2>1. page \subseteq Nat
        BY EachComment DEF Marked
    <2>2. \E i : P(i)
        BY <1>2, <2>1, LeastOf
    <2>3. P(CHOOSE i : P(i))
        <3> HIDE DEF P
        <3> QED
            BY <2>2
    <2>4. FindExisting(j) = comments[CHOOSE i : P(i)]
        BY <1>2 DEF FindExisting
    <2>5. (CHOOSE i : P(i)) \in Marked
        BY <2>3
    <2> HIDE DEF P
    <2> QED
        BY <2>4, <2>5, EachComment DEF Marked
<1> QED
    BY <1>1, <1>2

LEMMA MaxOfTwo ==
    \A a, b \in Nat : Max({a, b}) \in Nat /\ Max({a, b}) >= a /\ Max({a, b}) >= b
<1> SUFFICES ASSUME NEW a \in Nat, NEW b \in Nat
             PROVE  Max({a, b}) \in Nat /\ Max({a, b}) >= a /\ Max({a, b}) >= b
    OBVIOUS
<1>1. \E x \in {a, b} : \A y \in {a, b} : x >= y
    OBVIOUS
<1>2. Max({a, b}) \in {a, b} /\ \A y \in {a, b} : Max({a, b}) >= y
    <2> DEFINE P(x) == x \in {a, b} /\ \A y \in {a, b} : x >= y
    <2>1. \E x : P(x)
        BY <1>1
    <2>2. P(CHOOSE x : P(x))
        <3> HIDE DEF P
        <3> QED
            BY <2>1
    <2>3. Max({a, b}) = CHOOSE x : P(x)
        BY DEF Max
    <2> QED
        BY <2>2, <2>3
<1> QED
    BY <1>2

LEMMA MaxOfGreater ==
    ASSUME NEW a \in Nat, NEW b \in Nat, b >= a
    PROVE  Max({a, b}) = b
<1>1. Max({a, b}) = CHOOSE x \in {a, b} : \A y \in {a, b} : x >= y
    BY DEF Max
<1>2. \A x \in {a, b} : (\A y \in {a, b} : x >= y) <=> x = b
    OBVIOUS
<1> QED
    BY <1>1, <1>2

LEMMA OneMore ==
    ASSUME NEW S, NEW f \in [S -> Nat], NEW k
    PROVE  [f EXCEPT ![k] = f[k] + 1] \in [S -> Nat]
<1>1. CASE k \in S
    <2>1. f[k] + 1 \in Nat
        BY <1>1
    <2> QED
        BY <2>1
<1>2. CASE k \notin S
    <2> DEFINE n == f[k] + 1
    <2> HIDE DEF n
    <2>1. [f EXCEPT ![k] = n] \in [S -> Nat]
        BY <1>2
    <2> QED
        BY <2>1 DEF n
<1> QED
    BY <1>1, <1>2

LEMMA TypeInit == RemoteInit => RemoteTypeOK
<1> SUFFICES ASSUME RemoteInit PROVE RemoteTypeOK
    OBVIOUS
<1>1. IsFiniteSet({})
    BY FS_EmptySet
<1>2. NoComment \in {NoComment} \cup Comment /\ NoAnswer \in [status : {"none", "ok", "error"}]
    BY DEF NoAnswer
<1>3. /\ comments \in Seq(Comment)
      /\ recorded \subseteq RecordedEvent /\ IsFiniteSet(recorded)
      /\ net \subseteq CommentRequest \cup SubmitRequest /\ IsFiniteSet(net)
      /\ returned \subseteq Caller \X DOMAIN Event
    BY <1>1 DEF RemoteInit
<1>4. /\ answer \in [Process -> [status : {"none", "ok", "error"}]]
      /\ pc \in [Process -> {"idle", "listing", "listed", "sent"}]
      /\ attempts \in Nat /\ attempt \in [Process -> Nat]
      /\ existing \in [Job -> {NoComment} \cup Comment]
      /\ newest \in Nat /\ created \in Nat /\ overtaken \in BOOLEAN
    BY <1>2 DEF RemoteInit, NoReport
<1>5. /\ current \in [Caller -> Nat \ {0}]
      /\ raised \in [Caller -> [DOMAIN Event -> Nat]]
      /\ latest \in Nat /\ deleted \in Nat /\ missed \in BOOLEAN
    <2>1. [i \in DOMAIN Event |-> 0] \in [DOMAIN Event -> Nat]
        OBVIOUS
    <2> DEFINE none == [i \in DOMAIN Event |-> 0]
    <2> HIDE DEF none
    <2>2. [c \in Caller |-> none] \in [Caller -> [DOMAIN Event -> Nat]]
        BY <2>1 DEF none
    <2>3. raised \in [Caller -> [DOMAIN Event -> Nat]]
        BY <2>2 DEF RemoteInit, none
    <2>4. current = [c \in Caller |-> 1] /\ latest = 0 /\ deleted = 0 /\ missed = FALSE
        BY DEF RemoteInit, NoReport
    <2>5. current \in [Caller -> Nat \ {0}]
        BY <2>4
    <2> QED
        BY <2>3, <2>4, <2>5
<1> QED
    BY <1>3, <1>4, <1>5 DEF RemoteTypeOK

LEMMA CallerIsNoJob == \A j \in Job : j \in Process /\ j \notin Caller
BY RemoteAssumption DEF Process

\* The job's steps.
LEMMA TypeKeptByJob ==
    ASSUME RemoteTypeOK, NEW j \in Job,
           StartPost(j) \/ List(j) \/ SendReport(j) \/ PostReturns(j)
    PROVE  RemoteTypeOK'
<1>1. j \in Process
    BY DEF Process
<1>2. CASE StartPost(j)
    BY <1>1, <1>2 DEF StartPost, RemoteTypeOK, commentVars, submitVars
<1>3. CASE List(j)
    <2>1. FindExisting(j) \in {NoComment} \cup Comment
        BY FirstMarked DEF FindExisting, Marked
    <2>2. missed' \in BOOLEAN /\ overtaken' \in BOOLEAN
        BY <1>3 DEF List, RemoteTypeOK
    <2>3. newest' \in Nat
        BY <1>1, <1>3, MaxOfTwo DEF List, Report, RemoteTypeOK
    <2> QED
        BY <1>1, <1>3, <2>1, <2>2, <2>3 DEF List, RemoteTypeOK, submitVars
<1>4. CASE SendReport(j)
    <2> DEFINE r == [op |-> IF existing[j] = NoComment THEN "create" ELSE "update",
                     from |-> j, attempt |-> Report(j), target |-> existing[j].id]
    <2>1. existing[j].id \in Nat
        BY DEF RemoteTypeOK, NoComment, Comment, NoReport
    <2>2. r \in CommentRequest
        BY <1>1, <2>1 DEF CommentRequest, Report, RemoteTypeOK
    <2>3. net' = net \cup {r} /\ IsFiniteSet(net \cup {r})
        BY <1>4, FS_AddElement DEF SendReport, RemoteTypeOK
    <2> HIDE DEF r
    <2> QED
        BY <1>1, <1>4, <2>2, <2>3 DEF SendReport, RemoteTypeOK, commentVars, submitVars
<1>5. CASE PostReturns(j)
    <2>1. NoAnswer \in [status : {"none", "ok", "error"}]
        BY DEF NoAnswer
    <2> QED
        BY <1>1, <1>5, <2>1 DEF PostReturns, Report, RemoteTypeOK, submitVars
<1> QED
    BY <1>2, <1>3, <1>4, <1>5

\* What others do to the comments.
LEMMA TypeKeptByOthers ==
    ASSUME RemoteTypeOK, OtherComments \/ DeleteReport
    PROVE  RemoteTypeOK'
<1>1. CASE OtherComments
    <2>1. ASSUME NEW quotes \in BOOLEAN
          PROVE  [id |-> created + 1, marked |-> quotes, body |-> NoReport] \in Comment
        BY DEF Comment, NoReport, RemoteTypeOK
    <2>2. comments' \in Seq(Comment) /\ missed' \in BOOLEAN
        BY <1>1, <2>1 DEF OtherComments, RemoteTypeOK
    <2> QED
        BY <1>1, <2>2 DEF OtherComments, RemoteTypeOK, submitVars
<1>2. CASE DeleteReport
    <2> PICK i \in Marked : /\ comments' = RemoveAt(comments, i)
                            /\ deleted' = Max({deleted, comments[i].body})
        BY <1>2 DEF DeleteReport
    <2>1. RemoveAt(comments, i) \in Seq(Comment)
        BY DEF RemoveAt, Marked, RemoteTypeOK
    <2>2. comments[i].body \in Nat
        BY EachComment DEF Marked
    <2>3. Max({deleted, comments[i].body}) \in Nat
        BY <2>2, MaxOfTwo DEF RemoteTypeOK
    <2> QED
        BY <1>2, <2>1, <2>3 DEF DeleteReport, RemoteTypeOK, submitVars
<1> QED
    BY <1>1, <1>2

\* The servers' steps.
LEMMA TypeKeptByServers ==
    ASSUME RemoteTypeOK, NEW r \in net, ExecuteComment(r) \/ ExecuteSubmit(r)
    PROVE  RemoteTypeOK'
<1>1. IsFiniteSet(net \ {r})
    BY FS_RemoveElement DEF RemoteTypeOK
<1>2. answer' \in [Process -> [status : {"none", "ok", "error"}]]
    BY AnswerGiven DEF ExecuteComment, ExecuteSubmit
<1>3. CASE ExecuteComment(r)
    <2>1. r \in CommentRequest
        BY <1>3, EachRequest DEF ExecuteComment, Changes
    <2>2. comments' \in Seq(Comment)
        <3>1. CASE comments' = Append(comments, [id |-> created + 1, marked |-> TRUE, body |-> r.attempt])
            <4>1. [id |-> created + 1, marked |-> TRUE, body |-> r.attempt] \in Comment
                BY <2>1 DEF Comment, CommentRequest, RemoteTypeOK
            <4> QED
                BY <3>1, <4>1 DEF RemoteTypeOK
        <3>2. ASSUME NEW i \in Marked, comments' = [comments EXCEPT ![i].body = r.attempt]
              PROVE  comments' \in Seq(Comment)
            <4>1. i \in DOMAIN comments /\ comments[i] \in Comment
                BY DEF Marked, RemoteTypeOK
            <4>2. [comments[i] EXCEPT !.body = r.attempt] \in Comment
                BY <2>1, <4>1 DEF Comment, CommentRequest
            <4>3. comments' = [comments EXCEPT ![i] = [comments[i] EXCEPT !.body = r.attempt]]
                BY <3>2
            <4> QED
                BY <4>1, <4>2, <4>3 DEF RemoteTypeOK
        <3>3. CASE UNCHANGED comments
            BY <3>3 DEF RemoteTypeOK
        <3> QED
            BY <1>3, <3>1, <3>2, <3>3 DEF ExecuteComment
    <2>3. created' \in Nat
        BY <1>3 DEF ExecuteComment, RemoteTypeOK
    <2> QED
        BY <1>1, <1>2, <1>3, <2>2, <2>3 DEF ExecuteComment, RemoteTypeOK, submitVars
<1>4. CASE ExecuteSubmit(r)
    <2>1. r \in SubmitRequest
        BY <1>4, EachRequest DEF ExecuteSubmit, Submits
    <2> DEFINE e == [key |-> r.target, from |-> r.from, event |-> r.event]
    <2>2. e \in RecordedEvent
        BY <2>1 DEF SubmitRequest, RecordedEvent
    <2>3. recorded' \in {recorded, recorded \cup {e}}
        BY <1>4 DEF ExecuteSubmit
    <2>4. IsFiniteSet(recorded \cup {e})
        BY FS_AddElement DEF RemoteTypeOK
    <2> HIDE DEF e
    <2>5. recorded' \subseteq RecordedEvent /\ IsFiniteSet(recorded')
        BY <2>2, <2>3, <2>4 DEF RemoteTypeOK
    <2>6. net' \subseteq net /\ IsFiniteSet(net')
        BY <1>1, <1>4 DEF ExecuteSubmit, RemoteTypeOK
    <2> QED
        BY <1>2, <1>4, <2>5, <2>6 DEF ExecuteSubmit, RemoteTypeOK, commentVars
<1> QED
    BY <1>3, <1>4

\* What a call that raises leaves of its caller's variables.
LEMMA TypeOfRaise ==
    ASSUME RemoteTypeOK, NEW c \in Caller, CallRaises(c)
    PROVE  /\ raised' \in [Caller -> [DOMAIN Event -> Nat]]
           /\ current' \in [Caller -> Nat \ {0}]
<1>1. raised' \in [Caller -> [DOMAIN Event -> Nat]]
    <2> DEFINE mine == raised[c]
    <2>1. mine \in [DOMAIN Event -> Nat]
        BY DEF RemoteTypeOK
    <2>2. [mine EXCEPT ![current[c]] = mine[current[c]] + 1] \in [DOMAIN Event -> Nat]
        BY <2>1, OneMore
    <2>3. raised' = [raised EXCEPT ![c] = [mine EXCEPT ![current[c]] = mine[current[c]] + 1]]
        BY DEF CallRaises
    <2> HIDE DEF mine
    <2> QED
        BY <2>2, <2>3 DEF RemoteTypeOK
<1>2. current' \in [Caller -> Nat \ {0}]
    BY DEF CallRaises, RemoteTypeOK
<1> QED
    BY <1>1, <1>2

\* The caller's steps, and a timeout.
LEMMA TypeKeptByCaller ==
    ASSUME RemoteTypeOK, AnswersAreAwaited, KeysAreOfCalls, NEW c \in Caller,
           Submit(c) \/ SubmitReturns(c)
    PROVE  RemoteTypeOK'
<1>1. c \in Process
    BY DEF Process
<1>2. CASE Submit(c)
    <2> DEFINE r == [op |-> "submit", from |-> c, attempt |-> attempts + 1,
                     target |-> Key(c), event |-> current[c]]
    <2>1. current[c] \in DOMAIN Event
        BY <1>2, RemoteAssumption DEF Submit, RemoteTypeOK
    <2>2. r \in SubmitRequest
        BY <2>1 DEF SubmitRequest, Key, RemoteTypeOK
    <2>3. net' = net \cup {r} /\ IsFiniteSet(net \cup {r})
        BY <1>2, FS_AddElement DEF Submit, RemoteTypeOK
    <2> HIDE DEF r
    <2> QED
        <3>1. net' \subseteq CommentRequest \cup SubmitRequest /\ IsFiniteSet(net')
            BY <2>2, <2>3 DEF RemoteTypeOK
        <3>2. /\ attempts' \in Nat /\ attempt' \in [Process -> Nat]
              /\ pc' \in [Process -> {"idle", "listing", "listed", "sent"}]
            BY <1>1, <1>2 DEF Submit, RemoteTypeOK
        <3>3. UNCHANGED <<commentVars, submitVars, answer>>
            BY <1>2 DEF Submit
        <3> QED
            BY <3>1, <3>2, <3>3 DEF RemoteTypeOK, commentVars, submitVars
<1>3. CASE SubmitReturns(c)
    <2>1. NoAnswer \in [status : {"none", "ok", "error"}]
        BY DEF NoAnswer
    <2>2. current[c] \in DOMAIN Event
        BY <1>3 DEF SubmitReturns, KeysAreOfCalls
    <2>3. /\ raised' \in [Caller -> [DOMAIN Event -> Nat]]
          /\ current' \in [Caller -> Nat \ {0}]
          /\ returned' \subseteq Caller \X DOMAIN Event
        <3>1. CASE answer[c].status = "ok"
            <4>1. <<c, current[c]>> \in Caller \X DOMAIN Event
                BY <2>2
            <4>2. current[c] + 1 \in Nat \ {0}
                BY DEF RemoteTypeOK
            <4>3. /\ returned' = returned \cup {<<c, current[c]>>}
                  /\ current' = [current EXCEPT ![c] = current[c] + 1]
                  /\ raised' = raised
                BY <1>3, <3>1 DEF SubmitReturns
            <4> QED
                BY <4>1, <4>2, <4>3 DEF RemoteTypeOK
        <3>2. CASE answer[c].status # "ok"
            BY <1>3, <3>2, TypeOfRaise DEF SubmitReturns, RemoteTypeOK
        <3> QED
            BY <3>1, <3>2
    <2> QED
        BY <1>1, <1>3, <2>1, <2>3 DEF SubmitReturns, RemoteTypeOK, commentVars
<1> QED
    BY <1>2, <1>3

LEMMA TypeKeptByTimeout ==
    ASSUME RemoteTypeOK, NEW p \in Process, TimesOut(p)
    PROVE  RemoteTypeOK'
<1>1. NoAnswer \in [status : {"none", "ok", "error"}]
    BY DEF NoAnswer
<1>2. /\ raised' \in [Caller -> [DOMAIN Event -> Nat]]
      /\ current' \in [Caller -> Nat \ {0}]
    BY TypeOfRaise DEF TimesOut, RemoteTypeOK
<1> QED
    BY <1>1, <1>2 DEF TimesOut, RemoteTypeOK, commentVars

-----------------------------------------------------------------------------
(* Answers are awaited.                                                    *)

LEMMA RequestsHaveSenders ==
    ASSUME RemoteTypeOK
    PROVE  \A r \in net : r.from \in Process /\ r.attempt \in Nat
BY DEF RemoteTypeOK, Process, CommentRequest, SubmitRequest

LEMMA AwaitedKept ==
    ASSUME RemoteTypeOK, AnswersAreAwaited, KeysAreOfCalls, RemoteTypeOK', RemoteNext
    PROVE  AnswersAreAwaited'
<1>1. /\ attempts \in Nat /\ attempt \in [Process -> Nat]
      /\ pc \in [Process -> {"idle", "listing", "listed", "sent"}]
      /\ answer \in [Process -> [status : {"none", "ok", "error"}]]
      /\ \A r \in net : r.from \in Process /\ r.attempt \in Nat
      /\ Job \subseteq Process /\ Caller \subseteq Process /\ Job \cap Caller = {}
    BY RequestsHaveSenders, RemoteAssumption DEF RemoteTypeOK, Process
<1>2. ASSUME NEW j \in Job, StartPost(j) PROVE AnswersAreAwaited'
    BY <1>1, <1>2 DEF StartPost, AnswersAreAwaited
<1>3. ASSUME NEW j \in Job, List(j) PROVE AnswersAreAwaited'
    BY <1>1, <1>3 DEF List, AnswersAreAwaited
<1>4. ASSUME NEW j \in Job, SendReport(j) PROVE AnswersAreAwaited'
    <2>1. \A r \in net' : r \in net \/ (r.from = j /\ r.attempt = attempt[j])
        BY <1>4 DEF SendReport, Report
    <2> QED
        BY <1>1, <1>4, <2>1 DEF SendReport, AnswersAreAwaited
<1>5. ASSUME NEW j \in Job, PostReturns(j) PROVE AnswersAreAwaited'
    BY <1>1, <1>5 DEF PostReturns, AnswersAreAwaited
<1>6. ASSUME NEW c \in Caller, Submit(c) PROVE AnswersAreAwaited'
    <2>1. \A r \in net' : r \in net \/ (r.from = c /\ r.attempt = attempts + 1)
        BY <1>6 DEF Submit
    <2> QED
        BY <1>1, <1>6, <2>1 DEF Submit, AnswersAreAwaited
<1>7. ASSUME NEW c \in Caller, SubmitReturns(c) PROVE AnswersAreAwaited'
    BY <1>1, <1>7 DEF SubmitReturns, AnswersAreAwaited
<1>8. ASSUME NEW p \in Process, TimesOut(p) PROVE AnswersAreAwaited'
    BY <1>1, <1>8 DEF TimesOut, AnswersAreAwaited
<1>9. ASSUME NEW r \in net, ExecuteComment(r) \/ ExecuteSubmit(r) PROVE AnswersAreAwaited'
    <2>1. \A p \in Process : answer'[p] = answer[p] \/ pc[p] = "sent"
        BY <1>9, AnswerGiven DEF ExecuteComment, ExecuteSubmit
    <2>2. net' \subseteq net /\ UNCHANGED <<pc, attempts, attempt>>
        BY <1>9 DEF ExecuteComment, ExecuteSubmit
    <2> QED
        BY <1>1, <2>1, <2>2 DEF AnswersAreAwaited
<1>10. ASSUME OtherComments \/ DeleteReport PROVE AnswersAreAwaited'
    BY <1>10 DEF OtherComments, DeleteReport, AnswersAreAwaited
<1> QED
    BY <1>2, <1>3, <1>4, <1>5, <1>6, <1>7, <1>8, <1>9, <1>10 DEF RemoteNext

-----------------------------------------------------------------------------
(* Keys are of single calls.                                               *)

\* The steps that send or record nothing of a caller's.
LEMMA KeysKeptByJob ==
    ASSUME RemoteTypeOK, KeysAreOfCalls, NEW j \in Job,
           StartPost(j) \/ List(j) \/ SendReport(j) \/ PostReturns(j)
    PROVE  /\ KeysAreOfCalls'
           /\ Submits' = Submits /\ UNCHANGED submitVars
           /\ \A c \in Caller : answer'[c] = answer[c] /\ attempt'[c] = attempt[c] /\ pc'[c] = pc[c]
<1>1. Submits' = Submits
    BY DEF StartPost, List, SendReport, PostReturns, Submits
<1>2. UNCHANGED submitVars
    BY DEF StartPost, List, SendReport, PostReturns
<1>3. \A c \in Caller : answer'[c] = answer[c] /\ attempt'[c] = attempt[c] /\ pc'[c] = pc[c]
    BY RemoteAssumption DEF StartPost, List, SendReport, PostReturns, RemoteTypeOK, Process
<1>4. attempts \in Nat /\ attempts' \in {attempts, attempts + 1}
    BY DEF StartPost, List, SendReport, PostReturns, RemoteTypeOK
<1>5. \A e \in recorded : e.key[2] \in Nat
    BY DEF RemoteTypeOK, RecordedEvent
<1> QED
    BY <1>1, <1>2, <1>3, <1>4, <1>5 DEF KeysAreOfCalls, submitVars

LEMMA KeysKeptBySubmit ==
    ASSUME RemoteTypeOK, AnswersAreAwaited, KeysAreOfCalls, NEW c \in Caller, Submit(c)
    PROVE  KeysAreOfCalls'
<1> DEFINE r == [op |-> "submit", from |-> c, attempt |-> attempts + 1,
                 target |-> <<c, attempts + 1>>, event |-> current[c]]
<1>1. /\ Submits' = Submits \cup {r} /\ UNCHANGED <<recorded, current>>
      /\ attempts \in Nat /\ attempts' = attempts + 1 /\ attempts + 1 \in Nat
      /\ current[c] \in DOMAIN Event
    BY RemoteAssumption DEF Submit, Key, Submits, submitVars, RemoteTypeOK
<1>2. /\ attempt'[c] = attempts + 1
      /\ \A d \in Caller \ {c} : attempt'[d] = attempt[d] /\ pc'[d] = pc[d]
    BY DEF Submit, RemoteTypeOK, Process
<1>3. \A s \in Submits : s.target[2] <= attempts
    BY EachRequest DEF KeysAreOfCalls, AnswersAreAwaited, Submits
<1>4. \A e \in recorded : e.key[2] <= attempts /\ e.key[2] \in Nat
    BY DEF KeysAreOfCalls, RemoteTypeOK, RecordedEvent
<1>5. /\ \A s \in Submits : s.target # <<c, attempts + 1>> /\ s.target \in Caller \X Nat
      /\ \A e \in recorded : e.key # <<c, attempts + 1>>
    BY <1>1, <1>3, <1>4, EachRequest DEF SubmitRequest
<1>6. /\ r.target = <<c, attempts + 1>> /\ r.event = current[c] /\ r.from = c
      /\ r.attempt = attempts + 1
    OBVIOUS
<1>7. \A d \in Caller : attempt[d] <= attempts /\ attempt[d] \in Nat
    BY DEF AnswersAreAwaited, RemoteTypeOK, Process
<1> HIDE DEF r
<1>8. \A d \in Caller :
          pc'[d] = "sent" =>
              /\ current'[d] \in DOMAIN Event
              /\ \A s \in Submits' : s.target = <<d, attempt'[d]>> => s.event = current'[d]
              /\ \A e \in recorded' : e.key = <<d, attempt'[d]>> => e.event = current'[d]
    <2> SUFFICES ASSUME NEW d \in Caller, pc'[d] = "sent"
                 PROVE  /\ current[d] \in DOMAIN Event
                        /\ \A s \in Submits' : s.target = <<d, attempt'[d]>> => s.event = current[d]
                        /\ \A e \in recorded : e.key = <<d, attempt'[d]>> => e.event = current[d]
        BY <1>1
    <2>1. CASE d = c
        BY <1>1, <1>2, <1>5, <1>6, <2>1
    <2>2. CASE d # c
        <3>1. r.target # <<d, attempt'[d]>>
            BY <1>6, <2>2
        <3> QED
            BY <1>1, <1>2, <2>2, <3>1 DEF KeysAreOfCalls
    <2> QED
        BY <2>1, <2>2
<1>9. \A s \in Submits' :
          /\ s.target = <<s.from, s.attempt>>
          /\ \A t \in Submits' : t.target = s.target => t.event = s.event
          /\ \A e \in recorded' : e.key = s.target => e.event = s.event
    BY <1>1, <1>5, <1>6 DEF KeysAreOfCalls
<1>10. \A e \in recorded' : e.key[1] = e.from /\ e.key[2] <= attempts'
    BY <1>1, <1>4 DEF KeysAreOfCalls
<1> QED
    BY <1>1, <1>8, <1>9, <1>10 DEF KeysAreOfCalls

LEMMA KeysKeptByServers ==
    ASSUME RemoteTypeOK, AnswersAreAwaited, KeysAreOfCalls, NEW r \in net,
           ExecuteComment(r) \/ ExecuteSubmit(r)
    PROVE  KeysAreOfCalls'
<1>1. Submits' \subseteq Submits /\ UNCHANGED <<current, pc, attempt, attempts>>
    BY DEF ExecuteComment, ExecuteSubmit, Submits, submitVars
<1>2. CASE recorded' = recorded
    BY <1>1, <1>2 DEF KeysAreOfCalls
<1>3. CASE recorded' # recorded
    <2> DEFINE e == [key |-> r.target, from |-> r.from, event |-> r.event]
    <2>1. /\ r \in Submits /\ r \in SubmitRequest /\ recorded' = recorded \cup {e}
          /\ \A f \in recorded : f.key # r.target
        BY <1>3, EachRequest DEF ExecuteComment, ExecuteSubmit, Submits, submitVars
    <2>2. e.key = r.target /\ e.from = r.from /\ e.event = r.event
        OBVIOUS
    <2> HIDE DEF e
    <2>3. r.target[1] = r.from /\ r.target[2] <= attempts
        <3>1. r.target = <<r.from, r.attempt>> /\ r.attempt <= attempts
            BY <2>1 DEF KeysAreOfCalls, Submits, AnswersAreAwaited
        <3> QED
            BY <3>1
    <2>4. \A d \in Caller :
              pc[d] = "sent" => \A f \in recorded' : f.key = <<d, attempt[d]>> => f.event = current[d]
        BY <2>1, <2>2 DEF KeysAreOfCalls
    <2>5. \A s \in Submits : \A f \in recorded' : f.key = s.target => f.event = s.event
        BY <2>1, <2>2 DEF KeysAreOfCalls
    <2>6. \A f, g \in recorded' : f.key = g.key => f = g
        BY <2>1, <2>2 DEF KeysAreOfCalls
    <2>7. \A f \in recorded' : f.key[1] = f.from /\ f.key[2] <= attempts
        BY <2>1, <2>2, <2>3 DEF KeysAreOfCalls
    <2> QED
        BY <1>1, <2>4, <2>5, <2>6, <2>7 DEF KeysAreOfCalls
<1> QED
    BY <1>2, <1>3

LEMMA KeysKept ==
    ASSUME RemoteTypeOK, AnswersAreAwaited, KeysAreOfCalls, RemoteNext
    PROVE  KeysAreOfCalls'
<1>1. ASSUME NEW p \in Process, TimesOut(p) PROVE KeysAreOfCalls'
    <2>1. /\ Submits' = Submits /\ UNCHANGED <<recorded, attempts, attempt>>
          /\ pc' = [pc EXCEPT ![p] = "idle"]
        BY <1>1 DEF TimesOut, Submits
    <2>2. \A d \in Caller \ {p} : current'[d] = current[d]
        BY <1>1 DEF TimesOut, CallRaises, RemoteTypeOK
    <2>3. \A d \in Caller : pc'[d] = "sent" => d # p /\ pc[d] = "sent"
        BY <2>1 DEF RemoteTypeOK, Process
    <2> QED
        BY <2>1, <2>2, <2>3 DEF KeysAreOfCalls
<1>2. ASSUME NEW c \in Caller, SubmitReturns(c) PROVE KeysAreOfCalls'
    <2>1. /\ Submits' = Submits /\ UNCHANGED <<recorded, attempts, attempt>>
          /\ pc' = [pc EXCEPT ![c] = "idle"]
        BY <1>2 DEF SubmitReturns, Submits
    <2>2. \A d \in Caller \ {c} : current'[d] = current[d]
        BY <1>2 DEF SubmitReturns, CallRaises, RemoteTypeOK
    <2>3. \A d \in Caller : pc'[d] = "sent" => d # c /\ pc[d] = "sent"
        BY <2>1 DEF RemoteTypeOK, Process
    <2> QED
        BY <2>1, <2>2, <2>3 DEF KeysAreOfCalls
<1>3. ASSUME OtherComments \/ DeleteReport PROVE KeysAreOfCalls'
    BY <1>3 DEF OtherComments, DeleteReport, KeysAreOfCalls, Submits, submitVars
<1> QED
    BY <1>1, <1>2, <1>3, KeysKeptByJob, KeysKeptBySubmit, KeysKeptByServers DEF RemoteNext

-----------------------------------------------------------------------------
(* What callers are told is true.                                          *)

\* No step loses a recorded event.
LEMMA RecordsStay ==
    ASSUME RemoteNext
    PROVE  recorded \subseteq recorded'
<1>1. ASSUME NEW r \in net, ExecuteComment(r) \/ ExecuteSubmit(r) PROVE recorded \subseteq recorded'
    BY <1>1 DEF ExecuteComment, ExecuteSubmit, submitVars
<1> QED
    BY <1>1 DEF RemoteNext, StartPost, List, SendReport, PostReturns, Submit, SubmitReturns,
                TimesOut, OtherComments, DeleteReport, submitVars

LEMMA AnswersKeptTrue ==
    ASSUME RemoteTypeOK, AnswersAreAwaited, KeysAreOfCalls, AnswersAreTrue, RemoteNext
    PROVE  AnswersAreTrue'
<1>1. ASSUME NEW c \in Caller, answer'[c] = answer[c], attempt'[c] = attempt[c]
      PROVE  answer'[c].status = "ok" => \E e \in recorded' : e.key = <<c, attempt'[c]>>
    BY <1>1, RecordsStay DEF AnswersAreTrue
<1>2. NoAnswer.status # "ok"
    BY DEF NoAnswer
<1>3. \A c \in Caller : c \in Process
    BY DEF Process
<1>4. ASSUME NEW j \in Job, StartPost(j) \/ List(j) \/ SendReport(j) \/ PostReturns(j)
      PROVE  AnswersAreTrue'
    BY <1>1, <1>4, KeysKeptByJob DEF AnswersAreTrue
<1>5. ASSUME NEW c \in Caller, Submit(c) PROVE AnswersAreTrue'
    <2>1. answer'[c] = NoAnswer
        BY <1>3, <1>5 DEF Submit, AnswersAreAwaited
    <2>2. \A d \in Caller \ {c} : answer'[d] = answer[d] /\ attempt'[d] = attempt[d]
        BY <1>3, <1>5 DEF Submit, RemoteTypeOK
    <2> QED
        BY <1>1, <1>2, <2>1, <2>2 DEF AnswersAreTrue
<1>6. ASSUME NEW c \in Process, SubmitReturns(c) \/ TimesOut(c) PROVE AnswersAreTrue'
    <2>1. answer'[c] = NoAnswer /\ attempt' = attempt
        BY <1>6 DEF SubmitReturns, TimesOut, RemoteTypeOK
    <2>2. \A d \in Caller \ {c} : answer'[d] = answer[d]
        BY <1>3, <1>6 DEF SubmitReturns, TimesOut, RemoteTypeOK
    <2> QED
        BY <1>1, <1>2, <2>1, <2>2 DEF AnswersAreTrue
<1>7. ASSUME NEW r \in net, ExecuteComment(r) PROVE AnswersAreTrue'
    <2>1. r.from \in Job
        BY <1>7, EachRequest DEF ExecuteComment, Changes, CommentRequest
    <2>2. \A c \in Caller : answer'[c] = answer[c]
        BY <1>3, <1>7, <2>1, AnswerGiven, RemoteAssumption DEF ExecuteComment
    <2>3. attempt' = attempt
        BY <1>7 DEF ExecuteComment
    <2> QED
        BY <1>1, <2>2, <2>3 DEF AnswersAreTrue
<1>8. ASSUME NEW r \in net, ExecuteSubmit(r) PROVE AnswersAreTrue'
    <2>1. attempt' = attempt
        BY <1>8 DEF ExecuteSubmit
    <2>2. r.target = <<r.from, r.attempt>>
        BY <1>8 DEF ExecuteSubmit, KeysAreOfCalls, Submits
    <2>3. ASSUME NEW c \in Caller, answer'[c] # answer[c], answer'[c].status = "ok"
          PROVE  \E e \in recorded' : e.key = <<c, attempt'[c]>>
        <3>1. PICK status \in {"ok", "error"} :
                  Answered(r, status) /\ (status = "ok" => \E e \in recorded' : e.key = r.target)
            <4> DEFINE new == [key |-> r.target, from |-> r.from, event |-> r.event]
            <4>1. new.key = r.target
                OBVIOUS
            <4>2. \/ /\ recorded' = IF \E e \in recorded : e.key = r.target THEN recorded
                                     ELSE recorded \cup {new}
                     /\ \E status \in {"ok", "error"} : Answered(r, status)
                  \/ Answered(r, "error")
                BY <1>8 DEF ExecuteSubmit
            <4> HIDE DEF new
            <4>3. CASE Answered(r, "error")
                BY <4>3
            <4>4. CASE \E e \in recorded' : e.key = r.target
                BY <4>2, <4>4
            <4> QED
                BY <4>1, <4>2, <4>3, <4>4
        <3>2. c = r.from /\ attempt[c] = r.attempt /\ answer'[c] = [status |-> status]
            BY <1>3, <2>3, <3>1, AnswerGiven
        <3> QED
            BY <2>1, <2>2, <2>3, <3>1, <3>2
    <2> QED
        BY <1>1, <2>1, <2>3 DEF AnswersAreTrue
<1>9. ASSUME OtherComments \/ DeleteReport PROVE AnswersAreTrue'
    BY <1>1, <1>9 DEF OtherComments, DeleteReport, AnswersAreTrue
<1> QED
    BY <1>3, <1>4, <1>5, <1>6, <1>7, <1>8, <1>9 DEF RemoteNext

LEMMA ReturnedKeptRecorded ==
    ASSUME RemoteTypeOK, AnswersAreAwaited, KeysAreOfCalls, AnswersAreTrue,
           ReturnedMeansRecorded, RemoteNext
    PROVE  ReturnedMeansRecorded'
<1>1. CASE returned' = returned
    BY <1>1, RecordsStay DEF ReturnedMeansRecorded
<1>2. CASE returned' # returned
    <2>1. PICK c \in Caller : SubmitReturns(c)
        BY <1>2 DEF RemoteNext, StartPost, List, SendReport, PostReturns, Submit,
                    ExecuteComment, ExecuteSubmit, TimesOut, OtherComments, DeleteReport,
                    submitVars
    <2>2. /\ answer[c].status = "ok" /\ pc[c] = "sent"
          /\ returned' = returned \cup {<<c, current[c]>>}
        BY <1>2, <2>1 DEF SubmitReturns
    <2>3. PICK e \in recorded : e.key = <<c, attempt[c]>>
        BY <2>2 DEF AnswersAreTrue
    <2>4. e.from = c /\ e.event = current[c]
        BY <2>2, <2>3 DEF KeysAreOfCalls
    <2> QED
        BY <2>2, <2>4, RecordsStay DEF ReturnedMeansRecorded
<1> QED
    BY <1>1, <1>2

-----------------------------------------------------------------------------
(* Copies are counted.                                                     *)

\* The keys of a caller's event are a finite set, and every record has its own.
LEMMA KeysAreFinite ==
    ASSUME RemoteTypeOK, NEW c, NEW i
    PROVE  IsFiniteSet(KeysOf(c, i))
<1> DEFINE asked == {r \in Submits : r.from = c /\ r.event = i}
           copies == {e \in recorded : e.from = c /\ e.event = i}
           targets == {r.target : r \in asked}
           keys == {e.key : e \in copies}
<1>1. IsFiniteSet(asked) /\ IsFiniteSet(copies)
    BY FS_Subset DEF Submits, RemoteTypeOK
<1>2. [r \in asked |-> r.target] \in Surjection(asked, targets)
    BY DEF Surjection
<1>3. [e \in copies |-> e.key] \in Surjection(copies, keys)
    BY DEF Surjection
<1>4. IsFiniteSet(targets) /\ IsFiniteSet(keys)
    <2> HIDE DEF asked, copies, targets, keys
    <2> QED
        BY <1>1, <1>2, <1>3, FS_Surjection
<1>5. KeysOf(c, i) = targets \cup keys
    BY DEF KeysOf
<1> HIDE DEF targets, keys
<1> QED
    BY <1>4, <1>5, FS_Union

LEMMA CopiesWithinKeys ==
    ASSUME RemoteTypeOK, KeysAreOfCalls, NEW c, NEW i
    PROVE  Cardinality({e \in recorded : e.from = c /\ e.event = i}) <= Cardinality(KeysOf(c, i))
<1> DEFINE copies == {e \in recorded : e.from = c /\ e.event = i}
           f == [e \in copies |-> e.key]
<1>1. f \in [copies -> KeysOf(c, i)]
    BY DEF KeysOf
<1>2. \A a, b \in copies : f[a] = f[b] => a = b
    BY DEF KeysAreOfCalls
<1>3. f \in Injection(copies, KeysOf(c, i))
    BY <1>1, <1>2 DEF Injection, IsInjective
<1>4. Cardinality(copies) <= Cardinality(KeysOf(c, i))
    <2> HIDE DEF f, copies
    <2> QED
        BY <1>3, KeysAreFinite, FS_Injection
<1> QED
    BY <1>4

\* Only a new call adds a key, and one.
LEMMA KeysGrowByCalls ==
    ASSUME RemoteTypeOK, RemoteNext, NEW c \in Caller, NEW i \in DOMAIN Event
    PROVE  \/ KeysOf(c, i)' \subseteq KeysOf(c, i)
           \/ Submit(c) /\ i = current[c] /\ \E key : KeysOf(c, i)' \subseteq KeysOf(c, i) \cup {key}
<1>1. ASSUME NEW d \in Caller, Submit(d)
      PROVE  \/ KeysOf(c, i)' \subseteq KeysOf(c, i)
             \/ d = c /\ i = current[c] /\ KeysOf(c, i)' \subseteq KeysOf(c, i) \cup {Key(d)}
    <2> DEFINE r == [op |-> "submit", from |-> d, attempt |-> attempts + 1,
                     target |-> Key(d), event |-> current[d]]
    <2>1. Submits' \subseteq Submits \cup {r} /\ recorded' = recorded
        BY <1>1 DEF Submit, Submits, submitVars
    <2>2. r.from = d /\ r.event = current[d] /\ r.target = Key(d)
        OBVIOUS
    <2> HIDE DEF r
    <2>3. CASE d = c /\ i = current[c]
        BY <2>1, <2>2, <2>3 DEF KeysOf
    <2>4. CASE ~(d = c /\ i = current[c])
        BY <2>1, <2>2, <2>4 DEF KeysOf
    <2> QED
        BY <2>3, <2>4
<1>2. ASSUME NEW r \in net, ExecuteComment(r) \/ ExecuteSubmit(r)
      PROVE  KeysOf(c, i)' \subseteq KeysOf(c, i)
    <2> DEFINE e == [key |-> r.target, from |-> r.from, event |-> r.event]
    <2>1. /\ Submits' \subseteq Submits
          /\ recorded' = recorded \/ (r \in Submits /\ recorded' = recorded \cup {e})
        BY <1>2 DEF ExecuteComment, ExecuteSubmit, Submits, submitVars
    <2>2. e.key = r.target /\ e.from = r.from /\ e.event = r.event
        OBVIOUS
    <2> HIDE DEF e
    <2> QED
        BY <2>1, <2>2 DEF KeysOf
<1>3. ASSUME NEW j \in Job, StartPost(j) \/ List(j) \/ SendReport(j) \/ PostReturns(j)
      PROVE  KeysOf(c, i)' \subseteq KeysOf(c, i)
    <2>1. Submits' = Submits /\ recorded' = recorded
        BY <1>3 DEF StartPost, List, SendReport, PostReturns, Submits, submitVars
    <2> QED
        BY <2>1 DEF KeysOf
<1>4. ASSUME UNCHANGED <<net, recorded>> PROVE KeysOf(c, i)' \subseteq KeysOf(c, i)
    BY <1>4 DEF KeysOf, Submits
<1>5. ASSUME NEW p, SubmitReturns(p) \/ TimesOut(p) PROVE UNCHANGED <<net, recorded>>
    BY <1>5 DEF SubmitReturns, TimesOut
<1>6. ASSUME OtherComments \/ DeleteReport PROVE UNCHANGED <<net, recorded>>
    BY <1>6 DEF OtherComments, DeleteReport, submitVars
<1> QED
    BY <1>1, <1>2, <1>3, <1>4, <1>5, <1>6 DEF RemoteNext

\* The calls of c for event i that are accounted for.
Calls(c, i) == raised[c][i] + (IF pc[c] # "idle" /\ current[c] = i THEN 1 ELSE 0)
                            + (IF <<c, i>> \in returned THEN 1 ELSE 0)

\* The end of a call: it raised, or it returned for the first time.
LEMMA EndedCallsCount ==
    ASSUME RemoteTypeOK, AnswersAreAwaited, KeysAreOfCalls, KeysAreCounted, NEW c \in Caller,
           SubmitReturns(c) \/ TimesOut(c), NEW i \in DOMAIN Event
    PROVE  /\ \A d \in Caller : Calls(d, i)' >= Calls(d, i)
           /\ \A d \in Caller : <<d, i>> \in returned' => i < current'[d]
<1>1. /\ c \in Process /\ \A d \in Caller : d \in Process
      /\ raised \in [Caller -> [DOMAIN Event -> Nat]]
      /\ \A d \in Caller : raised[d][i] \in Nat /\ current[d] \in Nat
      /\ i \in Nat
    BY RemoteAssumption DEF Process, RemoteTypeOK
<1>2. /\ pc[c] = "sent" /\ current[c] \in DOMAIN Event
      /\ pc'[c] = "idle" /\ \A d \in Caller \ {c} : pc'[d] = pc[d]
    BY <1>1 DEF SubmitReturns, TimesOut, AnswersAreAwaited, KeysAreOfCalls, RemoteTypeOK
<1>3. CASE CallRaises(c) /\ UNCHANGED returned
    <2>1. /\ raised'[c][current[c]] = raised[c][current[c]] + 1
          /\ i # current[c] => raised'[c][i] = raised[c][i]
          /\ \A d \in Caller \ {c} : raised'[d] = raised[d]
        BY <1>1, <1>2, <1>3 DEF CallRaises
    <2>2. /\ current'[c] \in {current[c], current[c] + 1}
          /\ \A d \in Caller \ {c} : current'[d] = current[d]
        BY <1>3 DEF CallRaises, RemoteTypeOK
    <2>3. Calls(c, i)' >= Calls(c, i)
        <3>1. CASE i = current[c]
            BY <1>1, <1>2, <1>3, <2>1, <3>1 DEF Calls
        <3>2. CASE i # current[c]
            BY <1>1, <1>2, <1>3, <2>1, <3>2 DEF Calls
        <3> QED
            BY <3>1, <3>2
    <2>4. \A d \in Caller \ {c} : Calls(d, i)' >= Calls(d, i)
        BY <1>1, <1>2, <1>3, <2>1, <2>2 DEF Calls
    <2>5. \A d \in Caller : <<d, i>> \in returned' => i < current'[d]
        BY <1>1, <1>3, <2>2 DEF KeysAreCounted
    <2> QED
        BY <2>3, <2>4, <2>5
<1>4. CASE ~(CallRaises(c) /\ UNCHANGED returned)
    <2>1. /\ returned' = returned \cup {<<c, current[c]>>}
          /\ current' = [current EXCEPT ![c] = @ + 1]
          /\ UNCHANGED raised
        BY <1>4 DEF SubmitReturns, TimesOut
    <2>2. <<c, current[c]>> \notin returned
        BY <1>1, <1>2 DEF KeysAreCounted
    <2>3. /\ current'[c] = current[c] + 1
          /\ \A d \in Caller \ {c} : current'[d] = current[d]
        BY <2>1 DEF RemoteTypeOK
    <2>4. Calls(c, i)' >= Calls(c, i)
        <3>1. CASE i = current[c]
            BY <1>1, <1>2, <2>1, <2>2, <2>3, <3>1 DEF Calls
        <3>2. CASE i # current[c]
            BY <1>1, <1>2, <2>1, <2>3, <3>2 DEF Calls
        <3> QED
            BY <3>1, <3>2
    <2>5. \A d \in Caller \ {c} : Calls(d, i)' >= Calls(d, i)
        BY <1>1, <1>2, <2>1, <2>3 DEF Calls
    <2>6. \A d \in Caller : <<d, i>> \in returned' => i < current'[d]
        BY <1>1, <2>1, <2>3 DEF KeysAreCounted
    <2> QED
        BY <2>4, <2>5, <2>6
<1> QED
    BY <1>3, <1>4

LEMMA CountKept ==
    ASSUME RemoteTypeOK, AnswersAreAwaited, KeysAreOfCalls, KeysAreCounted, RemoteNext,
           RemoteTypeOK'
    PROVE  KeysAreCounted'
<1> SUFFICES ASSUME NEW c \in Caller, NEW i \in DOMAIN Event
             PROVE  /\ <<c, i>> \in returned' => i < current'[c]
                    /\ Cardinality(KeysOf(c, i)') <= Calls(c, i)'
    BY DEF KeysAreCounted, Calls
<1>1. /\ c \in Process /\ raised[c][i] \in Nat /\ Calls(c, i) \in Nat
      /\ Cardinality(KeysOf(c, i)) <= Calls(c, i)
      /\ IsFiniteSet(KeysOf(c, i)) /\ Cardinality(KeysOf(c, i)) \in Nat
    <2>1. c \in Process /\ raised[c][i] \in Nat /\ Calls(c, i) \in Nat
        BY DEF Process, RemoteTypeOK, Calls
    <2>2. Cardinality(KeysOf(c, i)) <= Calls(c, i)
        BY DEF KeysAreCounted, Calls
    <2>3. IsFiniteSet(KeysOf(c, i)) /\ Cardinality(KeysOf(c, i)) \in Nat
        BY KeysAreFinite, FS_CardinalityType
    <2> QED
        BY <2>1, <2>2, <2>3
<1>2. CASE Submit(c) /\ i = current[c] /\ \E key : KeysOf(c, i)' \subseteq KeysOf(c, i) \cup {key}
    <2>1. PICK key : KeysOf(c, i)' \subseteq KeysOf(c, i) \cup {key}
        BY <1>2
    <2>2. /\ IsFiniteSet(KeysOf(c, i) \cup {key})
          /\ Cardinality(KeysOf(c, i) \cup {key}) <= Cardinality(KeysOf(c, i)) + 1
        <3> DEFINE K == KeysOf(c, i)
        <3>1. /\ IsFiniteSet(K \cup {key})
              /\ Cardinality(K \cup {key}) =
                    IF key \in K THEN Cardinality(K) ELSE Cardinality(K) + 1
            <4>1. IsFiniteSet(K)
                BY <1>1
            <4> HIDE DEF K
            <4> QED
                BY <4>1, FS_AddElement
        <3> QED
            BY <1>1, <3>1
    <2>3. IsFiniteSet(KeysOf(c, i)') /\ Cardinality(KeysOf(c, i)') <= Cardinality(KeysOf(c, i) \cup {key})
        BY <2>1, <2>2, FS_Subset
    <2>4. /\ Cardinality(KeysOf(c, i)') \in Nat
          /\ Cardinality(KeysOf(c, i) \cup {key}) \in Nat
        BY <2>2, <2>3, FS_CardinalityType
    <2>5. /\ pc[c] = "idle" /\ pc'[c] = "sent" /\ UNCHANGED <<raised, current, returned>>
        BY <1>1, <1>2 DEF Submit, submitVars, RemoteTypeOK
    <2>6. Calls(c, i)' = Calls(c, i) + 1
        BY <1>1, <1>2, <2>5 DEF Calls
    <2> QED
        BY <1>1, <2>2, <2>3, <2>4, <2>5, <2>6 DEF KeysAreCounted
<1>3. CASE KeysOf(c, i)' \subseteq KeysOf(c, i)
    <2>1. /\ Cardinality(KeysOf(c, i)') <= Cardinality(KeysOf(c, i))
          /\ Cardinality(KeysOf(c, i)') \in Nat
        BY <1>1, <1>3, FS_Subset, FS_CardinalityType
    <2>2. /\ <<c, i>> \in returned' => i < current'[c]
          /\ Calls(c, i)' \in Nat /\ Calls(c, i)' >= Calls(c, i)
        <3>1. ASSUME UNCHANGED submitVars, pc'[c] = pc[c]
              PROVE  /\ <<c, i>> \in returned' => i < current'[c]
                     /\ Calls(c, i)' = Calls(c, i)
            BY <3>1 DEF Calls, KeysAreCounted, submitVars
        <3>2. ASSUME NEW j \in Job, StartPost(j) \/ List(j) \/ SendReport(j) \/ PostReturns(j)
              PROVE  UNCHANGED submitVars /\ pc'[c] = pc[c]
            BY <3>2, KeysKeptByJob
        <3>3. ASSUME NEW d \in Caller, Submit(d)
              PROVE  /\ <<c, i>> \in returned' => i < current'[c]
                     /\ Calls(c, i)' >= Calls(c, i) /\ Calls(c, i)' \in Nat
            <4>1. UNCHANGED submitVars /\ pc'[d] = "sent"
                BY <3>3 DEF Submit, RemoteTypeOK, Process
            <4>2. d # c => pc'[c] = pc[c]
                BY <1>1, <3>3 DEF Submit, RemoteTypeOK
            <4>3. <<c, i>> \in returned' => i < current'[c]
                BY <4>1 DEF KeysAreCounted, submitVars
            <4>4. Calls(c, i)' >= Calls(c, i) /\ Calls(c, i)' \in Nat
                BY <1>1, <4>1, <4>2 DEF Calls, submitVars
            <4> QED
                BY <4>3, <4>4
        <3>4. ASSUME NEW r \in net, ExecuteComment(r) \/ ExecuteSubmit(r)
              PROVE  UNCHANGED <<current, returned, raised, pc>>
            BY <3>4 DEF ExecuteComment, ExecuteSubmit, submitVars
        <3>5. ASSUME OtherComments \/ DeleteReport
              PROVE  UNCHANGED submitVars /\ UNCHANGED pc
            BY <3>5 DEF OtherComments, DeleteReport
        <3>6. ASSUME UNCHANGED <<current, returned, raised, pc>>
              PROVE  /\ <<c, i>> \in returned' => i < current'[c]
                     /\ Calls(c, i)' = Calls(c, i)
            BY <3>6 DEF Calls, KeysAreCounted
        <3>7. ASSUME NEW d \in Caller, SubmitReturns(d) \/ TimesOut(d)
              PROVE  /\ <<c, i>> \in returned' => i < current'[c]
                     /\ Calls(c, i)' >= Calls(c, i)
            BY <3>7, EndedCallsCount
        <3>8. ASSUME NEW j \in Job, TimesOut(j) PROVE UNCHANGED submitVars /\ pc'[c] = pc[c]
            BY <1>1, <3>8, RemoteAssumption DEF TimesOut, submitVars, RemoteTypeOK
        <3>9. Calls(c, i)' \in Nat
            BY DEF Calls, RemoteTypeOK
        <3> QED
            BY <1>1, <3>1, <3>2, <3>3, <3>4, <3>5, <3>6, <3>7, <3>8, <3>9 DEF RemoteNext, Process
    <2> QED
        BY <1>1, <2>1, <2>2
<1> QED
    BY <1>2, <1>3, KeysGrowByCalls

-----------------------------------------------------------------------------
(* The changes of the comments.                                            *)

LEMMA Appended ==
    ASSUME RemoteTypeOK, NEW x \in Comment, comments' = Append(comments, x)
    PROVE  /\ \A i \in DOMAIN comments : i \in DOMAIN comments' /\ comments'[i] = comments[i]
           /\ \A i \in DOMAIN comments' : i \in DOMAIN comments \/ comments'[i] = x
           /\ ~x.marked => Marked' = Marked
           /\ x.marked => Marked' = Marked \cup {Len(comments) + 1}
                            /\ comments'[Len(comments) + 1] = x
<1>1. /\ \A i \in DOMAIN comments : i \in DOMAIN comments' /\ comments'[i] = comments[i]
      /\ DOMAIN comments' = DOMAIN comments \cup {Len(comments) + 1}
      /\ comments'[Len(comments) + 1] = x /\ Len(comments) + 1 \notin DOMAIN comments
    BY DEF RemoteTypeOK
<1> QED
    BY <1>1 DEF Marked

LEMMA Replaced ==
    ASSUME RemoteTypeOK, NEW i \in Marked, NEW b, comments' = [comments EXCEPT ![i].body = b]
    PROVE  /\ Marked' = Marked /\ comments'[i].body = b
           /\ \A k \in Marked \ {i} : comments'[k] = comments[k]
<1>1. i \in DOMAIN comments /\ comments[i] \in Comment
    BY EachComment DEF Marked
<1>2. /\ DOMAIN comments' = DOMAIN comments
      /\ comments'[i] = [comments[i] EXCEPT !.body = b]
      /\ \A k \in DOMAIN comments \ {i} : comments'[k] = comments[k]
    BY <1>1
<1>3. comments'[i].body = b /\ comments'[i].marked = comments[i].marked
    BY <1>1, <1>2 DEF Comment
<1> QED
    BY <1>1, <1>2, <1>3 DEF Marked

LEMMA Removed ==
    ASSUME RemoteTypeOK, NEW i \in Marked, comments' = RemoveAt(comments, i),
           \A k \in Marked : k = i
    PROVE  Marked' = {}
<1>1. comments \in Seq(Comment) /\ i \in 1..Len(comments)
    BY EachComment DEF Marked, RemoteTypeOK
<1> DEFINE before == SubSeq(comments, 1, i - 1)
           after == SubSeq(comments, i + 1, Len(comments))
<1>2. /\ before \in Seq(Comment) /\ after \in Seq(Comment)
      /\ Len(before) = i - 1 /\ Len(after) = Len(comments) - i
      /\ \A k \in 1..Len(before) : before[k] = comments[k]
      /\ \A k \in 1..Len(after) : after[k] = comments[i + k]
    BY <1>1
<1>3. comments' = before \o after
    BY DEF RemoveAt
<1> HIDE DEF before, after
<1>4. /\ DOMAIN comments' = 1..(Len(before) + Len(after))
      /\ \A k \in DOMAIN comments' :
            comments'[k] = IF k <= Len(before) THEN before[k] ELSE after[k - Len(before)]
    BY <1>2, <1>3
<1>5. ASSUME NEW k \in DOMAIN comments'
      PROVE  \E m \in DOMAIN comments \ {i} : comments'[k] = comments[m]
    <2>1. CASE k <= i - 1
        <3>1. comments'[k] = comments[k]
            BY <1>1, <1>2, <1>4, <2>1
        <3>2. k \in DOMAIN comments /\ k # i
            BY <1>1, <1>2, <1>4, <2>1
        <3> QED
            BY <3>1, <3>2
    <2>2. CASE ~(k <= i - 1)
        <3>1. k \in Nat /\ k >= i /\ k <= Len(comments) - 1
            BY <1>1, <1>2, <1>4, <2>2
        <3>2. comments'[k] = after[k - (i - 1)] /\ k - (i - 1) \in 1..Len(after)
            BY <1>1, <1>2, <1>4, <2>2, <3>1
        <3>3. after[k - (i - 1)] = comments[i + (k - (i - 1))]
            BY <1>2, <3>2
        <3>4. i + (k - (i - 1)) = k + 1
            BY <1>1, <3>1
        <3>5. comments'[k] = comments[k + 1]
            BY <3>2, <3>3, <3>4
        <3>6. k + 1 \in DOMAIN comments /\ k + 1 # i
            BY <1>1, <3>1
        <3> QED
            BY <3>5, <3>6
    <2> QED
        BY <2>1, <2>2
<1> QED
    BY <1>5 DEF Marked

-----------------------------------------------------------------------------
(* One change at a time.                                                   *)

CommentInvariant == OneChange /\ NewestIsPosted /\ PostsAreShown /\ LatestReportStays

\* A job that starts, or whose request goes out, or that is told.
LEMMA StartKeepsComments ==
    ASSUME RemoteTypeOK, AnswersAreAwaited, CommentInvariant, NEW j \in Job, StartPost(j)
    PROVE  CommentInvariant'
<1>1. /\ UNCHANGED <<comments, existing, newest, latest, deleted, missed, overtaken, net, answer>>
      /\ Changes' = Changes /\ Marked' = Marked
    BY DEF StartPost, commentVars, Changes, Marked
<1>2. \A k \in Job : pc'[k] \in {"listed", "sent"} => pc'[k] = pc[k] /\ k # j
    BY DEF StartPost, RemoteTypeOK, Process
<1>3. \A k \in Process \ {j} : pc'[k] = pc[k] /\ attempt'[k] = attempt[k]
    BY DEF StartPost, RemoteTypeOK, Process
<1>4. OneChange'
    BY <1>1, <1>2 DEF CommentInvariant, OneChange
<1>5. NewestIsPosted'
    BY <1>1, <1>2, <1>3 DEF CommentInvariant, NewestIsPosted, Report, Process
<1>6. PostsAreShown'
    <2>1. \A k \in Job : answer[k].status = "ok" => k # j
        BY DEF StartPost, AnswersAreAwaited, NoAnswer, Process
    <2> QED
        BY <1>1, <1>3, <2>1 DEF CommentInvariant, PostsAreShown, Report, Process
<1> QED
    BY <1>1, <1>4, <1>5, <1>6 DEF CommentInvariant, LatestReportStays

LEMMA ListKeepsComments ==
    ASSUME RemoteTypeOK, AnswersAreAwaited, CommentInvariant, NEW j \in Job, List(j)
    PROVE  CommentInvariant'
<1>1. /\ UNCHANGED <<comments, latest, deleted, net, answer, attempt>>
      /\ Changes' = Changes /\ Marked' = Marked
      /\ existing'[j] = FindExisting(j)
      /\ pc[j] = "listing" /\ pc'[j] = "listed" /\ \A k \in Process \ {j} : pc'[k] = pc[k]
    BY DEF List, Changes, Marked, RemoteTypeOK, Process
<1>2. /\ ~missed' => ~missed /\ ~ChangePending(j) /\ \A i \in Marked : ~(i > PageSize)
      /\ ~overtaken' => ~overtaken /\ ~(Report(j) < newest)
    BY DEF List
<1>3. ASSUME ~ChangePending(j)
      PROVE  Changes = {} /\ \A k \in Job \ {j} : pc[k] # "listed"
    BY <1>3 DEF ChangePending, Changes
<1>4. ASSUME \A i \in Marked : ~(i > PageSize), FindExisting(j) = NoComment
      PROVE  Marked = {}
    <2>1. \A i \in Marked : i <= PageSize
        BY <1>4, EachComment, RemoteAssumption DEF Marked
    <2> QED
        BY <1>4, <2>1, FirstMarked, CommentIsNotNone
<1>5. ASSUME ~missed'
      PROVE  Changes = {} /\ \A k \in Job \ {j} : pc'[k] # "listed"
    BY <1>1, <1>2, <1>3, <1>5 DEF Process
<1>6. OneChange'
    <2> SUFFICES ASSUME ~missed'
                 PROVE  /\ \A i, k \in Marked : i = k
                        /\ \A k, l \in Job : pc'[k] = "listed" /\ pc'[l] = "listed" => k = l
                        /\ \A k \in Job :
                              pc'[k] = "listed" => (existing'[k] = NoComment => Marked = {})
                        /\ Changes = {}
        BY <1>1 DEF OneChange
    <2>1. existing'[j] = NoComment => Marked = {}
        BY <1>1, <1>2, <1>4
    <2> QED
        BY <1>2, <1>5, <2>1 DEF CommentInvariant, OneChange
<1>7. NewestIsPosted'
    <2> SUFFICES ASSUME ~missed', ~overtaken'
                 PROVE  /\ \A k \in Job : pc'[k] = "listed" => attempt[k] = newest'
                        /\ Changes = {}
                        /\ \A i \in Marked : comments[i].body <= newest'
        BY <1>1, <1>5 DEF NewestIsPosted, Report
    <2>1. attempt[j] \in Nat /\ newest \in Nat
        BY DEF RemoteTypeOK, Process
    <2>2. newest' = Max({newest, attempt[j]}) /\ attempt[j] >= newest
        BY <1>2, <2>1 DEF List, Report
    <2>3. newest' = attempt[j] /\ newest' >= newest
        BY <2>1, <2>2, MaxOfGreater
    <2>4. \A i \in Marked : comments[i].body \in Nat
        BY EachComment DEF Marked
    <2>5. \A i \in Marked : comments[i].body <= newest
        BY <1>2 DEF CommentInvariant, NewestIsPosted
    <2>6. \A i \in Marked : comments[i].body <= newest'
        BY <2>1, <2>3, <2>4, <2>5
    <2> QED
        BY <1>5, <2>3, <2>6
<1>8. PostsAreShown'
    BY <1>1, <1>2 DEF CommentInvariant, PostsAreShown, Report
<1>9. LatestReportStays'
    BY <1>1, <1>2 DEF CommentInvariant, LatestReportStays
<1> QED
    BY <1>6, <1>7, <1>8, <1>9 DEF CommentInvariant

LEMMA SendKeepsComments ==
    ASSUME RemoteTypeOK, AnswersAreAwaited, CommentInvariant, NEW j \in Job, SendReport(j)
    PROVE  CommentInvariant'
<1> DEFINE r == [op |-> IF existing[j] = NoComment THEN "create" ELSE "update",
                 from |-> j, attempt |-> Report(j), target |-> existing[j].id]
<1>1. /\ UNCHANGED <<comments, existing, newest, latest, deleted, missed, overtaken, answer, attempt>>
      /\ Changes' = Changes \cup {r} /\ Marked' = Marked
      /\ pc[j] = "listed" /\ pc'[j] = "sent" /\ \A k \in Process \ {j} : pc'[k] = pc[k]
    BY DEF SendReport, Changes, Marked, commentVars, RemoteTypeOK, Process
<1>2. r.attempt = Report(j) /\ (r.op = "create" <=> existing[j] = NoComment)
    OBVIOUS
<1> HIDE DEF r
<1>3. ASSUME ~missed
      PROVE  /\ Changes' = {r} /\ (r.op = "create" => Marked = {})
             /\ \A k \in Job : pc'[k] # "listed"
    BY <1>1, <1>2, <1>3 DEF CommentInvariant, OneChange, Process
<1>4. OneChange'
    BY <1>1, <1>3 DEF CommentInvariant, OneChange
<1>5. NewestIsPosted'
    BY <1>1, <1>2, <1>3 DEF CommentInvariant, NewestIsPosted, Report
<1>6. PostsAreShown' /\ LatestReportStays'
    BY <1>1 DEF CommentInvariant, PostsAreShown, LatestReportStays, Report
<1> QED
    BY <1>4, <1>5, <1>6 DEF CommentInvariant

LEMMA ReturnKeepsComments ==
    ASSUME RemoteTypeOK, AnswersAreAwaited, CommentInvariant, NEW p \in Process,
           (p \in Job /\ PostReturns(p)) \/ SubmitReturns(p) \/ TimesOut(p)
    PROVE  CommentInvariant'
<1>1. /\ UNCHANGED <<comments, existing, newest, deleted, missed, overtaken, net, attempt>>
      /\ Changes' = Changes /\ Marked' = Marked
      /\ pc'[p] = "idle" /\ \A k \in Process \ {p} : pc'[k] = pc[k] /\ answer'[k] = answer[k]
      /\ answer'[p].status # "ok"
    BY DEF PostReturns, SubmitReturns, TimesOut, commentVars, RemoteTypeOK, Changes, Marked,
           NoAnswer
<1>2. OneChange' /\ NewestIsPosted'
    BY <1>1 DEF CommentInvariant, OneChange, NewestIsPosted, Report, Process
<1>3. PostsAreShown'
    BY <1>1 DEF CommentInvariant, PostsAreShown, Report, Process
<1>4. LatestReportStays'
    <2>1. latest' = latest \/ (p \in Job /\ answer[p].status = "ok" /\ latest' = Report(p))
        BY DEF PostReturns, SubmitReturns, TimesOut, commentVars
    <2> QED
        BY <1>1, <2>1 DEF CommentInvariant, LatestReportStays, PostsAreShown
<1> QED
    BY <1>2, <1>3, <1>4 DEF CommentInvariant

\* A caller's request, sent or executed, is no change of the comments.
LEMMA SubmitKeepsComments ==
    ASSUME RemoteTypeOK, AnswersAreAwaited, CommentInvariant, RemoteTypeOK',
           (\E c \in Caller : Submit(c)) \/ (\E r \in net : ExecuteSubmit(r))
    PROVE  CommentInvariant'
<1>1. /\ UNCHANGED <<comments, existing, newest, latest, deleted, missed, overtaken>>
      /\ Changes' = Changes /\ Marked' = Marked
    BY DEF Submit, ExecuteSubmit, commentVars, Changes, Marked
<1>2. \A j \in Job : pc'[j] = pc[j] /\ attempt'[j] = attempt[j]
    <2>1. ASSUME NEW c \in Caller, Submit(c), NEW j \in Job
          PROVE  pc'[j] = pc[j] /\ attempt'[j] = attempt[j]
        <3>1. j # c /\ j \in Process
            BY RemoteAssumption DEF Process
        <3> QED
            BY <2>1, <3>1 DEF Submit, RemoteTypeOK
    <2> QED
        BY <2>1 DEF ExecuteSubmit
<1>3. \A j \in Job : answer'[j] = answer[j]
    <2>1. ASSUME NEW c \in Caller, Submit(c), NEW j \in Job PROVE answer'[j] = answer[j]
        BY <2>1 DEF Submit
    <2>2. ASSUME NEW r \in net, ExecuteSubmit(r), NEW j \in Job PROVE answer'[j] = answer[j]
        <3>1. r.from \in Caller
            BY <2>2, EachRequest DEF ExecuteSubmit, Submits, SubmitRequest
        <3> QED
            BY <2>2, <3>1, AnswerGiven, RemoteAssumption DEF ExecuteSubmit, Process
    <2> QED
        BY <2>1, <2>2
<1> QED
    BY <1>1, <1>2, <1>3
    DEF CommentInvariant, OneChange, NewestIsPosted, PostsAreShown, LatestReportStays, Report

\* The execution of a change.
LEMMA ChangeKeepsComments ==
    ASSUME RemoteTypeOK, AnswersAreAwaited, CommentInvariant, NEW r \in net, ExecuteComment(r)
    PROVE  CommentInvariant'
<1> DEFINE new == [id |-> created + 1, marked |-> TRUE, body |-> r.attempt]
<1>1. /\ UNCHANGED <<existing, newest, latest, deleted, missed, overtaken, pc, attempt>>
      /\ r \in Changes /\ r \in CommentRequest
      /\ Changes' = Changes \ {r}
    BY EachRequest DEF ExecuteComment, Changes
<1>2. new \in Comment /\ new.marked = TRUE /\ new.body = r.attempt
    BY <1>1 DEF Comment, CommentRequest, RemoteTypeOK
<1>3. /\ r.attempt \in Nat /\ newest \in Nat /\ latest \in Nat /\ deleted \in Nat
      /\ \A j \in Job : Report(j) \in Nat
      /\ \A i \in Marked : comments[i].body \in Nat
    BY <1>1, EachComment DEF CommentRequest, RemoteTypeOK, Marked, Report, Process
\* What the comments are after the request: a created one, a newer text, or what they were.
<1>4. PICK status \in {"ok", "error"} :
          /\ Answered(r, status)
          /\ \/ comments' = Append(comments, new) /\ r.op = "create"
             \/ \E i \in Marked : comments' = [comments EXCEPT ![i].body = r.attempt]
             \/ status = "error" /\ UNCHANGED comments
    BY DEF ExecuteComment
<1> HIDE DEF new
\* There still is one report, and one that was written is shown.
<1>5. ASSUME ~missed
      PROVE  /\ \A i, k \in Marked' : i = k
             /\ \A i \in Marked' :
                   comments'[i].body = r.attempt \/ (i \in Marked /\ comments'[i] = comments[i])
             /\ \/ \E i \in Marked' : comments'[i].body = r.attempt
                \/ status = "error" /\ UNCHANGED comments
    <2>1. (r.op = "create" => Marked = {}) /\ \A i, k \in Marked : i = k
        BY <1>1, <1>5 DEF CommentInvariant, OneChange
    <2>2. CASE comments' = Append(comments, new) /\ r.op = "create"
        <3>1. Marked' = {Len(comments) + 1} /\ comments'[Len(comments) + 1] = new
            BY <1>2, <2>1, <2>2, Appended
        <3> QED
            BY <1>2, <3>1
    <2>3. ASSUME NEW i \in Marked, comments' = [comments EXCEPT ![i].body = r.attempt]
          PROVE  /\ Marked' = Marked /\ comments'[i].body = r.attempt
                 /\ \A k \in Marked : k = i
        BY <2>1, <2>3, Replaced
    <2>4. CASE status = "error" /\ UNCHANGED comments
        BY <2>1, <2>4 DEF Marked
    <2>5. CASE \E i \in Marked : comments' = [comments EXCEPT ![i].body = r.attempt]
        <3>1. PICK i \in Marked : comments' = [comments EXCEPT ![i].body = r.attempt]
            BY <2>5
        <3>2. Marked' = Marked /\ comments'[i].body = r.attempt /\ \A k \in Marked : k = i
            BY <2>3, <3>1
        <3> QED
            BY <2>1, <3>2
    <2> QED
        BY <1>4, <2>2, <2>4, <2>5
\* A report that was shown still is, or a newer one, as the request has the newest.
<1>6. ASSUME ~missed, ~overtaken
      PROVE  /\ r.attempt = newest
             /\ \A i \in Marked' : comments'[i].body <= newest
             /\ \A n \in Nat : (\E i \in Marked : comments[i].body >= n)
                                  => \E i \in Marked' : comments'[i].body >= n
    <2>1. r.attempt = newest /\ \A i \in Marked : comments[i].body <= newest
        BY <1>1, <1>6 DEF CommentInvariant, NewestIsPosted
    <2>2. \A i \in Marked' : comments'[i].body <= newest
        BY <1>3, <1>5, <1>6, <2>1
    <2>3. CASE \E i \in Marked' : comments'[i].body = r.attempt
        BY <1>3, <2>1, <2>2, <2>3
    <2>4. CASE UNCHANGED comments
        BY <2>1, <2>2, <2>4 DEF Marked
    <2> QED
        BY <1>5, <1>6, <2>1, <2>2, <2>3, <2>4
<1>7. OneChange'
    BY <1>1, <1>5 DEF CommentInvariant, OneChange
<1>8. NewestIsPosted'
    BY <1>1, <1>6 DEF CommentInvariant, NewestIsPosted, Report
<1>9. PostsAreShown'
    <2> SUFFICES ASSUME ~missed, ~overtaken, NEW j \in Job, answer'[j].status = "ok",
                        Report(j) > deleted
                 PROVE  \E i \in Marked' : comments'[i].body >= Report(j)
        BY <1>1 DEF PostsAreShown, Report
    <2>1. CASE answer'[j] = answer[j]
        BY <1>3, <1>6, <2>1 DEF CommentInvariant, PostsAreShown
    <2>2. CASE answer'[j] # answer[j]
        <3>1. /\ j = r.from /\ attempt[j] = r.attempt
              /\ answer'[j] = [status |-> status]
            BY <1>4, <2>2, AnswerGiven DEF Process
        <3>2. status = "ok" /\ Report(j) = r.attempt
            BY <3>1 DEF Report
        <3> QED
            BY <1>3, <1>5, <3>2
    <2> QED
        BY <2>1, <2>2
<1>10. LatestReportStays'
    BY <1>1, <1>3, <1>6 DEF CommentInvariant, LatestReportStays
<1> QED
    BY <1>7, <1>8, <1>9, <1>10 DEF CommentInvariant

LEMMA OthersKeepComments ==
    ASSUME RemoteTypeOK, CommentInvariant, OtherComments
    PROVE  CommentInvariant'
<1>1. PICK quotes \in BOOLEAN :
          /\ comments' = Append(comments, [id |-> created + 1, marked |-> quotes, body |-> NoReport])
          /\ missed' = (missed \/ quotes)
    BY DEF OtherComments
<1> DEFINE other == [id |-> created + 1, marked |-> quotes, body |-> NoReport]
<1>2. /\ UNCHANGED <<existing, newest, latest, deleted, overtaken, net, answer, pc, attempt>>
      /\ Changes' = Changes
    BY DEF OtherComments, Changes
<1>3. other \in Comment /\ other.marked = quotes
    BY DEF Comment, NoReport, RemoteTypeOK
<1> HIDE DEF other
<1>4. ~missed' => ~missed /\ Marked' = Marked /\ \A i \in Marked : comments'[i] = comments[i]
    BY <1>1, <1>3, Appended DEF Marked, other
<1> QED
    BY <1>2, <1>4
    DEF CommentInvariant, OneChange, NewestIsPosted, PostsAreShown, LatestReportStays, Report

\* Whatever was shown is deleted, and no older report counts as posted any more.
LEMMA DeletionKeepsComments ==
    ASSUME RemoteTypeOK, CommentInvariant, DeleteReport
    PROVE  CommentInvariant'
<1>1. PICK i \in Marked : /\ comments' = RemoveAt(comments, i)
                          /\ deleted' = Max({deleted, comments[i].body})
    BY DEF DeleteReport
<1>2. /\ UNCHANGED <<existing, newest, latest, missed, overtaken, net, answer, pc, attempt>>
      /\ Changes' = Changes
    BY DEF DeleteReport, Changes
<1>3. /\ comments[i].body \in Nat /\ deleted \in Nat /\ latest \in Nat
      /\ \A j \in Job : Report(j) \in Nat
    BY EachComment DEF RemoteTypeOK, Marked, Report, Process
<1>4. deleted' \in Nat /\ deleted' >= deleted /\ deleted' >= comments[i].body
    BY <1>1, <1>3, MaxOfTwo
<1>5. ~missed => Marked' = {} /\ \A k \in Marked : k = i
    BY <1>1, Removed DEF CommentInvariant, OneChange
<1>6. OneChange' /\ NewestIsPosted'
    BY <1>2, <1>5 DEF CommentInvariant, OneChange, NewestIsPosted, Report
<1>7. ASSUME ~missed, NEW n \in Nat, n > deleted => \E k \in Marked : comments[k].body >= n
      PROVE  ~(n > deleted')
    BY <1>3, <1>4, <1>5, <1>7
<1>8. PostsAreShown'
    BY <1>2, <1>3, <1>7 DEF CommentInvariant, PostsAreShown, Report
<1>9. LatestReportStays'
    BY <1>2, <1>3, <1>7 DEF CommentInvariant, LatestReportStays
<1> QED
    BY <1>6, <1>8, <1>9 DEF CommentInvariant

-----------------------------------------------------------------------------
(* The theorems.                                                           *)

LEMMA InitiallyTrue == RemoteInit => RemoteInvariant
<1> SUFFICES ASSUME RemoteInit PROVE RemoteInvariant
    OBVIOUS
<1>1. RemoteTypeOK
    BY TypeInit
<1>2. /\ Marked = {} /\ Changes = {} /\ Submits = {} /\ recorded = {} /\ returned = {}
      /\ \A p \in Process : pc[p] = "idle" /\ answer[p] = NoAnswer /\ attempt[p] = 0
      /\ attempts = 0 /\ latest = 0 /\ deleted = 0 /\ NoAnswer.status = "none"
    BY DEF RemoteInit, Marked, Changes, Submits, NoReport, NoAnswer
<1>3. Job \subseteq Process /\ Caller \subseteq Process
    BY DEF Process
<1>4. AnswersAreAwaited
    BY <1>2, <1>3 DEF AnswersAreAwaited, RemoteInit
<1>5. KeysAreOfCalls /\ AnswersAreTrue /\ ReturnedMeansRecorded
    BY <1>2, <1>3 DEF KeysAreOfCalls, AnswersAreTrue, ReturnedMeansRecorded
<1>6. KeysAreCounted
    <2>1. ASSUME NEW c \in Caller, NEW i \in DOMAIN Event
          PROVE  /\ Cardinality(KeysOf(c, i)) = 0 /\ raised[c][i] = 0 /\ pc[c] = "idle"
                 /\ <<c, i>> \notin returned
        <3>1. KeysOf(c, i) = {}
            BY <1>2 DEF KeysOf
        <3> QED
            BY <1>2, <1>3, <3>1, FS_EmptySet DEF RemoteInit
    <2>2. ASSUME NEW c \in Caller, NEW i \in DOMAIN Event
          PROVE  /\ <<c, i>> \in returned => i < current[c]
                 /\ Cardinality(KeysOf(c, i)) <= Calls(c, i)
        <3>1. Calls(c, i) = 0
            BY <2>1 DEF Calls
        <3> QED
            BY <2>1, <3>1
    <2> QED
        BY <2>2 DEF KeysAreCounted, Calls
<1>7. OneChange /\ NewestIsPosted /\ PostsAreShown /\ LatestReportStays
    BY <1>2, <1>3 DEF OneChange, NewestIsPosted, PostsAreShown, LatestReportStays
<1> QED
    BY <1>1, <1>4, <1>5, <1>6, <1>7 DEF RemoteInvariant

LEMMA StutterKeeps ==
    ASSUME RemoteInvariant, UNCHANGED vars
    PROVE  RemoteInvariant'
<1>1. /\ UNCHANGED <<comments, created, existing, newest, latest, deleted, missed, overtaken>>
      /\ UNCHANGED <<recorded, current, returned, raised, net, answer, pc, attempts, attempt>>
    BY DEF vars, commentVars, submitVars
<1>2. Submits' = Submits /\ Changes' = Changes /\ Marked' = Marked
    BY <1>1 DEF Submits, Changes, Marked
<1>3. \A c, i : KeysOf(c, i)' = KeysOf(c, i)
    BY <1>1, <1>2 DEF KeysOf
<1>4. RemoteTypeOK' /\ AnswersAreAwaited'
    BY <1>1 DEF RemoteInvariant, RemoteTypeOK, AnswersAreAwaited
<1>5. KeysAreOfCalls' /\ AnswersAreTrue' /\ ReturnedMeansRecorded'
    BY <1>1, <1>2 DEF RemoteInvariant, KeysAreOfCalls, AnswersAreTrue, ReturnedMeansRecorded
<1>6. KeysAreCounted'
    BY <1>1, <1>3 DEF RemoteInvariant, KeysAreCounted
<1>7. OneChange' /\ NewestIsPosted' /\ PostsAreShown' /\ LatestReportStays'
    BY <1>1, <1>2
    DEF RemoteInvariant, OneChange, NewestIsPosted, PostsAreShown, LatestReportStays, Report
<1> QED
    BY <1>4, <1>5, <1>6, <1>7 DEF RemoteInvariant

\* The invariant of the clients and the servers holds of every execution:
\* whatever is lost, late or done twice, a key belongs to one call, an answer
\* to the call that waits for it, and one change of the comments at most is
\* under way until a listing missed something.
THEOREM RemoteInvariance == RemoteSpec => []RemoteInvariant
<1>1. RemoteInit => RemoteInvariant
    BY InitiallyTrue
<1>2. RemoteInvariant /\ [RemoteNext]_vars => RemoteInvariant'
    <2> SUFFICES ASSUME RemoteInvariant, [RemoteNext]_vars PROVE RemoteInvariant'
        OBVIOUS
    <2>1. CASE RemoteNext
        <3>1. RemoteTypeOK'
            <4>1. RemoteTypeOK /\ AnswersAreAwaited /\ KeysAreOfCalls
                BY DEF RemoteInvariant
            <4> QED
                BY <2>1, <4>1, TypeKeptByJob, TypeKeptByOthers, TypeKeptByServers, TypeKeptByCaller,
                   TypeKeptByTimeout DEF RemoteNext
        <3>2. AnswersAreAwaited' /\ KeysAreOfCalls'
            BY <2>1, <3>1, AwaitedKept, KeysKept DEF RemoteInvariant
        <3>3. AnswersAreTrue' /\ ReturnedMeansRecorded' /\ KeysAreCounted'
            BY <2>1, <3>1, AnswersKeptTrue, ReturnedKeptRecorded, CountKept DEF RemoteInvariant
        <3>4. CommentInvariant'
            <4>1. RemoteTypeOK /\ AnswersAreAwaited /\ CommentInvariant
                BY DEF RemoteInvariant, CommentInvariant
            <4>2. \A c \in Caller : c \in Process
                BY DEF Process
            <4>3. \A j \in Job : j \in Process
                BY DEF Process
            <4> QED
                BY <2>1, <3>1, <4>1, <4>2, <4>3, StartKeepsComments, ListKeepsComments,
                   SendKeepsComments, ReturnKeepsComments, SubmitKeepsComments,
                   ChangeKeepsComments, OthersKeepComments, DeletionKeepsComments DEF RemoteNext
        <3> QED
            BY <3>1, <3>2, <3>3, <3>4 DEF RemoteInvariant, CommentInvariant
    <2>2. CASE UNCHANGED vars
        BY <2>2, StutterKeeps
    <2> QED
        BY <2>1, <2>2
<1> QED
    BY <1>1, <1>2, PTL DEF RemoteSpec

\* There is one report at most on the pull request, for any number of jobs and
\* comments, until a listing hid a comment or raced with a change, or someone
\* else wrote the marker (GitHubPRCommentPoster.post).
THEOREM ReportIsSticky == RemoteSpec => []OneReportUnlessMissed
<1>1. RemoteInvariant => OneReportUnlessMissed
    <2> SUFFICES ASSUME RemoteInvariant, ~missed PROVE Cardinality(Marked) <= 1
        BY DEF OneReportUnlessMissed
    <2>1. \A i, k \in Marked : i = k
        BY DEF RemoteInvariant, OneChange
    <2>2. CASE Marked = {}
        BY <2>2, FS_EmptySet
    <2>3. CASE Marked # {}
        <3>1. PICK i : Marked = {i}
            BY <2>1, <2>3
        <3> QED
            BY <3>1, FS_Singleton
    <2> QED
        BY <2>2, <2>3
<1> QED
    BY <1>1, RemoteInvariance, PTL

\* Under the same condition, and until a job lists after one that read its
\* report later, the report posted last is shown, or a newer one.
THEOREM LatestIsShown == RemoteSpec => []LatestReportStays
<1>1. RemoteInvariant => LatestReportStays
    BY DEF RemoteInvariant
<1> QED
    BY <1>1, RemoteInvariance, PTL

\* What a caller was told is recorded is, whatever was lost, delayed or
\* delivered twice (SaaSControlPlaneClient._submit).
THEOREM ReturnsAreTrue == RemoteSpec => []ReturnedMeansRecorded
<1>1. RemoteInvariant => ReturnedMeansRecorded
    BY DEF RemoteInvariant
<1> QED
    BY <1>1, RemoteInvariance, PTL

\* Every copy of an event is a call of its own: the one that returned, the one
\* that waits, or one that raised.
THEOREM CopiesAreCalls == RemoteSpec => []CopiesAreRaisedCalls
<1>1. RemoteInvariant => CopiesAreRaisedCalls
    <2> SUFFICES ASSUME RemoteInvariant, NEW c \in Caller, NEW i \in DOMAIN Event
                 PROVE  Cardinality({e \in recorded : e.from = c /\ e.event = i}) <= Calls(c, i)
        BY DEF CopiesAreRaisedCalls, Calls
    <2> DEFINE copies == {e \in recorded : e.from = c /\ e.event = i}
    <2>1. RemoteTypeOK /\ KeysAreOfCalls /\ KeysAreCounted
        BY DEF RemoteInvariant
    <2>2. Cardinality(copies) <= Cardinality(KeysOf(c, i))
        BY <2>1, CopiesWithinKeys
    <2>3. Cardinality(KeysOf(c, i)) <= Calls(c, i)
        BY <2>1 DEF KeysAreCounted, Calls
    <2>4. IsFiniteSet(copies) /\ IsFiniteSet(KeysOf(c, i))
        BY <2>1, FS_Subset, KeysAreFinite DEF RemoteTypeOK
    <2>5. Cardinality(copies) \in Nat /\ Cardinality(KeysOf(c, i)) \in Nat /\ Calls(c, i) \in Nat
        <3>1. Calls(c, i) \in Nat
            BY <2>1 DEF RemoteTypeOK, Calls
        <3> HIDE DEF copies
        <3> QED
            BY <2>4, <3>1, FS_CardinalityType
    <2> QED
        BY <2>2, <2>3, <2>5
<1> QED
    BY <1>1, RemoteInvariance, PTL
=============================================================================
