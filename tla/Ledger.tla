------------------------------- MODULE Ledger -------------------------------
(***************************************************************************)
(* Processes appending to one ledger file (AppendOnlyEventLog.append of    *)
(* ecl_trainer/core/ledger.py).  An append reads the whole file for the    *)
(* hash of its last line, builds the event, and then opens the file again  *)
(* to write it: two steps, with no lock held between them or around them.  *)
(*                                                                         *)
(* The environment supplies what the code cannot prevent: a writer killed  *)
(* between the two steps, a write cut short (a full disk), and a power     *)
(* loss that drops the unsynced end of the file (write() flushes but never *)
(* fsyncs).  Faults says which of them happen.                             *)
(*                                                                         *)
(* An append that raises before it writes - the validator refuses the      *)
(* event, or a line of the file does not parse - changes nothing, so it is *)
(* a stuttering step.                                                      *)
(***************************************************************************)
EXTENDS LedgerFile, FiniteSets

CONSTANTS
    Writer,     \* the processes that append
    EventId,    \* bound: each writer appends at most Cardinality(EventId) events
    Exclusive,  \* TRUE when the callers take turns (the steps of one CI job)
    Faults      \* the failures that may happen

ASSUME LedgerAssumption ==
    /\ Exclusive \in BOOLEAN
    /\ Faults \subseteq {"kill", "torn_write", "power_loss"}

VARIABLES
    file,       \* the lines of the ledger
    terminated, \* FALSE when the file does not end with a newline
    phase,      \* phase[w]: "idle", or "linked" between prepare and the write
    seen,       \* seen[w]: the hash previous_hash returned to w
    pending,    \* pending[w]: the content w is appending
    used,       \* the contents appends have been called with (event_id is fresh)
    acked,      \* the events append has returned to its callers
    failures    \* which of Faults have happened

vars == <<file, terminated, phase, seen, pending, used, acked, failures>>

Body == Writer \X EventId

NoBody == <<"no event">>

Init ==
    /\ file = << >>
    /\ terminated = TRUE
    /\ phase = [w \in Writer |-> "idle"]
    /\ seen = [w \in Writer |-> NoHash]
    /\ pending = [w \in Writer |-> NoBody]
    /\ used = {}
    /\ acked = {}
    /\ failures = {}

-----------------------------------------------------------------------------
Idle(w) ==
    /\ phase' = [phase EXCEPT ![w] = "idle"]
    /\ seen' = [seen EXCEPT ![w] = NoHash]
    /\ pending' = [pending EXCEPT ![w] = NoBody]

\* prepare: every line is parsed, the last one's hash is kept.
Prepare(w, b) ==
    /\ phase[w] = "idle"
    /\ Exclusive => \A v \in Writer : phase[v] = "idle"
    /\ b[1] = w /\ b \notin used
    /\ Readable(file)
    /\ phase' = [phase EXCEPT ![w] = "linked"]
    /\ seen' = [seen EXCEPT ![w] = PreviousHash(file)]
    /\ pending' = [pending EXCEPT ![w] = b]
    /\ used' = used \cup {b}
    /\ UNCHANGED <<file, terminated, acked, failures>>

\* A plausible bug: the hash is taken before the link is filled in.
HashedBeforeLinked(w) ==
    [SealEvent(seen[w], pending[w]) EXCEPT !.hash = EventHash(NoHash, pending[w])]

\* The event w is about to write, linked to what it saw.
PreparedEvent(w) == SealEvent(seen[w], pending[w])

\* A plausible bug: the file is opened with mode "w".
WriteOver(w) ==
    /\ phase[w] = "linked"
    /\ file' = <<PreparedEvent(w)>>
    /\ terminated' = TRUE
    /\ acked' = acked \cup {PreparedEvent(w)}
    /\ Idle(w)
    /\ UNCHANGED <<used, failures>>

\* A plausible change: the write is refused when the tail has moved meanwhile.
WriteIfUnmoved(w) ==
    /\ phase[w] = "linked"
    /\ Readable(file) /\ seen[w] = PreviousHash(file)
    /\ file' = AppendLine(file, terminated, PreparedEvent(w))
    /\ terminated' = TRUE
    /\ acked' = acked \cup {PreparedEvent(w)}
    /\ Idle(w)
    /\ UNCHANGED <<used, failures>>

\* write: the line and its newline reach the file and append returns.
Write(w) ==
    /\ phase[w] = "linked"
    /\ file' = AppendLine(file, terminated, PreparedEvent(w))
    /\ terminated' = TRUE
    /\ acked' = acked \cup {PreparedEvent(w)}
    /\ Idle(w)
    /\ UNCHANGED <<used, failures>>

\* Only part of the bytes are written and the write raises: either the
\* record is cut, or only its newline is missing.
TornWrite(w) ==
    /\ "torn_write" \in Faults
    /\ phase[w] = "linked"
    /\ \E line \in {Malformed, PreparedEvent(w)} :
          file' = AppendLine(file, terminated, line)
    /\ terminated' = FALSE
    /\ Idle(w)
    /\ failures' = failures \cup {"torn_write"}
    /\ UNCHANGED <<used, acked>>

\* The process dies between prepare and the write, or cannot open the file.
Kill(w) ==
    /\ "kill" \in Faults
    /\ phase[w] = "linked"
    /\ Idle(w)
    /\ failures' = failures \cup {"kill"}
    /\ UNCHANGED <<file, terminated, used, acked>>

\* The machine stops: every process with it, and the end of the file that
\* had not reached the disk.  What is lost may end inside a record, or
\* between a record and its newline.
PowerLoss ==
    /\ "power_loss" \in Faults
    /\ \E n \in 0..Len(file) :
         \/ /\ file' = SubSeq(file, 1, n)
            /\ terminated' \in {FALSE, n < Len(file) \/ terminated}
         \/ /\ n < Len(file)
            /\ file' = Append(SubSeq(file, 1, n), Malformed)
            /\ terminated' = FALSE
    /\ phase' = [w \in Writer |-> "idle"]
    /\ seen' = [w \in Writer |-> NoHash]
    /\ pending' = [w \in Writer |-> NoBody]
    /\ failures' = failures \cup {"power_loss"}
    /\ UNCHANGED <<used, acked>>

Next ==
    \/ \E w \in Writer :
         \/ \E b \in Body : Prepare(w, b)
         \/ Write(w)
         \/ TornWrite(w)
         \/ Kill(w)
    \/ PowerLoss

Spec == Init /\ [][Next]_vars

\* A process that is still running reaches its write: nothing blocks it.
FairSpec == Spec /\ \A w \in Writer : WF_vars(Write(w))

-----------------------------------------------------------------------------
(***************************************************************************)
(* Properties.                                                             *)
(***************************************************************************)
Events == {i \in DOMAIN file : file[i].ok}

IsLine(line) ==
    line = Malformed \/ \E b \in used : line = SealEvent(line.prev, b)

TypeOK ==
    /\ file \in Seq({file[i] : i \in DOMAIN file})
    /\ \A i \in DOMAIN file : IsLine(file[i])
    /\ terminated \in BOOLEAN
    /\ phase \in [Writer -> {"idle", "linked"}]
    /\ DOMAIN seen = Writer
    /\ pending \in [Writer -> used \cup {NoBody}]
    /\ used \subseteq Body
    /\ \A e \in acked : IsLine(e) /\ e.ok
    /\ failures \subseteq Faults

\* However appends interleave and whatever is lost, an event never links to
\* an event that is not there: up to the first line that does not parse, the
\* hash on every line but a first one is the hash of an earlier line (write
\* links to what previous_hash read, which another writer may have passed by
\* then, but only a loss that also stops this writer can take away).
ParentsPrecede ==
    \A i \in DOMAIN file :
        (\A k \in 1..i : file[k].ok) /\ file[i].prev # NoHash
            => \E j \in 1..(i-1) : file[j].hash = file[i].prev

\* A fork is never wider than the number of concurrent writers: two events
\* that link to the same hash were appended by different writers, because a
\* writer's own append moves the tail it reads next (previous_hash).
SiblingsHaveDistinctWriters ==
    \A i, j \in Events :
        i # j /\ file[i].prev = file[j].prev => file[i].body[1] # file[j].body[1]

\* An event append has returned is on a line of its own from then on, however
\* many writers append or are killed, until storage fails
\* (AppendOnlyEventLog.append).
AckedEventsStay ==
    failures \subseteq {"kill"} => \A e \in acked : \E i \in DOMAIN file : file[i] = e

\* When callers take turns the verifier never reports a broken link, even
\* after kills, torn writes and lost suffixes: it says valid or it raises.
ExclusiveNeverBroken == Exclusive => Verify(file).outcome # "broken"

\* The chain never heals: a line verify stops at once is a line it stops at
\* for ever, since an append changes no earlier line; only losing the end of
\* the file can take a defect away.
DefectsStay == [][Defects(file) \subseteq Defects(file)' \/ PowerLoss]_vars

\* Where callers take turns and nothing fails, the file is the abstract chain.
Chain == INSTANCE HashChain WITH chain <- file
ImplementsChain == Chain!Spec

\* Where callers take turns and anything may fail, the part of the file
\* before a line that does not parse is a chain that only grows by one linked
\* event or loses a suffix.
ReadablePart ==
    IF file # << >> /\ ~file[Len(file)].ok
    THEN SubSeq(file, 1, Len(file) - 1)
    ELSE file
LossyChain == INSTANCE HashChain WITH chain <- ReadablePart
ImplementsLossyChain == LossyChain!LossySpec

\* An append always ends, and if nothing has failed it returns its event: no
\* writer makes another one wait or raise (there is no lock, retry or version
\* check).
AppendReturns ==
    \A w \in Writer :
        phase[w] = "linked" ~>
            /\ phase[w] = "idle"
            /\ failures = {} => \A b \in used : \/ \E e \in acked : e.body = b
                                               \/ \E v \in Writer : pending[v] = b

\* docs/SCHEMA.md:33: "Every event links to the previous event hash."
EveryEventLinksToThePrevious ==
    \A i \in Events : Linked(file, i)

-----------------------------------------------------------------------------
(***************************************************************************)
(* The inductive strengthening.  The safety properties above only speak of *)
(* the file; what makes them inductive is what a writer that has read and  *)
(* not yet written will add to it.                                         *)
(***************************************************************************)
Linking(w) == phase[w] = "linked"

\* No content is in the file twice, nor already there while it is pending.
ContentsAreFresh ==
    /\ \A i, j \in Events : file[i].body = file[j].body => i = j
    /\ \A w \in Writer : Linking(w) =>
          /\ pending[w] \in used /\ pending[w][1] = w
          /\ \A i \in Events : file[i].body # pending[w]

\* What a linking writer saw is still in the file, if the file still parses.
SeenIsPresent ==
    \A w \in Writer :
        Linking(w) /\ Readable(file) /\ seen[w] # NoHash
            => \E j \in DOMAIN file : file[j].hash = seen[w]

\* A linking writer has no event yet that links to what it saw.
SeenIsUnusedByWriter ==
    \A w \in Writer : \A i \in Events :
        Linking(w) /\ file[i].body[1] = w => file[i].prev # seen[w]

\* Storage that has not failed leaves every line terminated.
NoTornTail == failures \subseteq {"kill"} => terminated

\* Callers that take turns see the tail they will write after; every line that
\* parses is sound, and one that does not is the last.
TurnsKeepTheChain ==
    Exclusive =>
        /\ \A w \in Writer : Linking(w) =>
              /\ \A v \in Writer : Linking(v) => v = w
              /\ Readable(file) /\ seen[w] = PreviousHash(file)
        /\ \A i \in Events : Sound(file, i)
        /\ \A i \in DOMAIN file : i < Len(file) => i \in Events

IInv ==
    /\ TypeOK
    /\ ContentsAreFresh
    /\ ParentsPrecede /\ SeenIsPresent
    /\ SiblingsHaveDistinctWriters /\ SeenIsUnusedByWriter
    /\ AckedEventsStay /\ NoTornTail
    /\ TurnsKeepTheChain
=============================================================================
