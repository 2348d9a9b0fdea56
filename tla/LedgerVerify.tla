---------------------------- MODULE LedgerVerify ----------------------------
(***************************************************************************)
(* What HashChainVerifier.verify (ecl_trainer/core/ledger.py) can tell.    *)
(* A ledger is written, then the file is damaged by hand or by storage -   *)
(* lines changed, blanked, lost, copied, reordered, garbled, blank ones    *)
(* added - without recomputing any hash, and then the verifier walks it    *)
(* line by line, skipping the blank ones but numbering them.               *)
(***************************************************************************)
EXTENDS LedgerFile, FiniteSets

CONSTANTS
    Body,       \* the contents of events; each event has its own (event_id)
    Signature,  \* the signatures an event may carry
    MaxEdits    \* bound: how many times the file is damaged

ASSUME VerifyAssumption == MaxEdits \in Nat

VARIABLES
    original,   \* the ledger as it was written
    file,       \* the lines of the file as it is now, blank ones included
    edits,      \* how many edits made the difference
    stage,      \* "write", then "verify", then "done"
    index,      \* verify's local: the lines read so far
    previous,   \* verify's local: the hash of the last event read
    count,      \* verify's local: the events found sound so far
    result      \* what verify returned

vars == <<original, file, edits, stage, index, previous, count, result>>

NoResult == [outcome |-> "none", event_count |-> 0, first_broken_link |-> 0]

\* A line of white space.
Blank == [ok |-> FALSE, blank |-> TRUE]

Init ==
    /\ original = << >>
    /\ file = << >>
    /\ edits = 0
    /\ stage = "write"
    /\ index = 0
    /\ previous = NoHash
    /\ count = 0
    /\ result = NoResult

\* One writer appends, events of src/ unsigned or a caller's signed ones; each
\* append starts from an undamaged file.
Append1(b, s) ==
    /\ stage = "write" /\ edits = 0
    /\ \A i \in DOMAIN original : original[i].body # b
    /\ original' = Append(original,
                          [SealEvent(PreviousHash(original), b) EXCEPT !.signature = s])
    /\ file' = original'
    /\ UNCHANGED <<edits, stage, index, previous, count, result>>

-----------------------------------------------------------------------------
(* Damage.  The only hashes at hand are those already written.             *)

KnownHashes == {NoHash} \cup {original[i].hash : i \in DOMAIN original}

Change(f, i) ==
    {[f EXCEPT ![i] = Malformed], [f EXCEPT ![i] = Blank]}
        \cup (IF f[i].ok
              THEN {[f EXCEPT ![i].prev = h] : h \in KnownHashes}
                    \cup {[f EXCEPT ![i].hash = h] : h \in KnownHashes}
                    \cup {[f EXCEPT ![i].body = b] : b \in Body}
                    \cup {[f EXCEPT ![i].signature = s] : s \in Signature}
              ELSE {})

Delete(f, i) == SubSeq(f, 1, i - 1) \o SubSeq(f, i + 1, Len(f))

Insert(f, i, line) == SubSeq(f, 1, i) \o <<line>> \o SubSeq(f, i + 1, Len(f))

Swap(f, i, j) == [f EXCEPT ![i] = f[j], ![j] = f[i]]

Damage ==
    /\ stage = "write" /\ edits < MaxEdits
    /\ \/ \E i \in DOMAIN file : file' \in Change(file, i)
       \/ \E i \in DOMAIN file : file' = Delete(file, i)
       \/ \E i \in 0..Len(file), k \in DOMAIN original :
             file' = Insert(file, i, original[k])
       \/ \E i \in 0..Len(file) : file' = Insert(file, i, Blank)
       \/ \E i, j \in DOMAIN file : i < j /\ file' = Swap(file, i, j)
    /\ edits' = edits + 1
    /\ UNCHANGED <<original, stage, index, previous, count, result>>

-----------------------------------------------------------------------------
(* HashChainVerifier.verify, one line of the file per step.                *)

StartVerify ==
    /\ stage = "write"
    /\ stage' = "verify"
    /\ UNCHANGED <<original, file, edits, index, previous, count, result>>

Return(r) ==
    /\ stage' = "done"
    /\ result' = r
    /\ UNCHANGED <<original, file, edits, index, previous, count>>

\* There is a line left.
Reading == stage = "verify" /\ index < Len(file)

\* The line at hand.
Line == file[index + 1]

SkipBlank ==
    /\ Reading
    /\ Line = Blank
    /\ index' = index + 1
    /\ UNCHANGED <<original, file, edits, stage, previous, count, result>>

\* A plausible bug: the line is numbered by the events before it.
BrokenEvent(i, n) == [outcome |-> "broken", event_count |-> n, first_broken_link |-> n + 1]

\* The report that line i is broken, after n sound events.
Broken(i, n) == [outcome |-> "broken", event_count |-> n, first_broken_link |-> i]

\* The loop goes on to the line after an event.
GoOn ==
    /\ previous' = Line.hash
    /\ index' = index + 1
    /\ count' = count + 1
    /\ UNCHANGED <<original, file, edits, stage, result>>

\* A plausible bug: only the hash of each line is checked, not its link.
VerifyHashOnly == Reading /\ Line.ok /\ Intact(Line) /\ GoOn

\* A plausible bug: only the link of each line is checked, not its hash.
VerifyLinkOnly == Reading /\ Line.ok /\ Line.prev = previous /\ GoOn

VerifyLine == Reading /\ Line.ok /\ Line.prev = previous /\ Intact(Line) /\ GoOn

LineRaises ==
    /\ Reading
    /\ Line # Blank /\ ~Line.ok
    /\ Return([NoResult EXCEPT !.outcome = "raises"])

LineBroken ==
    /\ Reading
    /\ Line.ok /\ ~(Line.prev = previous /\ Intact(Line))
    /\ Return(Broken(index + 1, count))

EndOfFile ==
    /\ stage = "verify" /\ index = Len(file)
    /\ Return([outcome |-> "valid", event_count |-> count, first_broken_link |-> 0])

Next ==
    \/ \E b \in Body, s \in Signature : Append1(b, s)
    \/ Damage
    \/ StartVerify
    \/ SkipBlank
    \/ VerifyLine
    \/ LineRaises
    \/ LineBroken
    \/ EndOfFile

Spec == Init /\ [][Next]_vars

-----------------------------------------------------------------------------
(***************************************************************************)
(* Properties.                                                             *)
(***************************************************************************)

\* Which of the non-blank lines line i is.
Rank(f, i) == Cardinality({j \in 1..i : f[j] # Blank})

\* The non-blank lines: the file of LedgerFile.
Written(f) ==
    [k \in 1..Rank(f, Len(f)) |->
        f[CHOOSE i \in DOMAIN f : f[i] # Blank /\ Rank(f, i) = k]]

\* Line i is the original's event of that rank, its signature aside: the hash
\* covers no signature, so a changed or stripped one leaves no trace.
Preserved(f, i) ==
    LET k == Rank(f, i)
    IN  /\ f[i].ok /\ k <= Len(original)
        /\ f[i].prev = original[k].prev
        /\ f[i].body = original[k].body
        /\ f[i].hash = original[k].hash

\* A damaged file that verifies holds the first events of the original, blank
\* lines and signatures aside: any change of another field, any insertion or
\* reordering of events, and any deletion before the end, however many are
\* combined, makes verify report or raise.
UndetectedOnlyTruncation ==
    result.outcome = "valid" =>
        /\ Rank(file, Len(file)) <= Len(original)
        /\ \A i \in DOMAIN file : file[i] # Blank => Preserved(file, i)

\* The line verify reports is the first one that is no longer the original's
\* event (blank lines and signatures aside), by its number in the file, and
\* event_count counts the events before it, which can still be relied on.
ReportLocatesDamage ==
    result.outcome = "broken" =>
        LET k == result.first_broken_link
        IN  /\ k \in DOMAIN file /\ file[k] # Blank
            /\ ~Preserved(file, k)
            /\ \A i \in 1..(k - 1) : file[i] # Blank => Preserved(file, i)
            /\ result.event_count = Rank(file, k) - 1

\* The loop, blank lines and all, computes what the other modules use for it:
\* Verify of LedgerFile, of the non-blank lines.
LoopComputesVerify ==
    stage = "done" =>
        /\ result.outcome = Verify(Written(file)).outcome
        /\ result.event_count = Verify(Written(file)).event_count

-----------------------------------------------------------------------------
(***************************************************************************)
(* The inductive strengthening: what the damage can put in the file, and   *)
(* what the verifier knows of the part it has read.                        *)
(***************************************************************************)

\* Damage recomputes no hash, so every line is made of what was there.
Lines ==
    {Malformed, Blank}
        \cup [ok : {TRUE}, prev : KnownHashes, body : Body, signature : Signature,
              hash : KnownHashes]

TypeOK ==
    /\ original \in Seq(Lines)
    /\ file \in Seq(Lines)
    /\ stage \in {"write", "verify", "done"}
    /\ index \in 0..Len(file)

\* The original is a chain of different events.
OriginalIsChain ==
    \A i \in DOMAIN original :
        /\ original[i].ok
        /\ original[i].prev = IF i = 1 THEN NoHash ELSE original[i - 1].hash
        /\ Intact(original[i])
        /\ \A j \in DOMAIN original : original[i].body = original[j].body => i = j

\* The events found sound so far are those of the original.
ScannedIsOriginal ==
    /\ stage = "write" => index = 0
    /\ count = Rank(file, index) /\ count <= Len(original)
    /\ \A i \in 1..index : file[i] # Blank => Preserved(file, i)
    /\ \A k \in 1..count : \E i \in 1..index : file[i] # Blank /\ Rank(file, i) = k
    /\ previous = IF count = 0 THEN NoHash ELSE original[count].hash

\* verify returns at the end of the file or at the line after these.
ReturnedWhereItStopped ==
    /\ stage # "done" => result = NoResult
    /\ stage = "done" =>
          \/ /\ index = Len(file)
             /\ result = [outcome |-> "valid", event_count |-> count,
                          first_broken_link |-> 0]
          \/ /\ index < Len(file) /\ Line # Blank /\ ~Line.ok
             /\ result = [NoResult EXCEPT !.outcome = "raises"]
          \/ /\ index < Len(file) /\ Line.ok
             /\ ~(Line.prev = previous /\ Intact(Line))
             /\ result = Broken(index + 1, count)

IInv == TypeOK /\ OriginalIsChain /\ ScannedIsOriginal /\ ReturnedWhereItStopped
=============================================================================
