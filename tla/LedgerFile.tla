----------------------------- MODULE LedgerFile -----------------------------
(***************************************************************************)
(* The JSONL ledger file and the pure part of ecl_trainer/core/ledger.py.  *)
(*                                                                         *)
(* A file is the sequence of its non-blank lines: every reader skips blank *)
(* ones, the code writes none, and LedgerVerify has the files that hold    *)
(* some.  A line that load_canonical_json_line accepts is an event: its    *)
(* content (everything the caller supplied but the signature, the random   *)
(* event_id included), the hash it links to, its signature and its own     *)
(* hash.  A line it refuses - cut short, or two records run together - is  *)
(* Malformed.  A missing file and an empty one behave alike everywhere, so *)
(* both are << >>.                                                         *)
(***************************************************************************)
EXTENDS Naturals, Sequences

\* Python's None: the previous_event_hash_sha256 of the first event.
NoHash == << >>

\* The signature of every event the code writes: None.
NoSignature == "None"

\* canonical_sha256 of _hashable_event, which blanks the event's own hash and
\* its signature: it covers the content and the link, and no signature.
\* SHA-256 is taken to be injective.
EventHash(prev, body) == <<prev, body>>

\* The dict HashChainWriter.prepare returns.
SealEvent(prev, body) ==
    [ok |-> TRUE, prev |-> prev, body |-> body, signature |-> NoSignature,
     hash |-> EventHash(prev, body)]

Malformed == [ok |-> FALSE]

\* A pass over every line, parsing each, raises unless this holds.
Readable(file) == \A i \in DOMAIN file : file[i].ok

\* A plausible bug: the loop of previous_hash returns at its first event.
FirstHash(file) == IF file = << >> THEN NoHash ELSE file[1].hash

\* HashChainWriter.previous_hash of a readable file: the hash on the last
\* line, taken on trust (neither the link nor the hash is recomputed).
PreviousHash(file) ==
    IF file = << >> THEN NoHash ELSE file[Len(file)].hash

\* A plausible bug: the ledger is kept newest first.
PrependLine(file, terminated, line) == <<line>> \o file

\* A plausible bug: an unterminated tail is dropped, to mend the file, before
\* the line is written.
MendTail(file, terminated, line) ==
    Append(IF terminated \/ file = << >> THEN file ELSE SubSeq(file, 1, Len(file) - 1),
           line)

\* The bytes of a line reach the end of the file.  After a tail without a
\* newline they continue that line, which then parses no more.
AppendLine(file, terminated, line) ==
    IF terminated \/ file = << >>
    THEN Append(file, line)
    ELSE [file EXCEPT ![Len(file)] = Malformed]

-----------------------------------------------------------------------------
(***************************************************************************)
(* HashChainVerifier.verify of the non-blank lines.  The loop stops at the *)
(* first line that is not sound: it raises there if the line does not      *)
(* parse, otherwise it reports the number of sound ones before it.  (The   *)
(* first_broken_link of the report numbers the lines of the file, blank    *)
(* ones included: LedgerVerify.)                                           *)
(***************************************************************************)
Linked(file, i) ==
    IF i = 1
    THEN file[1].prev = NoHash
    ELSE file[i-1].ok /\ file[i].prev = file[i-1].hash

Intact(line) == line.hash = EventHash(line.prev, line.body)

Sound(file, i) == file[i].ok /\ Linked(file, i) /\ Intact(file[i])

Defects(file) == {i \in DOMAIN file : ~Sound(file, i)}

FirstDefect(file) ==
    CHOOSE i \in Defects(file) : \A j \in Defects(file) : i <= j

Verify(file) ==
    IF Defects(file) = {}
    THEN [outcome |-> "valid", event_count |-> Len(file)]
    ELSE LET i == FirstDefect(file)
         IN  IF file[i].ok
             THEN [outcome |-> "broken", event_count |-> i - 1]
             ELSE [outcome |-> "raises", event_count |-> 0]
=============================================================================
