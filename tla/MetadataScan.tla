---------------------------- MODULE MetadataScan ----------------------------
(***************************************************************************)
(* What CIScanner.scan reads before it appends its event                   *)
(* (ecl_trainer/ci/scanner.py): the listed files are filtered by path, the *)
(* JSON and YAML ones among them parsed one at a time, each walked by      *)
(* NoPayloadValidator (ecl_trainer/core/policy.py) and then looked at by   *)
(* RiskGatekeeper (ecl_trainer/compliance/risk.py).  The working tree may  *)
(* change at any time.                                                     *)
(*                                                                         *)
(* A parsed file is a tree: nodes[n] has a parent, the class of its key,   *)
(* if it is in a mapping, and the class of its value.  A "json" value is a *)
(* text that looks like JSON, and its child what it decodes to.  Nodes are *)
(* numbered as they are written, so a node comes before all under it and   *)
(* those before the node's next sibling.  CI has no                        *)
(* lineage registry and no registered dataset ids or roots.  CIRun takes   *)
(* over from here, with the outcome as its job's "metadata" ("raised" is   *)
(* its "unparsable").                                                      *)
(***************************************************************************)
EXTENDS Naturals, Sequences, FiniteSetsExt

CONSTANTS
    Paths,          \* the files of the repository
    Listings,       \* bound: the lists of changed files there are
    Worlds,         \* bound: the contents of the files when a scan starts
    Edits,          \* bound: what an edit leaves in a file
    MaxEdits,       \* bound: edits while a scan runs
    IntRun,         \* a list of this many integers is refused; 8 in the code
    FloatRun        \* a list of this many floats is refused; 4 in the code

\* place: where PathFilter finds the path; outside: whether it resolves to
\* somewhere outside the repository.
PathRecords ==
    [id : Nat, place : {"excluded", "metadata_dir", "elsewhere"}, listed_name : BOOLEAN,
     suffix : {"json_yaml", "toml_md", "other"}, marker : BOOLEAN, outside : BOOLEAN]

Values ==
    {"mapping", "list", "json", "int", "float", "text", "alias", "split",
     "sensitive_text", "binary"}
Keys == {"none", "plain", "safe", "forbidden"}

Contents == Edits \cup {w[p] : w \in Worlds, p \in Paths}

Nodes == [parent : Nat, key : Keys, value : Values]
\* loop: the document names its own namespace as the origin model.  unhashable: its
\* source root hash, or the origin model it compares with its namespace, is a list
\* or a mapping.
Documents ==
    [state : {"missing", "broken", "parsed"}, nodes : Seq(Nodes),
     loop : BOOLEAN, unhashable : BOOLEAN]

\* Only what is parsed has nodes, and only the first has no parent.
IsDocument(d) ==
    /\ d \in Documents
    /\ d.state # "parsed" => d.nodes = << >>
    /\ \A n \in DOMAIN d.nodes :
          /\ IF n = 1 THEN d.nodes[n].parent = 0 ELSE d.nodes[n].parent \in 1..(n - 1)
          /\ n > 1 /\ d.nodes[d.nodes[n].parent].value = "json" =>
                d.nodes[n].value \in {"mapping", "list"}
    /\ d.unhashable =>
          \E n \in DOMAIN d.nodes :
              d.nodes[n].parent = 1 /\ d.nodes[n].value \in {"mapping", "list"}

ASSUME ScanAssumption ==
    /\ Paths \subseteq PathRecords
    /\ Listings \subseteq Seq(Paths)
    /\ Worlds \subseteq [Paths -> Contents]
    /\ \A d \in Contents : IsDocument(d)
    /\ MaxEdits \in Nat /\ IntRun \in Nat /\ FloatRun \in Nat

VARIABLES
    world,      \* world[p]: the content of file p
    files,      \* the changed files
    next,       \* the index of the file to look at next
    found,      \* that file was seen to exist, and is to be read
    walked,     \* the document being walked
    todo,       \* its nodes still to visit
    flags,      \* the flags so far
    outcome,    \* how scan ended, if it has
    event,      \* the CIScanEvent it appended
    seen,       \* the files read, in order, with their content then
    edits       \* edits so far

scanVars == <<world, files, next, found, walked, todo, flags, outcome, event, seen, edits>>

Missing == [state |-> "missing", nodes |-> << >>, loop |-> FALSE, unhashable |-> FALSE]
NoEvent == [paths |-> << >>, status |-> "none"]

-----------------------------------------------------------------------------
(* Paths.                                                                  *)

\* is_training_metadata_path.
IsMetadataPath(p) ==
    /\ p.place # "excluded"
    /\ \/ p.listed_name
       \/ p.place = "metadata_dir"
       \/ p.suffix \in {"json_yaml", "toml_md"} /\ p.marker

\* _load_metadata_mapping is not called, for scan has filtered the listing by the
\* names in it, or it returns None.
Unread(p) ==
    \/ ~IsMetadataPath(p)
    \/ p.place = "excluded" \/ p.outside \/ world[p].state = "missing" \/ p.suffix # "json_yaml"
IsMapping(d) == d.nodes # << >> /\ d.nodes[1].value = "mapping"

\* The files that have changed; none where git fails.
ScanInit ==
    /\ world \in Worlds
    /\ files \in Listings
    /\ next = 1
    /\ found = FALSE
    /\ walked = Missing
    /\ todo = {}
    /\ flags = << >>
    /\ outcome = "scanning"
    /\ event = NoEvent
    /\ seen = << >>
    /\ edits = 0

-----------------------------------------------------------------------------
(* NoPayloadValidator.                                                     *)

Children(d, n) == {m \in DOMAIN d.nodes : d.nodes[m].parent = n}

\* _validate_key lets a key on the safe list pass, whatever it contains.
KeyIsRefused(node) == node.key = "forbidden"

AllAre(d, n, value) == \A m \in Children(d, n) : d.nodes[m].value = value

\* What _walk refuses of a value before it descends into it.
ValueIsRefused(d, n) ==
    \/ d.nodes[n].value \in {"sensitive_text", "binary"}
    \/ /\ d.nodes[n].value = "list"
       /\ \/ Cardinality(Children(d, n)) >= IntRun /\ AllAre(d, n, "int")
          \/ Cardinality(Children(d, n)) >= FloatRun /\ AllAre(d, n, "float")

IsRefused(d, n) == KeyIsRefused(d.nodes[n]) \/ ValueIsRefused(d, n)

-----------------------------------------------------------------------------
(* RiskGatekeeper.                                                         *)

\* _flatten_metadata_values: the values in mappings and lists, not in texts
\* that would decode to more.
Flat(d) ==
    LET in[n \in DOMAIN d.nodes] ==
            \/ n = 1
            \/ in[d.nodes[n].parent] /\ d.nodes[d.nodes[n].parent].value # "json"
    IN  {d.nodes[n].value : n \in {m \in DOMAIN d.nodes : in[m]}}

\* BenchmarkRegistry.matches: values that name a benchmark or one of its splits.
Matches(d) == Flat(d) \cap {"alias", "split"}

\* A benchmark is high, a split alone medium; a document that names its own
\* namespace as the origin model is high.
FlagsOf(d) ==
    (IF Matches(d) = {} THEN << >>
     ELSE IF "alias" \in Matches(d) THEN <<"high">> ELSE <<"medium">>)
        \o (IF d.loop THEN <<"high">> ELSE << >>)

RiskStatus(fs) ==
    IF \E i \in DOMAIN fs : fs[i] = "high" THEN "high_risk"
    ELSE IF fs # << >> THEN "warn" ELSE "pass"

-----------------------------------------------------------------------------
(* scan.                                                                   *)

Scanning == outcome = "scanning"
BetweenFiles == Scanning /\ walked = Missing

Read(p) == seen' = Append(seen, [path |-> p, content |-> world[p]])

\* The file exists now; it is read later.
Find ==
    /\ BetweenFiles /\ ~found /\ next <= Len(files)
    /\ ~Unread(files[next])
    /\ found' = TRUE
    /\ UNCHANGED <<world, files, next, walked, todo, flags, outcome, event, seen, edits>>

\* Only a mapping is walked: a file that holds a list, of whatever, is passed over.
Load ==
    /\ BetweenFiles /\ found /\ next <= Len(files)
    /\ world[files[next]].state = "parsed"
    /\ Read(files[next])
    /\ next' = next + 1 /\ found' = FALSE
    /\ IF IsMapping(world[files[next]])
       THEN walked' = world[files[next]] /\ todo' = {1}
       ELSE UNCHANGED <<walked, todo>>
    /\ UNCHANGED <<world, files, flags, outcome, event, edits>>

\* The file has gone, or is not one that is parsed.
Skip ==
    /\ BetweenFiles /\ ~found /\ next <= Len(files)
    /\ Unread(files[next])
    /\ next' = next + 1
    /\ UNCHANGED <<world, files, found, walked, todo, flags, outcome, event, seen, edits>>

\* The parser's exception leaves scan, or that of reading a file that has gone since
\* it was found.
LoadRaises ==
    /\ BetweenFiles /\ found /\ next <= Len(files)
    /\ \/ world[files[next]].state = "broken" /\ Read(files[next])
       \/ world[files[next]].state = "missing" /\ UNCHANGED seen
    /\ outcome' = "raised"
    /\ UNCHANGED <<world, files, next, found, walked, todo, flags, event, edits>>

\* The node whose turn it is: children are visited before the next sibling.
Current == Min(todo)

Visit ==
    /\ Scanning /\ todo # {}
    /\ ~IsRefused(walked, Current)
    /\ todo' = (todo \ {Current}) \cup Children(walked, Current)
    /\ UNCHANGED <<world, files, next, found, walked, flags, outcome, event, seen, edits>>

\* A plausible bug: the exception is caught, and the file left out.
VisitGivesUp ==
    /\ Scanning /\ todo # {}
    /\ IsRefused(walked, Current)
    /\ walked' = Missing /\ todo' = {}
    /\ UNCHANGED <<world, files, next, found, flags, outcome, event, seen, edits>>

\* PayloadExfiltrationException leaves scan.
VisitRaises ==
    /\ Scanning /\ todo # {}
    /\ IsRefused(walked, Current)
    /\ outcome' = "payload"
    /\ UNCHANGED <<world, files, next, found, walked, todo, flags, event, seen, edits>>

\* A plausible bug: the flags of a file replace those of the files before it.
EvaluateLast ==
    /\ Scanning /\ walked # Missing /\ todo = {} /\ ~walked.unhashable
    /\ flags' = FlagsOf(walked)
    /\ walked' = Missing
    /\ UNCHANGED <<world, files, next, found, todo, outcome, event, seen, edits>>

Evaluate ==
    /\ Scanning /\ walked # Missing /\ todo = {} /\ ~walked.unhashable
    /\ flags' = flags \o FlagsOf(walked)
    /\ walked' = Missing
    /\ UNCHANGED <<world, files, next, found, todo, outcome, event, seen, edits>>

\* A list or mapping cannot be looked up in a set: the TypeError leaves scan.
EvaluateRaises ==
    /\ Scanning /\ walked # Missing /\ todo = {} /\ walked.unhashable
    /\ outcome' = "raised"
    /\ UNCHANGED <<world, files, next, found, walked, todo, flags, event, seen, edits>>

\* CIRun!Scan has the append that may raise.
Record ==
    /\ BetweenFiles /\ next > Len(files)
    /\ event' = [paths |-> SelectSeq(files, IsMetadataPath), status |-> RiskStatus(flags)]
    /\ outcome' = "recorded"
    /\ UNCHANGED <<world, files, next, found, walked, todo, flags, seen, edits>>

\* Somebody writes or removes a listed file while the scan runs.
Edit ==
    /\ Scanning /\ edits < MaxEdits
    /\ \E i \in DOMAIN files : \E d \in Edits : world' = [world EXCEPT ![files[i]] = d]
    /\ edits' = edits + 1
    /\ UNCHANGED <<files, next, found, walked, todo, flags, outcome, event, seen>>

ScanStep ==
    Find \/ Load \/ Skip \/ LoadRaises \/ Visit \/ VisitRaises
         \/ Evaluate \/ EvaluateRaises \/ Record
ScanNext == ScanStep \/ Edit

ScanSpec == ScanInit /\ [][ScanNext]_scanVars

-----------------------------------------------------------------------------
(***************************************************************************)
(* Properties.                                                             *)
(***************************************************************************)
ScanTypeOK ==
    /\ world \in [Paths -> Contents]
    /\ files \in Seq(Paths) /\ next \in 1..(Len(files) + 1) /\ found \in BOOLEAN
    /\ walked \in Contents \cup {Missing} /\ todo \subseteq DOMAIN walked.nodes
    /\ flags \in Seq({"high", "medium"})
    /\ outcome \in {"scanning", "recorded", "payload", "raised"}
    /\ event.status \in {"none", "pass", "warn", "high_risk"}
    /\ seen \in Seq([path : Paths, content : Contents])
    /\ edits \in 0..MaxEdits

HasPayload(d) == \E n \in DOMAIN d.nodes : IsRefused(d, n)

\* Whatever is written while the scan runs, it records its event only if no
\* mapping it read has, at any depth, under any key and in any JSON text, a key
\* or value the policy refuses (_walk).  A file that holds a list is not walked.
RecordedScanReadNoPayload ==
    outcome = "recorded" =>
        \A i \in DOMAIN seen : IsMapping(seen[i].content) => ~HasPayload(seen[i].content)

\* A scan is stopped for a payload only by a mapping that has one, and by the
\* first of those it read, however the scan ended; not by what it skips, nor by a
\* file that holds a list (scan).
RefusalIsOfTheFirstOffender ==
    outcome # "scanning" =>
        \A i \in DOMAIN seen :
            IsMapping(seen[i].content) =>
                (HasPayload(seen[i].content) <=> outcome = "payload" /\ i = Len(seen))

AliasIn(d) == "alias" \in Flat(d) \/ d.loop

\* The status it records is that of the worst mapping it read, whatever the
\* order of the files: high if any is high, and pass only if none is flagged
\* (_metadata_risk_summary).
StatusIsOfTheWorstFile ==
    outcome = "recorded" =>
        LET read == {seen[i].content : i \in DOMAIN seen}
            mappings == {d \in read : IsMapping(d)}
        IN  event.status =
                IF \E d \in mappings : AliasIn(d) THEN "high_risk"
                ELSE IF \E d \in mappings : "split" \in Flat(d) THEN "warn"
                ELSE "pass"

-----------------------------------------------------------------------------
(***************************************************************************)
(* The invariant the proofs rest on.                                       *)
(***************************************************************************)
\* The mappings scan is done with.
Finished == {i \in DOMAIN seen : IsMapping(seen[i].content) /\ (walked = Missing \/ i # Len(seen))}

\* Whatever the walk has visited is not refused, and what is under it was
\* visited too or is still to visit.
Covered(visited) ==
    /\ 1 \in visited \cup todo
    /\ \A n \in visited :
          ~IsRefused(walked, n) /\ Children(walked, n) \subseteq visited \cup todo

WalksWhatItRead ==
    walked # Missing =>
        /\ seen # << >> /\ walked = seen[Len(seen)].content /\ IsMapping(walked)
        /\ \E visited \in SUBSET DOMAIN walked.nodes : Covered(visited)

FinishedHaveNoPayload == \A i \in Finished : ~HasPayload(seen[i].content)

\* A flag is of a mapping that is finished with, and none of those is forgotten.
FlagsAreOfFinished ==
    /\ (\E i \in DOMAIN flags : flags[i] = "high") <=>
          \E i \in Finished : AliasIn(seen[i].content)
    /\ flags # << >> <=>
          \E i \in Finished : AliasIn(seen[i].content) \/ "split" \in Flat(seen[i].content)

EndsAsItStands ==
    /\ outcome = "payload" => walked # Missing /\ HasPayload(walked)
    /\ outcome = "raised" => ~HasPayload(walked)
    /\ outcome = "recorded" => walked = Missing /\ event.status = RiskStatus(flags)

ScanInvariant ==
    /\ ScanTypeOK /\ WalksWhatItRead /\ FinishedHaveNoPayload /\ FlagsAreOfFinished
    /\ EndsAsItStands
=============================================================================
