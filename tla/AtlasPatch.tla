----------------------------- MODULE AtlasPatch -----------------------------
(***************************************************************************)
(* Offline patches of the Atlas, a DuckDB file, by processes running       *)
(* lifecycle apply-patch (OfflineSyncManager.apply_patch of                *)
(* ecl_trainer/lifecycle/sync.py).  The target version is checked over one *)
(* connection, which is closed, and the patch applied over another; no     *)
(* transaction is opened, so every statement commits by itself, and what a *)
(* process that dies or raises has executed stays.  DuckDB lets one        *)
(* process at a time hold a connection that writes.                        *)
(*                                                                         *)
(* The archive has passed _load_patch_archive: its signature and hashes    *)
(* are right.  Its operations are flattened to steps: a record written, a  *)
(* domain's status set, or a member whose records turn out not to load,    *)
(* which is noticed only when its turn comes.  The tags of a record are as *)
(* one row.  The configured Atlas exists, so ensure_atlas returns it.      *)
(***************************************************************************)
EXTENDS Naturals, Sequences, FiniteSets

CONSTANTS
    Process,    \* the processes that apply patches
    Record,     \* the record ids of atlas_source_records
    Domain,     \* the domains of domain_extension_manifest
    Content,    \* what a record can say
    Reference,  \* Reference[c]: its source_reference_hash_sha256, of the source's URI
                \* alone unless the record gives one
    SeedContent, \* SeedContent[r]: what record r of the Atlas that was built says
    Tag,        \* Atlas version tags
    BuiltTag,   \* the tag of the Atlas that was built
    BuiltActive, \* the domains it has switched on
    Patches,    \* bound: the patches there are
    Cuts        \* TRUE when a process may die

AnyTarget == "any version"
\* "registered" stands for the three statuses that are not active.
Statuses == {"active", "registered"}

StepsOf ==
    [kind : {"upsert"}, record : Record, content : Content]
        \cup [kind : {"status"}, domain : Domain, status : Statuses]
        \cup {[kind |-> "bad_member"]}

ASSUME PatchAssumption ==
    /\ Cuts \in BOOLEAN /\ SeedContent \in [Record -> Content]
    /\ BuiltTag \in Tag /\ BuiltActive \subseteq Domain
    /\ \A p \in Patches :
          /\ p.target \in Tag \cup {AnyTarget} /\ p.tag \in Tag
          /\ p.steps \in Seq(StepsOf)

VARIABLES
    rows,       \* rows[r]: the rows of atlas_source_records with record_id r
    tags,       \* tags[r]: the rows of atlas_source_record_tags, likewise
    status,     \* domain_extension_manifest
    manifest,   \* atlas_manifest: the fingerprint recorded there
    metadata,   \* the rows of ecl_atlas_metadata
    pc,         \* pc[w]: the statement w executes next, or "idle"
    patch,      \* patch[w]: the patch w applies
    at,         \* at[w]: the step of it that w is at
    base,       \* rows, tags and status as the last patch that was applied left them
    attempted,  \* the patches that connected since
    last        \* the last patch applied, if none connected since

data == <<rows, tags, status, manifest, metadata>>
ghosts == <<base, attempted, last>>
vars == <<rows, tags, status, manifest, metadata, pc, patch, at, base, attempted, last>>

NoPatch == [target |-> AnyTarget, tag |-> "none", steps |-> << >>]

\* The rows whose source is h.
RowsOf(h) ==
    UNION {{<<r, i>> : i \in {k \in DOMAIN rows[r] : Reference[rows[r][k]] = h}} : r \in Record}

\* The hash atlas_build_fingerprint computes: the active domains, and the
\* reference hash of every row, sorted (the domain patterns never change).  What
\* a record says of its source is not in it, nor which record it is.
Fingerprint ==
    [active |-> {d \in Domain : status[d] = "active"},
     references |-> [h \in {Reference[c] : c \in Content} |-> Cardinality(RowsOf(h))]]

\* The Atlas as build_option_b_atlas or the build pipeline leaves it: without
\* source records, or with all of them.
Init ==
    /\ \E seeded \in {{}, Record} :
          rows = [r \in Record |-> IF r \in seeded THEN <<SeedContent[r]>> ELSE << >>]
    /\ tags = rows
    /\ status = [d \in Domain |-> IF d \in BuiltActive THEN "active" ELSE "registered"]
    /\ manifest = Fingerprint
    /\ metadata = <<[tag |-> BuiltTag, build |-> Fingerprint]>>
    /\ pc = [w \in Process |-> "idle"]
    /\ patch = [w \in Process |-> NoPatch]
    /\ at = [w \in Process |-> 0]
    /\ base = [rows |-> rows, tags |-> tags, status |-> status, tag |-> metadata[1].tag]
    /\ attempted = {}
    /\ last = NoPatch

-----------------------------------------------------------------------------
Writing(w) == pc[w] \notin {"idle", "checked"}

Goto(w, statement) == pc' = [pc EXCEPT ![w] = statement]

\* A plausible bug: the last operation is taken for the end.
BeginShort(w, i) ==
    /\ at' = [at EXCEPT ![w] = i]
    /\ Goto(w, IF i >= Len(patch[w].steps) THEN "refresh"
               ELSE IF patch[w].steps[i].kind = "upsert" THEN "delete_row"
               ELSE patch[w].steps[i].kind)

\* Step i of the patch begins, or the end of it.
Begin(w, i) ==
    /\ at' = [at EXCEPT ![w] = i]
    /\ Goto(w, IF i > Len(patch[w].steps) THEN "refresh"
               ELSE IF patch[w].steps[i].kind = "upsert" THEN "delete_row"
               ELSE patch[w].steps[i].kind)

\* The call is over, by returning or raising, and its connection closed.
Exit(w) ==
    /\ Goto(w, "idle")
    /\ patch' = [patch EXCEPT ![w] = NoPatch]
    /\ at' = [at EXCEPT ![w] = 0]

\* The patch is for this version, or the version cannot be told.
Fits(p) ==
    p.target # AnyTarget /\ metadata # << >> => metadata[1].tag = p.target

\* The archive is loaded and its target checked, while nobody writes; an
\* application that raises before this changes nothing.
Check(w, p) ==
    /\ pc[w] = "idle"
    /\ \A v \in Process : ~Writing(v)
    /\ Fits(p)
    /\ Goto(w, "checked")
    /\ patch' = [patch EXCEPT ![w] = p]
    /\ UNCHANGED <<data, at, ghosts>>

Connect(w) ==
    /\ pc[w] = "checked"
    /\ \A v \in Process : ~Writing(v)
    /\ Begin(w, 1)
    /\ attempted' = attempted \cup {patch[w]}
    /\ last' = NoPatch
    /\ UNCHANGED <<data, patch, base>>

\* duckdb.connect raises: another process holds the file, to read or to write.
ConnectRaises(w) ==
    /\ pc[w] = "checked"
    /\ Exit(w)
    /\ UNCHANGED <<data, ghosts>>

-----------------------------------------------------------------------------
(* The statements.                                                         *)

Step(w) == patch[w].steps[at[w]]

\* A plausible bug: the WHERE clause is lost.
DeleteEveryRow(w) ==
    /\ pc[w] = "delete_row"
    /\ rows' = [r \in Record |-> << >>]
    /\ Goto(w, "delete_tags")
    /\ UNCHANGED <<tags, status, manifest, metadata, patch, at, ghosts>>

DeleteRow(w) ==
    /\ pc[w] = "delete_row"
    /\ rows' = [rows EXCEPT ![Step(w).record] = << >>]
    /\ Goto(w, "delete_tags")
    /\ UNCHANGED <<tags, status, manifest, metadata, patch, at, ghosts>>

\* A plausible bug: the tags of the old row are forgotten.
LeaveTags(w) ==
    /\ pc[w] = "delete_tags"
    /\ Goto(w, "insert_row")
    /\ UNCHANGED <<data, patch, at, ghosts>>

DeleteTags(w) ==
    /\ pc[w] = "delete_tags"
    /\ tags' = [tags EXCEPT ![Step(w).record] = << >>]
    /\ Goto(w, "insert_row")
    /\ UNCHANGED <<rows, status, manifest, metadata, patch, at, ghosts>>

InsertRow(w) ==
    /\ pc[w] = "insert_row"
    /\ rows' = [rows EXCEPT ![Step(w).record] = Append(@, Step(w).content)]
    /\ Goto(w, "insert_tags")
    /\ UNCHANGED <<tags, status, manifest, metadata, patch, at, ghosts>>

InsertTags(w) ==
    /\ pc[w] = "insert_tags"
    /\ tags' = [tags EXCEPT ![Step(w).record] = Append(@, Step(w).content)]
    /\ Begin(w, at[w] + 1)
    /\ UNCHANGED <<rows, status, manifest, metadata, patch, ghosts>>

SetStatus(w) ==
    /\ pc[w] = "status"
    /\ status' = [status EXCEPT ![Step(w).domain] = Step(w).status]
    /\ Begin(w, at[w] + 1)
    /\ UNCHANGED <<rows, tags, manifest, metadata, patch, ghosts>>

\* The records of a member do not load, when earlier operations have committed.
MemberRaises(w) ==
    /\ pc[w] = "bad_member"
    /\ Exit(w)
    /\ UNCHANGED <<data, ghosts>>

\* A plausible bug: the fingerprint is computed and not recorded.
RefreshUnrecorded(w) ==
    /\ pc[w] = "refresh"
    /\ Goto(w, "delete_metadata")
    /\ UNCHANGED <<data, patch, at, ghosts>>

Refresh(w) ==
    /\ pc[w] = "refresh"
    /\ manifest' = Fingerprint
    /\ Goto(w, "delete_metadata")
    /\ UNCHANGED <<rows, tags, status, metadata, patch, at, ghosts>>

\* A plausible bug: the old birthmark is kept beside the new one.
KeepMetadata(w) ==
    /\ pc[w] = "delete_metadata"
    /\ Goto(w, "insert_metadata")
    /\ UNCHANGED <<data, patch, at, ghosts>>

DeleteMetadata(w) ==
    /\ pc[w] = "delete_metadata"
    /\ metadata' = << >>
    /\ Goto(w, "insert_metadata")
    /\ UNCHANGED <<rows, tags, status, manifest, patch, at, ghosts>>

\* The last statement; apply_patch reports APPLIED.
InsertMetadata(w) ==
    /\ pc[w] = "insert_metadata"
    /\ metadata' = Append(metadata, [tag |-> patch[w].tag, build |-> manifest])
    /\ base' = [rows |-> rows, tags |-> tags, status |-> status, tag |-> patch[w].tag]
    /\ attempted' = {}
    /\ last' = patch[w]
    /\ Exit(w)
    /\ UNCHANGED <<rows, tags, status, manifest>>

\* The process dies between two statements.
Die(w) ==
    /\ Cuts /\ pc[w] # "idle"
    /\ Exit(w)
    /\ UNCHANGED <<data, ghosts>>

Next ==
    \E w \in Process :
        \/ \E p \in Patches : Check(w, p)
        \/ Connect(w) \/ ConnectRaises(w)
        \/ DeleteRow(w) \/ DeleteTags(w) \/ InsertRow(w) \/ InsertTags(w)
        \/ SetStatus(w) \/ MemberRaises(w)
        \/ Refresh(w) \/ DeleteMetadata(w) \/ InsertMetadata(w)
        \/ Die(w)

Spec == Init /\ [][Next]_vars

-----------------------------------------------------------------------------
(***************************************************************************)
(* Properties.                                                             *)
(***************************************************************************)
Upserts(p, r) ==
    {i \in DOMAIN p.steps : p.steps[i].kind = "upsert" /\ p.steps[i].record = r}
Settings(p, d) ==
    {i \in DOMAIN p.steps : p.steps[i].kind = "status" /\ p.steps[i].domain = d}
Latest(S) == CHOOSE i \in S : \A j \in S : j <= i

Statements ==
    {"idle", "checked", "delete_row", "delete_tags", "insert_row", "insert_tags",
     "status", "bad_member", "refresh", "delete_metadata", "insert_metadata"}

TypeOK ==
    /\ rows \in [Record -> Seq(Content)]
    /\ tags \in [Record -> Seq(Content)]
    /\ status \in [Domain -> Statuses]
    /\ metadata = << >> \/ metadata = <<metadata[1]>>
    /\ pc \in [Process -> Statements]
    /\ patch \in [Process -> Patches \cup {NoPatch}]
    /\ at \in [Process -> Nat]
    /\ base.tag \in Tag
    /\ attempted \subseteq Patches
    /\ last \in Patches \cup {NoPatch}

\* However applications are cut short, repeated or raced, a record has one row,
\* and if it has tags too they are of the same version of the record: the
\* deletes of both tables come before the inserts of either
\* (_upsert_source_records).
NoMixedRecord ==
    \A r \in Record :
        /\ Len(rows[r]) <= 1 /\ Len(tags[r]) <= 1
        /\ rows[r] # << >> /\ tags[r] # << >> => tags[r] = rows[r]

\* A patch that is reported as applied is there as a whole, its last word on
\* every record and domain, whatever the attempts before it left behind: an
\* application that was cut can be mended by repeating it (apply_patch).
AppliedPatchIsWhole ==
    last # NoPatch =>
        /\ \A r \in Record :
              Upserts(last, r) # {} =>
                  LET step == last.steps[Latest(Upserts(last, r))]
                  IN  rows[r] = <<step.content>> /\ tags[r] = <<step.content>>
        /\ \A d \in Domain :
              Settings(last, d) # {} =>
                  status[d] = last.steps[Latest(Settings(last, d))].status

\* What no attempted patch is about stays as the last applied patch left it; a
\* record that one is about is as it was left, missing, or as one of them says,
\* and a domain is as it was left or as one of them says (apply_patch).
OnlyAttemptedPatchesShow ==
    /\ \A r \in Record :
          \/ rows[r] = base.rows[r] \/ rows[r] = << >>
          \/ \E p \in attempted : \E i \in Upserts(p, r) : rows[r] = <<p.steps[i].content>>
    /\ \A r \in Record :
          (\A p \in attempted : Upserts(p, r) = {}) =>
              rows[r] = base.rows[r] /\ tags[r] = base.tags[r]
    /\ \A d \in Domain :
          \/ status[d] = base.status[d]
          \/ \E p \in attempted : \E i \in Settings(p, d) : status[d] = p.steps[i].status

\* Between applications none of which was cut, the birthmark is there and agrees
\* with the Atlas in its version tag, its active domains and the sources its
\* records refer to; it does not tell apart two versions of a record that have
\* one source (refresh_atlas_manifest, _write_lifecycle_metadata).
BirthmarkDescribesAtlas ==
    attempted = {} =>
        /\ metadata = <<[tag |-> base.tag, build |-> Fingerprint]>>
        /\ manifest = Fingerprint

-----------------------------------------------------------------------------
(***************************************************************************)
(* The strengthening the properties need to be inductive: what a process   *)
(* has got done when it is at a statement.                                 *)
(***************************************************************************)
OneWriter == \A v, w \in Process : Writing(v) /\ Writing(w) => v = w

OfUpsert == {"delete_row", "delete_tags", "insert_row", "insert_tags"}
OfEnd == {"refresh", "delete_metadata", "insert_metadata"}

\* A process is at a statement of the operation its patch is at, and its patch
\* is an attempt since the last one that was applied.
AtItsOperation ==
    \A w \in Process :
        /\ pc[w] # "idle" => patch[w] \in Patches
        /\ Writing(w) =>
              /\ patch[w] \in attempted /\ last = NoPatch
              /\ at[w] \in 1..(Len(patch[w].steps) + 1)
              /\ at[w] = Len(patch[w].steps) + 1 <=> pc[w] \in OfEnd
              /\ pc[w] \in OfUpsert <=> pc[w] \notin OfEnd /\ Step(w).kind = "upsert"
              /\ pc[w] = "status" <=> pc[w] \notin OfEnd /\ Step(w).kind = "status"

\* What of the record under way is there.
RecordUnderWay ==
    \A w \in Process :
        /\ pc[w] \in {"delete_tags", "insert_row"} => rows[Step(w).record] = << >>
        /\ pc[w] \in {"insert_row", "insert_tags"} => tags[Step(w).record] = << >>
        /\ pc[w] = "insert_tags" => rows[Step(w).record] = <<Step(w).content>>

\* What of the end is done.
EndUnderWay ==
    \A w \in Process :
        /\ pc[w] \in {"delete_metadata", "insert_metadata"} => manifest = Fingerprint
        /\ pc[w] = "insert_metadata" => metadata = << >>

\* i is the last of S before n, and n is not of S.
LastBefore(i, S, n) == i < n /\ \A j \in S : j <= i \/ j > n

\* The operations done have had the last word on the records and domains that
\* the one under way is not about.
RecordsWritten(w) ==
    \A r \in Record : \A i \in Upserts(patch[w], r) :
        LastBefore(i, Upserts(patch[w], r), at[w]) =>
            rows[r] = <<patch[w].steps[i].content>> /\ tags[r] = <<patch[w].steps[i].content>>
StatusesSet(w) ==
    \A d \in Domain : \A i \in Settings(patch[w], d) :
        LastBefore(i, Settings(patch[w], d), at[w]) => status[d] = patch[w].steps[i].status

WrittenSoFar == \A w \in Process : Writing(w) => RecordsWritten(w) /\ StatusesSet(w)

\* The birthmark, if there is one, is of the last patch that was applied.
BirthmarkIsOfTheLast == metadata # << >> => metadata[1].tag = base.tag

PatchInvariant ==
    /\ TypeOK
    /\ OneWriter /\ AtItsOperation
    /\ RecordUnderWay /\ EndUnderWay /\ WrittenSoFar
    /\ NoMixedRecord
    /\ AppliedPatchIsWhole
    /\ OnlyAttemptedPatchesShow
    /\ BirthmarkDescribesAtlas /\ BirthmarkIsOfTheLast
=============================================================================
