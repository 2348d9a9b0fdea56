---------------------------- MODULE AtlasReaders ----------------------------
(***************************************************************************)
(* What a CI run reads of the Atlas while AtlasPatch.tla goes on: the      *)
(* shield and the blueprint choose their domains                           *)
(* (ecl_trainer/oracle/selection.py) and stamp their results with the      *)
(* hash of the Atlas, and the freshness check reads its birthmark          *)
(* (ecl_trainer/lifecycle/freshness.py).  Every read is a connection of    *)
(* its own, which DuckDB refuses while a process has the Atlas open to     *)
(* write; a connection is one step here.                                   *)
(*                                                                         *)
(* A request has the mode, the domains asked for and the domains the       *)
(* manifest's fields name, as written: a name may be no domain.  The lists *)
(* of the domains enabled and skipped are kept as sets.  The patterns and  *)
(* the source summary are read and not kept: no property tells their       *)
(* values apart, and no patch changes the patterns.                        *)
(***************************************************************************)
EXTENDS AtlasPatch

CONSTANTS
    Requests,   \* bound: the requests a run is started with
    Ages        \* bound: days since the Atlas was compiled

FreshnessWindow == 90
NoDomain == "no such domain"

RequestsOf ==
    [mode : {"core_only", "explicit", "auto"},
     asked : Seq(Domain \cup {NoDomain}), named : Seq(Domain \cup {NoDomain}),
     muted : BOOLEAN]

ASSUME ReaderAssumption == Requests \subseteq RequestsOf /\ Ages \subseteq Nat

VARIABLES
    stage,      \* the read that is next, or "idle" or "done"
    request,    \* its request
    result,     \* the domains and hash of the shield, then of the blueprint
    lifecycle,  \* the freshness report
    overtaken   \* whether a patch has connected since the domains were chosen

readerVars == <<stage, request, result, lifecycle, overtaken>>
allVars == <<vars, readerVars>>

NoRequest == [mode |-> "core_only", asked |-> << >>, named |-> << >>, muted |-> FALSE]
NoHash == [recorded |-> [active |-> {}], runtime |-> [active |-> {}]]
NoResult == [enabled |-> {}, skipped |-> {}, hash |-> NoHash]
NoReport == [tag |-> "unknown", status |-> "UNKNOWN"]

ReaderInit ==
    /\ Init
    /\ stage = "idle"
    /\ request = NoRequest
    /\ result = NoResult
    /\ lifecycle = NoReport
    /\ overtaken = FALSE

-----------------------------------------------------------------------------
(* Selection.                                                              *)

Parses(d) == d # NoDomain

\* infer_domain_from_metadata: the first of the names that parses, if one does.
Inferred(r) ==
    {r.named[i] : i \in {k \in DOMAIN r.named :
                           /\ Parses(r.named[k])
                           /\ \A j \in 1..(k - 1) : ~Parses(r.named[j])}}

\* The domains a request selects before their status is looked at.
Wanted(r) ==
    IF r.mode = "core_only" THEN {}
    ELSE IF r.mode = "explicit" THEN {r.asked[i] : i \in DOMAIN r.asked}
    ELSE Inferred(r)

\* parse_domains raises on the first unknown name, whatever the mode.
Raises(r) == \E i \in DOMAIN r.asked : ~Parses(r.asked[i])

IsActive(d) == status[d] = "active"

\* A plausible bug: the packs the manifest says are included are taken.
SelectionOfRecorded(r) ==
    [enabled |-> Wanted(r) \cap manifest.active,
     skipped |-> Wanted(r) \ manifest.active, hash |-> NoHash]

\* resolve_domain_selection.
Selection(r) ==
    [enabled |-> {d \in Wanted(r) : IsActive(d)},
     skipped |-> {d \in Wanted(r) : ~IsActive(d)}, hash |-> NoHash]

\* atlas_manifest_hash: what is recorded, and what the Atlas holds.
AtlasHash == [recorded |-> manifest, runtime |-> Fingerprint]

\* A plausible bug: an Atlas with no birthmark is taken for the one built in.
LifecycleOrBuilt(r, days) ==
    IF metadata = << >> THEN [tag |-> BuiltTag, status |-> "STALE"]
    ELSE [tag |-> metadata[1].tag,
          status |-> IF r.muted THEN "MUTED"
                     ELSE IF days <= FreshnessWindow THEN "CURRENT" ELSE "STALE"]

\* A plausible bug: the tag of a missing birthmark is rendered all the same.
LifecycleOfNone(r, days) ==
    [tag |-> IF metadata = << >> THEN "None" ELSE metadata[1].tag,
     status |-> IF r.muted THEN "MUTED"
                ELSE IF days <= FreshnessWindow THEN "CURRENT" ELSE "STALE"]

\* evaluate_atlas_lifecycle.
Lifecycle(r, days) ==
    IF metadata = << >> THEN NoReport
    ELSE [tag |-> metadata[1].tag,
          status |-> IF r.muted THEN "MUTED"
                     ELSE IF days <= FreshnessWindow THEN "CURRENT" ELSE "STALE"]

-----------------------------------------------------------------------------
(* The run.                                                                *)

Reading(s) ==
    /\ stage = s
    /\ \A w \in Process : ~Writing(w)
    /\ UNCHANGED vars

Ask(r) ==
    /\ stage = "idle"
    /\ ~Raises(r)
    /\ request' = r
    /\ stage' = "shield_statuses"
    /\ UNCHANGED <<vars, result, lifecycle, overtaken>>

ShieldStatuses ==
    /\ Reading("shield_statuses")
    /\ result' = Selection(request)
    /\ overtaken' = FALSE
    /\ stage' = "shield_hash"
    /\ UNCHANGED <<request, lifecycle>>

ShieldHash ==
    /\ Reading("shield_hash")
    /\ result' = IF overtaken THEN NoResult ELSE [result EXCEPT !.hash = AtlasHash]
    /\ stage' = "blueprint_statuses"
    /\ UNCHANGED <<request, lifecycle, overtaken>>

BlueprintStatuses ==
    /\ Reading("blueprint_statuses")
    /\ result' = Selection(request)
    /\ overtaken' = FALSE
    /\ stage' = "patterns"
    /\ UNCHANGED <<request, lifecycle>>

\* The patterns of the core, and of the enabled domains if there are any.
ReadPatterns ==
    /\ Reading("patterns")
    /\ stage' = "blueprint_hash"
    /\ UNCHANGED <<request, result, lifecycle, overtaken>>

BlueprintHash ==
    /\ Reading("blueprint_hash")
    /\ result' = IF overtaken THEN NoResult ELSE [result EXCEPT !.hash = AtlasHash]
    /\ stage' = "summary"
    /\ UNCHANGED <<request, lifecycle, overtaken>>

\* The run has what it needs of the blueprint, which goes into its event.
ReadSummary ==
    /\ Reading("summary")
    /\ result' = NoResult
    /\ stage' = "lifecycle"
    /\ UNCHANGED <<request, lifecycle, overtaken>>

ReadLifecycle ==
    /\ Reading("lifecycle")
    /\ \E days \in Ages : lifecycle' = Lifecycle(request, days)
    /\ overtaken' = FALSE
    /\ stage' = "done"
    /\ UNCHANGED <<request, result>>

\* The run is over, or a connection is refused and raises.
Leave ==
    /\ \/ stage = "done"
       \/ stage # "idle" /\ \E w \in Process : Writing(w)
    /\ stage' = "idle"
    /\ request' = NoRequest
    /\ result' = NoResult
    /\ lifecycle' = NoReport
    /\ overtaken' = FALSE
    /\ UNCHANGED vars

Reader ==
    \/ \E r \in Requests : Ask(r)
    \/ ShieldStatuses \/ ShieldHash \/ BlueprintStatuses \/ ReadPatterns
    \/ BlueprintHash \/ ReadSummary \/ ReadLifecycle
    \/ Leave

\* A result that a patch overtakes is dropped from the model, with what it was
\* stamped with: nothing is said of it.
Patcher ==
    /\ Next
    /\ overtaken' = (stage # "idle" /\ (overtaken \/ \E w \in Process : Writing(w)'))
    /\ result' = IF overtaken' THEN NoResult ELSE result
    /\ UNCHANGED <<stage, request, lifecycle>>

ReaderNext == Patcher \/ Reader

ReaderSpec == ReaderInit /\ [][ReaderNext]_allVars

-----------------------------------------------------------------------------
(***************************************************************************)
(* Properties.                                                             *)
(***************************************************************************)
ReaderTypeOK ==
    /\ stage \in {"idle", "shield_statuses", "shield_hash", "blueprint_statuses",
                  "patterns", "blueprint_hash", "summary",
                  "lifecycle", "done"}
    /\ request \in Requests \cup {NoRequest}
    /\ DOMAIN result = DOMAIN NoResult
    /\ result.enabled \cup result.skipped \subseteq Domain
    /\ lifecycle.tag \in Tag \cup {"unknown"}
    /\ overtaken \in BOOLEAN

\* The hash a result is stamped with tells which domains it was computed with,
\* though the two are read over different connections: unless a patch connected
\* between them, the domains enabled are those asked for that are active in the
\* Atlas hashed, even in an Atlas a dead process left half patched, whose
\* manifest records other domains (validate_run_manifest,
\* generate_step_zero_blueprint).
HashTellsTheDomains ==
    result.hash # NoHash =>
        \A d \in Wanted(request) :
            d \in result.enabled <=> d \in result.hash.runtime.active

\* The version the freshness check reports is that of the last patch applied as
\* a whole, and "unknown" only where one was cut since: a reader never takes a
\* patch under way, or one that died, for applied (evaluate_atlas_lifecycle).
LifecycleIsOfAWholePatch ==
    stage = "done" /\ ~overtaken =>
        \/ lifecycle.tag = base.tag
        \/ lifecycle.tag = "unknown" /\ attempted # {}

-----------------------------------------------------------------------------
(***************************************************************************)
(* The strengthening HashTellsTheDomains and LifecycleIsOfAWholePatch need *)
(* to be inductive: between the reads nobody has written unless the run    *)
(* was overtaken.                                                          *)
(***************************************************************************)

\* No run is under way.
NothingYet == stage = "idle" => result = NoResult

\* The run has chosen its domains and not yet stamped them with a hash.
Chosen == stage \in {"shield_hash", "patterns", "blueprint_hash"}

\* What was chosen is still what the Atlas says.
ChoiceIsOfTheAtlas ==
    Chosen /\ ~overtaken =>
        /\ \A w \in Process : ~Writing(w)
        /\ result.enabled = {d \in Wanted(request) : IsActive(d)}

\* Nobody writes while a report that was not overtaken stands.
ReportIsOfTheAtlas ==
    stage = "done" /\ ~overtaken => \A w \in Process : ~Writing(w)

ReaderInvariant ==
    /\ ReaderTypeOK /\ NothingYet
    /\ Wanted(request) \subseteq Domain
    /\ ChoiceIsOfTheAtlas
    /\ HashTellsTheDomains
    /\ ReportIsOfTheAtlas
    /\ LifecycleIsOfAWholePatch
=============================================================================
