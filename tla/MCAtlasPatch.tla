---------------------------- MODULE MCAtlasPatch ----------------------------
(* Two records, two domains, and patches that overlap. *)
EXTENDS AtlasReaders, TLC

CONSTANTS w1, w2, r1, r2, d1, d2, seed, c1, c2

TwoProcesses == {w1, w2}
ProcessesAlike == Permutations(TwoProcesses)
TwoRecords == {r1, r2}
TwoDomains == {d1, d2}
FirstDomain == {d1}
Contents == {seed, c1, c2}
\* c1 is a later version of seed, c2 has another source.
Sources == [c \in Contents |-> IF c = c2 THEN c2 ELSE seed]
Seeds == [r \in TwoRecords |-> seed]
Versions == {"v1", "v2", "v3"}

Upsert(r, c) == [kind |-> "upsert", record |-> r, content |-> c]
Set(d, s) == [kind |-> "status", domain |-> d, status |-> s]

\* From v1: a record, twice, and the other domain switched on.
Update ==
    [target |-> "v1", tag |-> "v2",
     steps |-> <<Upsert(r1, c1), Set(d2, "active"), Upsert(r1, c2)>>]
\* From any version: the domain that was built switched off, and the record again.
Hotfix ==
    [target |-> AnyTarget, tag |-> "v3", steps |-> <<Set(d1, "registered"), Upsert(r1, c1)>>]
\* From v2: a member that does not load follows a status.
Defective ==
    [target |-> "v2", tag |-> "v3",
     steps |-> <<Set(d2, "registered"), [kind |-> "bad_member"]>>]

ThreePatches == {Update, Hotfix, Defective}

Auto == [mode |-> "auto", asked |-> << >>, named |-> <<NoDomain, d2, d1>>, muted |-> FALSE]
Explicit == [mode |-> "explicit", asked |-> <<d1, d2>>, named |-> << >>, muted |-> TRUE]
\* Raises, though no domain is wanted.
CoreOnly == [mode |-> "core_only", asked |-> <<NoDomain>>, named |-> << >>, muted |-> FALSE]
ThreeRequests == {Auto, Explicit, CoreOnly}
AFewDays == {90, 91}
=============================================================================
