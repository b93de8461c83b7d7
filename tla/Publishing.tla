------------------------------ MODULE Publishing ------------------------------
(***************************************************************************)
(* Publishing the report of CLDR subdivisions: the runs of its workflow    *)
(* (.github/workflows/cldr-subdivision-wikidata-zh.yml) with the query     *)
(* they make (query_wikidata.js), the cache of its CSV and the gh-pages    *)
(* branch, which other publishers push to as well.                         *)
(*                                                                         *)
(* A commit of main matters by the version of its query script and of its  *)
(* renderer; a report is the version that rendered it and the CSV.         *)
(* Wikidata is a number that grows when its labels change.  GitHub's       *)
(* queue, cache and branches are external.                                 *)
(***************************************************************************)
EXTENDS Naturals, Sequences

CONSTANTS
    Query, Renderer,  \* their versions, for each commit of main in turn
    None,
    MaxRuns, MaxWiki, MaxOthers, MaxMisses   \* bounds

Queries == {Query[c] : c \in DOMAIN Query}
Renderers == {Renderer[c] : c \in DOMAIN Renderer}
Csvs == [query : Queries, labels : Nat]
Reports == [renderer : Renderers, csv : Csvs]
Trees == [revision : Nat, report : Reports \cup {None}, others : Nat]

ASSUME CommitsAssumption ==
    Query \in Seq(Queries) /\ Renderer \in Seq(Renderers) /\ Len(Query) = Len(Renderer)
ASSUME BoundsAssumption == {MaxRuns, MaxWiki, MaxOthers, MaxMisses} \subseteq Nat
ASSUME NoneAssumption == None \notin Csvs \cup Reports \cup Trees

VARIABLES
    head,     \* the newest commit of main
    runs,     \* the runs of the workflow, in the order they were triggered
    cache,    \* the CSV under each key, or None
    ghpages,  \* the branch: its revision, the report, and how often others published
    wiki,
    missed,   \* history: the keys whose entry was evicted or not saved, in turn
    unrestored \* history: the keys that a restore failed for

vars == <<head, runs, cache, ghpages, wiki, missed, unrestored>>

Stages == {"cancelled", "failed", "ok", "pending", "restore", "query", "save", "render", "fetch", "push"}
Ended == {"cancelled", "failed", "ok"}
Active(n) == runs[n].stage \notin Ended \cup {"pending"}

-----------------------------------------------------------------------------
NewRun(c) == [commit |-> c, stage |-> "pending", csv |-> None, failures |-> 0, tree |-> None]

Init ==
    /\ head = 0 /\ runs = << >>
    /\ cache = [q \in Queries |-> None]
    /\ ghpages = [revision |-> 0, report |-> None, others |-> 0]
    /\ wiki = 0 /\ missed = << >> /\ unrestored = {}

(* A run waits while another is active, and replaces the one that waits.    *)
Trigger(c) ==
    /\ Len(runs) < MaxRuns
    /\ runs' = Append([n \in DOMAIN runs |->
                          IF runs[n].stage = "pending"
                            THEN [runs[n] EXCEPT !.stage = "cancelled"] ELSE runs[n]],
                      NewRun(c))

(* A push to main that touches the report, and a workflow_dispatch.         *)
PushMain ==
    /\ head < Len(Query)
    /\ head' = head + 1 /\ Trigger(head')
    /\ UNCHANGED <<cache, ghpages, wiki, missed, unrestored>>

Dispatch ==
    /\ head > 0 /\ Trigger(head)
    /\ UNCHANGED <<head, cache, ghpages, wiki, missed, unrestored>>

-----------------------------------------------------------------------------
(* A run that ends leaves its workspace behind.                             *)
End(n, how) == runs' = [runs EXCEPT ![n] = [NewRun(@.commit) EXCEPT !.stage = how]]

At(n, from, to) == runs[n].stage = from /\ runs' = [runs EXCEPT ![n].stage = to]

Checkout_Parallel(n) ==
    /\ runs[n].stage = "pending"
    /\ runs' = [runs EXCEPT ![n].stage = "restore", ![n].tree = ghpages]
    /\ UNCHANGED <<head, cache, ghpages, wiki, missed, unrestored>>

(* One run of the group at a time; the checkout has every branch, so also   *)
(* gh-pages as it is now.                                                   *)
Checkout(n) ==
    /\ runs[n].stage = "pending" /\ \A m \in DOMAIN runs : ~Active(m)
    /\ runs' = [runs EXCEPT ![n].stage = "restore", ![n].tree = ghpages]
    /\ UNCHANGED <<head, cache, ghpages, wiki, missed, unrestored>>

Key_Constant(n) == Query[1]

(* The key of the CSV: a hash of the query script.                          *)
Key(n) == Query[runs[n].commit]

Restore_Never(n) ==
    /\ At(n, "restore", "query")
    /\ UNCHANGED <<head, cache, ghpages, wiki, missed, unrestored>>

(* Restore the cached CSV; only without one the query is made and its CSV   *)
(* saved, ...                                                               *)
Restore(n) ==
    /\ runs[n].stage = "restore"
    /\ runs' = [runs EXCEPT ![n].stage = IF cache[Key(n)] = None THEN "query" ELSE "render",
                            ![n].csv = cache[Key(n)]]
    /\ UNCHANGED <<head, cache, ghpages, wiki, missed, unrestored>>

(* ... and where restoring fails: that is a warning and no hit, whatever is *)
(* cached.                                                                  *)
RestoreFails(n) ==
    /\ At(n, "restore", "query")
    /\ unrestored' = unrestored \cup {Key(n)}
    /\ UNCHANGED <<head, cache, ghpages, wiki, missed>>

(* queryWikidata answers in time, and main writes the CSV, ...              *)
Answered(n) ==
    /\ runs[n].stage = "query"
    /\ runs' = [runs EXCEPT ![n].stage = "save",
                            ![n].csv = [query |-> Query[runs[n].commit], labels |-> wiki]]
    /\ UNCHANGED <<head, cache, ghpages, wiki, missed, unrestored>>

QueryFails_Empty(n) ==
    /\ runs[n].stage = "query"
    /\ runs' = [runs EXCEPT ![n].failures = @ + 1,
                            ![n].csv = [query |-> Query[runs[n].commit], labels |-> None],
                            ![n].stage = IF runs[n].failures = 2 THEN "save" ELSE "query"]
    /\ UNCHANGED <<head, cache, ghpages, wiki, missed, unrestored>>

QueryFails_OneMore(n) ==
    /\ runs[n].stage = "query"
    /\ IF runs[n].failures = 3 THEN End(n, "failed")
       ELSE runs' = [runs EXCEPT ![n].failures = @ + 1]
    /\ UNCHANGED <<head, cache, ghpages, wiki, missed, unrestored>>

(* ... or fails, and is tried three times; then there is no CSV and no      *)
(* further step.                                                            *)
QueryFails(n) ==
    /\ runs[n].stage = "query"
    /\ IF runs[n].failures = 2 THEN End(n, "failed")
       ELSE runs' = [runs EXCEPT ![n].failures = @ + 1]
    /\ UNCHANGED <<head, cache, ghpages, wiki, missed, unrestored>>

(* An entry of the cache is never replaced: the save is refused, with a     *)
(* warning, when a restore failed that should have found it.                *)
Save(n) ==
    /\ At(n, "save", "render")
    /\ cache' = [cache EXCEPT ![Key(n)] = IF @ = None THEN runs[n].csv ELSE @]
    /\ UNCHANGED <<head, ghpages, wiki, missed, unrestored>>

(* A failed save is a warning, and the run goes on.                         *)
SaveFails(n) ==
    /\ At(n, "save", "render") /\ Len(missed) < MaxMisses
    /\ missed' = Append(missed, Key(n))
    /\ UNCHANGED <<head, cache, ghpages, wiki, unrestored>>

Report(n) == [renderer |-> Renderer[runs[n].commit], csv |-> runs[n].csv]

Render(n) ==
    /\ At(n, "render", "fetch")
    /\ UNCHANGED <<head, cache, ghpages, wiki, missed, unrestored>>

(* git fetch may fail: then the branch is the one of the checkout.          *)
Fetch(n) ==
    /\ runs[n].stage = "fetch"
    /\ \E tree \in {ghpages, runs[n].tree} :
           runs' = [runs EXCEPT ![n].stage = "push", ![n].tree = tree]
    /\ UNCHANGED <<head, cache, ghpages, wiki, missed, unrestored>>

Publish_Force(n) ==
    /\ runs[n].stage = "push" /\ End(n, "ok")
    /\ ghpages' = [runs[n].tree EXCEPT !.revision = ghpages.revision + 1, !.report = Report(n)]
    /\ UNCHANGED <<head, cache, wiki, missed, unrestored>>

(* A commit on the fetched branch, unless the report is the one in it; the  *)
(* push is refused when the branch has moved since.                         *)
Publish(n) ==
    /\ runs[n].stage = "push"
    /\ LET tree == runs[n].tree
           unchanged == tree.report = Report(n)
           pushed == ~unchanged /\ tree.revision = ghpages.revision
       IN  /\ End(n, IF unchanged \/ pushed THEN "ok" ELSE "failed")
           /\ ghpages' = IF pushed THEN [tree EXCEPT !.revision = @ + 1, !.report = Report(n)]
                         ELSE ghpages
    /\ UNCHANGED <<head, cache, wiki, missed, unrestored>>

(* A step fails, the runner is lost, or somebody cancels the run.           *)
Die(n) ==
    /\ Active(n) /\ End(n, "failed")
    /\ UNCHANGED <<head, cache, ghpages, wiki, missed, unrestored>>

-----------------------------------------------------------------------------
OthersPublish ==
    /\ ghpages.others < MaxOthers
    /\ ghpages' = [ghpages EXCEPT !.revision = @ + 1, !.others = @ + 1]
    /\ UNCHANGED <<head, runs, cache, wiki, missed, unrestored>>

LabelsChange ==
    /\ wiki < MaxWiki /\ wiki' = wiki + 1
    /\ UNCHANGED <<head, runs, cache, ghpages, missed, unrestored>>

Evict(q) ==
    /\ cache[q] # None /\ Len(missed) < MaxMisses
    /\ cache' = [cache EXCEPT ![q] = None]
    /\ missed' = Append(missed, q)
    /\ UNCHANGED <<head, runs, ghpages, wiki, unrestored>>

Next ==
    \/ PushMain \/ Dispatch \/ OthersPublish \/ LabelsChange
    \/ \E q \in Queries : Evict(q)
    \/ \E n \in DOMAIN runs :
          \/ Checkout(n) \/ Restore(n) \/ RestoreFails(n) \/ Answered(n) \/ QueryFails(n)
          \/ Save(n) \/ SaveFails(n) \/ Render(n) \/ Fetch(n) \/ Publish(n) \/ Die(n)

Spec == Init /\ [][Next]_vars

-----------------------------------------------------------------------------
(* Types; a query is made three times at most, and at most one run of the   *)
(* group is active and one waits.                                           *)
TypeOK ==
    /\ head \in 0..Len(Query) /\ wiki \in 0..MaxWiki
    /\ cache \in [Queries -> Csvs \cup {None}]
    /\ ghpages \in Trees
    /\ missed \in Seq(Queries) /\ unrestored \subseteq Queries
    /\ runs \in Seq([commit : 1..Len(Query), stage : Stages, csv : Csvs \cup {None},
                     failures : 0..2, tree : Trees \cup {None}])
    /\ \A n \in DOMAIN runs :
          runs[n].commit <= head /\ (runs[n].stage = "pending" => n = Len(runs))
    /\ \A m, n \in DOMAIN runs : Active(m) /\ Active(n) => m = n

(* What is saved, rendered or published is an answer of Wikidata, whatever  *)
(* attempts failed before it and wherever runs died.                        *)
IsAnswer(csv) == csv.labels \in 0..wiki
AnswersOnly ==
    /\ \A q \in Queries : cache[q] # None => IsAnswer(cache[q])
    /\ ghpages.report # None => IsAnswer(ghpages.report.csv)

(* A published report comes from one commit: the CSV is of the query        *)
(* script next to the renderer that rendered it, also when it was cached by *)
(* a run of another commit.                                                 *)
ReportOfOneCommit ==
    ghpages.report # None =>
        \E c \in 1..head : /\ ghpages.report.renderer = Renderer[c]
                           /\ ghpages.report.csv.query = Query[c]

(* When the last run that was triggered succeeded, the report of the newest *)
(* commit is published and stays, however many runs overtook, replaced or   *)
(* outlived each other before.                                              *)
NewestPublished ==
    runs # << >> /\ runs[Len(runs)].stage = "ok" =>
        /\ ghpages.report.renderer = Renderer[head]
        /\ ghpages.report.csv.query = Query[head]

(* Until its entry is evicted or a save fails, the CSV of a published       *)
(* report is in the cache for the next run to find, so that it is published *)
(* again with the same labels.  Only a restore that failed lets other       *)
(* labels out, and newer ones at that: the entry stays as it was, and later *)
(* runs return to it.                                                       *)
Missed(q) == \E i \in DOMAIN missed : missed[i] = q
AsCached(csv) ==
    LET entry == cache[csv.query]
    IN  ~Missed(csv.query) =>
          /\ entry # None /\ entry.labels <= csv.labels
          /\ csv.query \notin unrestored => entry = csv
ReportAsCached == ghpages.report # None => AsCached(ghpages.report.csv)

(* Publishing a report takes nothing of the other publishers away.          *)
OthersKept == [][ghpages'.others >= ghpages.others]_vars
=============================================================================
