-------------------------- MODULE Publishing_proofs --------------------------
(***************************************************************************)
(* Theorems about Publishing, for any commits and any number of runs, of    *)
(* changes of Wikidata, of other pushes and of lost cache entries.         *)
(***************************************************************************)
EXTENDS Publishing, TLAPS

RunType == [commit : 1..Len(Query), stage : Stages, csv : Csvs \cup {None},
            failures : 0..2, tree : Trees \cup {None}]

ActiveRun(r) == r.stage \notin Ended \cup {"pending"}

(* What a run has at each stage: its working tree since the checkout, its   *)
(* CSV since the cache or the query gave one.                               *)
Filled(r) ==
    /\ ActiveRun(r) => r.tree # None
    /\ r.stage \in {"save", "render", "fetch", "push"} => r.csv # None

(* Its CSV is an answer to the query of its commit.                         *)
OwnCsv(r) == r.csv # None => r.csv.query = Query[r.commit] /\ IsAnswer(r.csv)

(* The branch it knows has the report of the real one, and is the real one  *)
(* unless that has moved on.                                                *)
KnowsBranch(r) ==
    ActiveRun(r) =>
        /\ r.tree.revision <= ghpages.revision
        /\ r.tree.revision = ghpages.revision => r.tree = ghpages
        /\ r.tree.report = ghpages.report

(* Nothing is cached while it asks, unless a restore failed; what is cached *)
(* is not newer than its own CSV, and is this CSV afterwards, unless the    *)
(* entry was lost or a restore failed.                                      *)
CachedRun(r) ==
    LET entry == cache[Query[r.commit]]
    IN  /\ r.stage \in {"query", "save"} /\ entry # None => Query[r.commit] \in unrestored
        /\ r.stage = "save" /\ entry # None => entry.labels <= r.csv.labels
        /\ r.stage \in {"render", "fetch", "push"} => AsCached(r.csv)

RunInv(r) == Filled(r) /\ OwnCsv(r) /\ KnowsBranch(r) /\ CachedRun(r)

CacheInv == \A q \in Queries : cache[q] # None => cache[q].query = q /\ IsAnswer(cache[q])

ReportInv ==
    ghpages.report # None =>
        /\ IsAnswer(ghpages.report.csv)
        /\ AsCached(ghpages.report.csv)
        /\ \E c \in 1..head : /\ ghpages.report.renderer = Renderer[c]
                              /\ ghpages.report.csv.query = Query[c]

(* The last run is of the newest commit; once it is through, no run is      *)
(* under way and the report is its own.                                     *)
NewestInv ==
    runs # << >> =>
        /\ runs[Len(runs)].commit = head
        /\ runs[Len(runs)].stage = "ok" =>
              /\ \A n \in DOMAIN runs : ~Active(n)
              /\ ghpages.report # None
              /\ ghpages.report.renderer = Renderer[head]
              /\ ghpages.report.csv.query = Query[head]

IInv ==
    /\ TypeOK
    /\ \A n \in DOMAIN runs : RunInv(runs[n])
    /\ CacheInv /\ ReportInv /\ NewestInv

-----------------------------------------------------------------------------
(* The constants.                                                           *)
LEMMA Commits ==
    /\ Len(Query) \in Nat
    /\ \A c \in 1..Len(Query) : Query[c] \in Queries /\ Renderer[c] \in Renderers
  BY CommitsAssumption DEF Queries, Renderers

LEMMA Nones ==
    None \notin Csvs /\ None \notin Reports /\ None \notin Trees
  BY NoneAssumption

LEMMA Ends ==
    /\ Ended \subseteq Stages
    /\ \A r : ActiveRun(r) <=> r.stage \notin {"cancelled", "failed", "ok", "pending"}
    /\ \A n : Active(n) <=> ActiveRun(runs[n])
  BY DEF Ended, Stages, ActiveRun, Active

LEMMA RunTyped ==
    ASSUME TypeOK, NEW n \in DOMAIN runs
    PROVE  /\ runs \in Seq(RunType) /\ DOMAIN runs = 1..Len(runs)
           /\ runs[n] \in RunType /\ runs[n].commit \in 1..Len(Query)
           /\ runs[n].stage \in Stages /\ runs[n].csv \in Csvs \cup {None}
           /\ runs[n].tree \in Trees \cup {None}
<1>1. runs \in Seq(RunType)
  BY DEF TypeOK, RunType
<1>2. runs[n] \in RunType
  BY <1>1
<1> QED
  BY <1>1, <1>2 DEF RunType

(* Replacing one run.                                                       *)
LEMMA Replaced ==
    ASSUME TypeOK, NEW n \in DOMAIN runs, NEW r \in RunType, runs' = [runs EXCEPT ![n] = r]
    PROVE  /\ runs' \in Seq(RunType) /\ Len(runs') = Len(runs)
           /\ DOMAIN runs' = DOMAIN runs
           /\ \A m \in DOMAIN runs : runs'[m] = IF m = n THEN r ELSE runs[m]
<1>1. runs \in Seq(RunType)
  BY DEF TypeOK, RunType
<1> QED
  BY <1>1

(* One run replaced, nothing else changed.                                  *)
LEMMA OnlyRun ==
    ASSUME IInv, NEW n \in DOMAIN runs, NEW r \in RunType,
           runs' = [runs EXCEPT ![n] = r],
           UNCHANGED <<head, cache, ghpages, wiki, missed, unrestored>>,
           runs[n].stage \notin Ended,
           r.commit = runs[n].commit, r.stage \notin {"pending", "ok"},
           ActiveRun(r) => \A m \in DOMAIN runs : Active(m) => m = n,
           RunInv(r)
    PROVE  IInv'
<1>1. /\ runs' \in Seq(RunType) /\ Len(runs') = Len(runs)
      /\ DOMAIN runs' = DOMAIN runs
      /\ \A m \in DOMAIN runs : runs'[m] = IF m = n THEN r ELSE runs[m]
  BY Replaced DEF IInv
<1>2. TypeOK'
  <2>1. ASSUME NEW m \in DOMAIN runs'
        PROVE  runs'[m].commit <= head' /\ (runs'[m].stage = "pending" => m = Len(runs'))
    BY <1>1 DEF IInv, TypeOK
  <2>2. ASSUME NEW k \in DOMAIN runs', NEW m \in DOMAIN runs', Active(k)', Active(m)'
        PROVE  k = m
    BY <1>1, <2>2 DEF IInv, TypeOK, Active, ActiveRun
  <2> QED
    BY <1>1, <2>1, <2>2 DEF IInv, TypeOK, RunType
<1>3. ASSUME NEW m \in DOMAIN runs' PROVE RunInv(runs[m])'
  <2>1. RunInv(runs'[m])
    BY <1>1 DEF IInv
  <2> QED
    BY <2>1 DEF RunInv, Filled, OwnCsv, KnowsBranch, CachedRun, ActiveRun, IsAnswer, Missed, AsCached
<1>4. CacheInv' /\ ReportInv'
  BY DEF IInv, CacheInv, ReportInv, IsAnswer, Missed, AsCached
<1>5. NewestInv'
  <2>1. runs[Len(runs)].stage # "ok"
    <3>1. CASE Active(n)
      BY <3>1 DEF IInv, NewestInv
    <3>2. CASE runs[n].stage = "pending"
      BY <3>2 DEF IInv, TypeOK
    <3> QED
      BY <3>1, <3>2 DEF Active
  <2> QED
    BY <1>1, <2>1 DEF IInv, NewestInv
<1> QED
  BY <1>2, <1>3, <1>4, <1>5 DEF IInv

-----------------------------------------------------------------------------
LEMMA InitInv == Init => IInv
<1> SUFFICES ASSUME Init PROVE IInv
  OBVIOUS
<1>1. TypeOK
  BY Commits, BoundsAssumption DEF Init, TypeOK, Trees
<1> QED
  BY <1>1 DEF Init, IInv, CacheInv, ReportInv, NewestInv

(* A run that ended is of the type whatever it did.                         *)
LEMMA EndRun ==
    ASSUME TypeOK, NEW n \in DOMAIN runs, NEW how \in Ended, End(n, how)
    PROVE  LET r == [commit |-> runs[n].commit, stage |-> how, csv |-> None,
                     failures |-> 0, tree |-> None]
           IN  r \in RunType /\ runs' = [runs EXCEPT ![n] = r]
<1> DEFINE r == [commit |-> runs[n].commit, stage |-> how, csv |-> None,
                 failures |-> 0, tree |-> None]
<1>1. r \in RunType
  BY RunTyped, Ends DEF RunType
<1>2. [NewRun(runs[n].commit) EXCEPT !.stage = how] = r
  BY DEF NewRun
<1>3. runs' = [runs EXCEPT ![n] = [NewRun(runs[n].commit) EXCEPT !.stage = how]]
  BY DEF End
<1> HIDE DEF r
<1>4. runs' = [runs EXCEPT ![n] = r]
  BY <1>2, <1>3
<1> QED
  BY <1>1, <1>4 DEF r

LEMMA CheckoutInv == ASSUME IInv, NEW n \in DOMAIN runs, Checkout(n) PROVE IInv'
<1> DEFINE r == [runs[n] EXCEPT !.stage = "restore", !.tree = ghpages]
<1>1. runs[n] \in RunType /\ ghpages \in Trees
  <2>1. TypeOK
    BY DEF IInv
  <2> QED
    BY <2>1, RunTyped DEF TypeOK
<1>2. r \in RunType /\ runs' = [runs EXCEPT ![n] = r]
  BY <1>1 DEF RunType, Stages, Checkout
<1>3. r.stage = "restore" /\ r.commit = runs[n].commit /\ r.tree = ghpages /\ r.csv = runs[n].csv
  BY <1>1 DEF RunType
<1>4. RunInv(r)
  BY <1>1, <1>3, Nones
  DEF IInv, RunInv, Filled, OwnCsv, KnowsBranch, CachedRun, Trees
<1>5. runs[n].stage \notin Ended /\ \A m \in DOMAIN runs : ~Active(m)
  BY DEF Checkout, Ended
<1> QED
  BY <1>2, <1>3, <1>4, <1>5, OnlyRun DEF Checkout

(* A step of an active run that goes on.                                    *)
LEMMA GoesOn ==
    ASSUME IInv, NEW n \in DOMAIN runs, NEW r \in RunType,
           runs' = [runs EXCEPT ![n] = r],
           UNCHANGED <<head, cache, ghpages, wiki, missed, unrestored>>,
           Active(n), r.commit = runs[n].commit, r.stage \notin {"pending", "ok"},
           RunInv(r)
    PROVE  IInv'
<1>1. \A m \in DOMAIN runs : Active(m) => m = n
  BY DEF IInv, TypeOK
<1>2. runs[n].stage \notin Ended
  BY DEF Active
<1> QED
  BY <1>1, <1>2, OnlyRun

LEMMA DieInv == ASSUME IInv, NEW n \in DOMAIN runs, Active(n), End(n, "failed"),
                       UNCHANGED <<head, cache, ghpages, wiki, missed, unrestored>>
                PROVE  IInv'
<1> DEFINE r == [commit |-> runs[n].commit, stage |-> "failed", csv |-> None,
                 failures |-> 0, tree |-> None]
<1>1. r \in RunType /\ runs' = [runs EXCEPT ![n] = r]
  BY EndRun DEF IInv, Ended
<1>2. RunInv(r)
  BY Ends DEF RunInv, Filled, OwnCsv, KnowsBranch, CachedRun
<1> QED
  BY <1>1, <1>2, GoesOn

LEMMA RestoreInv == ASSUME IInv, NEW n \in DOMAIN runs, Restore(n) PROVE IInv'
<1> DEFINE hit == cache[Key(n)]
           r == [runs[n] EXCEPT !.stage = IF hit = None THEN "query" ELSE "render",
                                !.csv = hit]
<1>1. runs[n] \in RunType /\ runs[n].stage = "restore" /\ Active(n)
  <2>1. TypeOK /\ runs[n] \in RunType
    BY RunTyped DEF IInv
  <2> QED
    BY <2>1, Ends DEF Active, Ended, Restore
<1>2. Key(n) = Query[runs[n].commit] /\ Key(n) \in Queries /\ hit \in Csvs \cup {None}
  BY <1>1, Commits DEF Key, IInv, TypeOK, RunType
<1>3. r \in RunType /\ runs' = [runs EXCEPT ![n] = r]
  BY <1>1, <1>2 DEF RunType, Stages, Restore
<1>4. /\ r.stage = IF hit = None THEN "query" ELSE "render"
      /\ r.commit = runs[n].commit /\ r.csv = hit /\ r.tree = runs[n].tree
  BY <1>1 DEF RunType
<1>5. RunInv(runs[n])
  BY DEF IInv
<1>6. Filled(r) /\ KnowsBranch(r)
  BY <1>1, <1>4, <1>5 DEF RunInv, Filled, KnowsBranch, ActiveRun, Ended
<1>7. hit # None => hit.query = Key(n) /\ IsAnswer(hit)
  BY <1>2 DEF IInv, CacheInv
<1>9. hit # None => hit.labels \in Nat
  BY <1>2 DEF Csvs
<1>8. OwnCsv(r) /\ CachedRun(r)
  BY <1>2, <1>4, <1>7, <1>9 DEF OwnCsv, CachedRun, AsCached
<1> HIDE DEF r
<1> QED
  BY <1>1, <1>3, <1>4, <1>6, <1>8, GoesOn DEF RunInv, Restore

LEMMA AnsweredInv == ASSUME IInv, NEW n \in DOMAIN runs, Answered(n) PROVE IInv'
<1> DEFINE csv == [query |-> Query[runs[n].commit], labels |-> wiki]
           r == [runs[n] EXCEPT !.stage = "save", !.csv = csv]
<1>1. runs[n] \in RunType /\ runs[n].stage = "query" /\ Active(n)
  <2>1. TypeOK /\ runs[n] \in RunType
    BY RunTyped DEF IInv
  <2> QED
    BY <2>1, Ends DEF Active, Ended, Answered
<1>2. csv \in Csvs /\ IsAnswer(csv) /\ csv.query = Query[runs[n].commit]
  BY <1>1, Commits, BoundsAssumption DEF IInv, TypeOK, RunType, Csvs, IsAnswer
<1>3. r \in RunType /\ runs' = [runs EXCEPT ![n] = r]
  BY <1>1, <1>2 DEF RunType, Stages, Answered
<1>4. r.stage = "save" /\ r.commit = runs[n].commit /\ r.csv = csv /\ r.tree = runs[n].tree
  BY <1>1 DEF RunType
<1>5. RunInv(runs[n])
  BY DEF IInv
<1>7. LET entry == cache[Query[r.commit]]
      IN  entry # None => entry.labels <= csv.labels
  <2>1. Query[r.commit] \in Queries
    BY <1>1, <1>4, Commits DEF RunType
  <2> QED
    BY <1>4, <2>1, BoundsAssumption DEF IInv, TypeOK, CacheInv, IsAnswer
<1> HIDE DEF csv
<1>6. RunInv(r)
  BY <1>1, <1>2, <1>4, <1>5, <1>7, Nones
  DEF RunInv, Filled, KnowsBranch, OwnCsv, CachedRun, ActiveRun, Ended
<1> HIDE DEF r
<1> QED
  BY <1>1, <1>3, <1>4, <1>6, GoesOn DEF Answered

LEMMA QueryFailsInv == ASSUME IInv, NEW n \in DOMAIN runs, QueryFails(n) PROVE IInv'
<1>1. runs[n] \in RunType /\ runs[n].stage = "query" /\ Active(n)
  <2>1. TypeOK /\ runs[n] \in RunType
    BY RunTyped DEF IInv
  <2> QED
    BY <2>1, Ends DEF Active, Ended, QueryFails
<1>2. CASE runs[n].failures = 2
  BY <1>1, <1>2, DieInv DEF QueryFails
<1>3. CASE runs[n].failures # 2
  <2> DEFINE r == [runs[n] EXCEPT !.failures = @ + 1]
  <2>1. r \in RunType /\ runs' = [runs EXCEPT ![n] = r]
    BY <1>1, <1>3 DEF RunType, QueryFails
  <2>2. r.stage = "query" /\ r.commit = runs[n].commit /\ r.csv = runs[n].csv
        /\ r.tree = runs[n].tree
    BY <1>1 DEF RunType
  <2>3. RunInv(r)
    BY <1>1, <2>2 DEF IInv, RunInv, Filled, KnowsBranch, OwnCsv, CachedRun, ActiveRun
  <2> HIDE DEF r
  <2> QED
    BY <1>1, <2>1, <2>2, <2>3, GoesOn DEF QueryFails
<1> QED
  BY <1>2, <1>3

LEMMA RenderInv == ASSUME IInv, NEW n \in DOMAIN runs, Render(n) PROVE IInv'
<1> DEFINE r == [runs[n] EXCEPT !.stage = "fetch"]
<1>1. runs[n] \in RunType /\ runs[n].stage = "render" /\ Active(n)
  <2>1. TypeOK /\ runs[n] \in RunType
    BY RunTyped DEF IInv
  <2> QED
    BY <2>1, Ends DEF Active, Ended, Render, At
<1>2. r \in RunType /\ runs' = [runs EXCEPT ![n] = r]
  BY <1>1 DEF RunType, Stages, Render, At
<1>3. r.stage = "fetch" /\ r.commit = runs[n].commit /\ r.csv = runs[n].csv
      /\ r.tree = runs[n].tree
  BY <1>1 DEF RunType
<1>4. RunInv(r)
  BY <1>1, <1>3 DEF IInv, RunInv, Filled, KnowsBranch, OwnCsv, CachedRun, ActiveRun, Ended
<1> HIDE DEF r
<1> QED
  BY <1>1, <1>2, <1>3, <1>4, GoesOn DEF Render

LEMMA FetchInv == ASSUME IInv, NEW n \in DOMAIN runs, Fetch(n) PROVE IInv'
<1>1. runs[n] \in RunType /\ runs[n].stage = "fetch" /\ Active(n) /\ ghpages \in Trees
  <2>1. TypeOK /\ runs[n] \in RunType
    BY RunTyped DEF IInv
  <2> QED
    BY <2>1, Ends DEF TypeOK, Active, Ended, Fetch
<1>2. RunInv(runs[n])
  BY DEF IInv
<1>3. runs[n].tree \in Trees
  BY <1>1, <1>2 DEF RunInv, Filled, ActiveRun, Active, RunType
<1>4. PICK tree \in {ghpages, runs[n].tree} :
          runs' = [runs EXCEPT ![n].stage = "push", ![n].tree = tree]
  BY DEF Fetch
<1> DEFINE r == [runs[n] EXCEPT !.stage = "push", !.tree = tree]
<1>5. r \in RunType /\ runs' = [runs EXCEPT ![n] = r]
  BY <1>1, <1>3, <1>4 DEF RunType, Stages
<1>6. r.stage = "push" /\ r.commit = runs[n].commit /\ r.csv = runs[n].csv /\ r.tree = tree
  BY <1>1 DEF RunType
<1>7. tree # None
  BY <1>1, <1>3, Nones
<1>8. Filled(r) /\ OwnCsv(r) /\ CachedRun(r)
  BY <1>1, <1>2, <1>6, <1>7 DEF RunInv, Filled, OwnCsv, CachedRun
<1>9. KnowsBranch(r)
  BY <1>1, <1>2, <1>6 DEF RunInv, KnowsBranch, ActiveRun, Ended, Trees
<1> HIDE DEF r
<1> QED
  BY <1>1, <1>5, <1>6, <1>8, <1>9, GoesOn DEF RunInv, Fetch

-----------------------------------------------------------------------------
(* The types after one run has taken a step, whatever else the step does.   *)
LEMMA GoesOnTyped ==
    ASSUME TypeOK, NEW n \in DOMAIN runs, NEW r \in RunType,
           runs' = [runs EXCEPT ![n] = r], head' = head,
           Active(n), r.commit = runs[n].commit, r.stage # "pending",
           cache' \in [Queries -> Csvs \cup {None}], ghpages' \in Trees,
           missed' \in Seq(Queries), unrestored' \subseteq Queries, wiki' = wiki
    PROVE  /\ TypeOK' /\ Len(runs') = Len(runs) /\ DOMAIN runs' = DOMAIN runs
           /\ \A m \in DOMAIN runs : /\ runs'[m] = IF m = n THEN r ELSE runs[m]
                                     /\ m # n => ~ActiveRun(runs[m])
<1>1. /\ runs' \in Seq(RunType) /\ Len(runs') = Len(runs)
      /\ DOMAIN runs' = DOMAIN runs
      /\ \A m \in DOMAIN runs : runs'[m] = IF m = n THEN r ELSE runs[m]
  BY Replaced
<1>2. \A m \in DOMAIN runs : Active(m) => m = n
  BY DEF TypeOK
<1>3. ASSUME NEW m \in DOMAIN runs'
      PROVE  runs'[m].commit <= head' /\ (runs'[m].stage = "pending" => m = Len(runs'))
  BY <1>1 DEF TypeOK
<1>4. ASSUME NEW k \in DOMAIN runs', NEW m \in DOMAIN runs', Active(k)', Active(m)'
      PROVE  k = m
  BY <1>1, <1>2, <1>4 DEF Active
<1>5. TypeOK'
  BY <1>1, <1>3, <1>4 DEF TypeOK, RunType
<1> QED
  BY <1>1, <1>2, <1>5 DEF Active, ActiveRun

(* The other runs are at rest, and a run at rest only has its CSV to        *)
(* answer for.                                                              *)
LEMMA OthersRest ==
    ASSUME NEW n \in DOMAIN runs, NEW r \in RunType,
           \A m \in DOMAIN runs : RunInv(runs[m]),
           DOMAIN runs' = DOMAIN runs, wiki' = wiki,
           \A m \in DOMAIN runs : /\ runs'[m] = IF m = n THEN r ELSE runs[m]
                                  /\ m # n => ~ActiveRun(runs[m]),
           RunInv(r)'
    PROVE  \A m \in DOMAIN runs' : RunInv(runs[m])'
<1> SUFFICES ASSUME NEW m \in DOMAIN runs' PROVE RunInv(runs[m])'
  OBVIOUS
<1>1. CASE m = n
  BY <1>1 DEF RunInv, Filled, OwnCsv, KnowsBranch, CachedRun, ActiveRun, IsAnswer, Missed, AsCached
<1>2. CASE m # n
  <2>1. OwnCsv(runs[m]) /\ runs'[m] = runs[m] /\ ~ActiveRun(runs'[m])
    BY <1>2 DEF RunInv
  <2>2. Filled(runs[m])' /\ KnowsBranch(runs[m])' /\ CachedRun(runs[m])'
    BY <2>1 DEF Filled, KnowsBranch, CachedRun, ActiveRun, Ended
  <2>3. OwnCsv(runs[m])'
    BY <2>1 DEF OwnCsv, IsAnswer
  <2> QED
    BY <2>2, <2>3 DEF RunInv
<1> QED
  BY <1>1, <1>2

(* A key that was missed stays missed.                                      *)
LEMMA Misses ==
    ASSUME missed \in Seq(Queries), NEW q \in Queries, missed' = Append(missed, q)
    PROVE  missed' \in Seq(Queries) /\ \A k : Missed(k)' <=> Missed(k) \/ k = q
<1>1. /\ missed' \in Seq(Queries) /\ Len(missed') = Len(missed) + 1
      /\ missed'[Len(missed) + 1] = q /\ \A i \in 1..Len(missed) : missed'[i] = missed[i]
  OBVIOUS
<1>2. ASSUME NEW k, Missed(k) PROVE Missed(k)'
  BY <1>1, <1>2 DEF Missed
<1>3. Missed(q)'
  BY <1>1 DEF Missed
<1>4. ASSUME NEW k, Missed(k)' PROVE Missed(k) \/ k = q
  <2>1. PICK i \in DOMAIN missed' : missed'[i] = k
    BY <1>4 DEF Missed
  <2>2. i \in 1..Len(missed) \/ i = Len(missed) + 1
    BY <1>1, <2>1
  <2> QED
    BY <1>1, <2>1, <2>2 DEF Missed
<1> QED
  BY <1>1, <1>2, <1>3, <1>4

LEMMA RestoreFailsInv == ASSUME IInv, NEW n \in DOMAIN runs, RestoreFails(n) PROVE IInv'
<1>1. TypeOK /\ runs[n] \in RunType /\ RunInv(runs[n]) /\ runs[n].stage = "restore"
  BY RunTyped DEF IInv, RestoreFails, At
<1>2. PICK r \in RunType : r = [runs[n] EXCEPT !.stage = "query"]
  BY <1>1 DEF RunType, Stages
<1>3. PICK key \in Queries : key = Query[runs[n].commit]
  BY <1>1, Commits, RunTyped
<1>4. r.stage = "query" /\ r.commit = runs[n].commit /\ r.csv = runs[n].csv
      /\ r.tree = runs[n].tree
  BY <1>1, <1>2 DEF RunType
<1>5. /\ Active(n) /\ runs' = [runs EXCEPT ![n] = r]
      /\ UNCHANGED <<head, cache, ghpages, wiki, missed>> /\ unrestored' = unrestored \cup {key}
  BY <1>1, <1>2, <1>3, Ends DEF RestoreFails, At, Key
<1>6. /\ TypeOK' /\ Len(runs') = Len(runs) /\ DOMAIN runs' = DOMAIN runs
      /\ \A m \in DOMAIN runs : /\ runs'[m] = IF m = n THEN r ELSE runs[m]
                                /\ m # n => ~ActiveRun(runs[m])
  BY <1>1, <1>4, <1>5, GoesOnTyped DEF TypeOK
<1>7. RunInv(r)'
  <2>1. Filled(r) /\ KnowsBranch(r) /\ OwnCsv(r)
    BY <1>1, <1>4 DEF RunInv, Filled, KnowsBranch, OwnCsv, ActiveRun, Ended
  <2>2. Filled(r)' /\ KnowsBranch(r)' /\ OwnCsv(r)'
    BY <1>5, <2>1 DEF Filled, KnowsBranch, OwnCsv, IsAnswer
  <2>3. CachedRun(r)'
    BY <1>3, <1>4, <1>5 DEF CachedRun
  <2> QED
    BY <2>2, <2>3 DEF RunInv
<1>8. \A m \in DOMAIN runs' : RunInv(runs[m])'
  BY <1>5, <1>6, <1>7, OthersRest DEF IInv
<1>9. CacheInv'
  BY <1>5 DEF IInv, CacheInv, IsAnswer
<1>10. ReportInv'
  <2>1. AsCached(ghpages.report.csv) => AsCached(ghpages.report.csv)'
    <3>1. \A k : Missed(k)' <=> Missed(k)
      BY <1>5 DEF Missed
    <3> QED
      BY <1>5, <3>1 DEF AsCached
  <2> QED
    BY <1>5, <2>1 DEF IInv, ReportInv, IsAnswer
<1>11. NewestInv'
  <2>1. runs[Len(runs)].stage # "ok"
    BY <1>5 DEF IInv, NewestInv
  <2> QED
    BY <1>1, <1>4, <1>5, <1>6, <2>1, RunTyped DEF IInv, NewestInv
<1> QED
  BY <1>6, <1>8, <1>9, <1>10, <1>11 DEF IInv

LEMMA SaveInv == ASSUME IInv, NEW n \in DOMAIN runs, Save(n) PROVE IInv'
<1>1. TypeOK /\ runs[n] \in RunType /\ RunInv(runs[n]) /\ runs[n].stage = "save"
  BY RunTyped DEF IInv, Save, At
<1>2. PICK r \in RunType : r = [runs[n] EXCEPT !.stage = "render"]
  BY <1>1 DEF RunType, Stages
<1>3. PICK key \in Queries : key = Query[runs[n].commit]
  BY <1>1, Commits, RunTyped
<1>4. r.stage = "render" /\ r.commit = runs[n].commit /\ r.csv = runs[n].csv
      /\ r.tree = runs[n].tree
  BY <1>1, <1>2 DEF RunType
<1>5. Active(n) /\ runs' = [runs EXCEPT ![n] = r] /\ UNCHANGED <<head, ghpages, wiki, missed, unrestored>>
  BY <1>1, <1>2, Ends DEF Save, At
<1>6. /\ r.csv \in Csvs /\ r.csv.query = key /\ IsAnswer(r.csv)
      /\ cache[key] # None => key \in unrestored /\ cache[key].labels <= r.csv.labels
  BY <1>1, <1>3, <1>4, RunTyped DEF RunInv, Filled, OwnCsv, CachedRun
<1>7. cache' = [cache EXCEPT ![key] = IF cache[key] = None THEN r.csv ELSE cache[key]]
  BY <1>1, <1>3, <1>4, <1>6 DEF Save, Key, TypeOK
<1>8. /\ cache' \in [Queries -> Csvs \cup {None}]
      /\ cache'[key] = IF cache[key] = None THEN r.csv ELSE cache[key]
      /\ \A q \in Queries : q # key \/ cache[q] # None => cache'[q] = cache[q]
  BY <1>1, <1>6, <1>7 DEF TypeOK
<1>9. /\ TypeOK' /\ Len(runs') = Len(runs) /\ DOMAIN runs' = DOMAIN runs
      /\ \A m \in DOMAIN runs : /\ runs'[m] = IF m = n THEN r ELSE runs[m]
                                /\ m # n => ~ActiveRun(runs[m])
  BY <1>1, <1>4, <1>5, <1>8, GoesOnTyped DEF TypeOK
<1>10. RunInv(r)'
  <2>1. Filled(r) /\ KnowsBranch(r)
    BY <1>1, <1>4, <1>6, Nones DEF RunInv, Filled, KnowsBranch, ActiveRun, Ended
  <2>2. Filled(r)' /\ KnowsBranch(r)'
    BY <1>5, <2>1 DEF Filled, KnowsBranch
  <2>3. cache'[key] # None /\ cache'[key].labels <= r.csv.labels
        /\ (key \notin unrestored => cache'[key] = r.csv)
    BY <1>6, <1>8, Nones DEF Csvs
  <2>4. OwnCsv(r)' /\ CachedRun(r)'
    BY <1>3, <1>4, <1>5, <1>6, <2>3 DEF OwnCsv, CachedRun, AsCached, IsAnswer
  <2> QED
    BY <2>2, <2>4 DEF RunInv
<1>11. \A m \in DOMAIN runs' : RunInv(runs[m])'
  BY <1>5, <1>9, <1>10, OthersRest DEF IInv
<1>12. CacheInv'
  BY <1>5, <1>6, <1>8 DEF IInv, CacheInv, IsAnswer
<1>13. ReportInv'
  <2>1. ASSUME ghpages.report # None
        PROVE  ghpages.report.csv \in Csvs /\ ghpages.report.csv.query \in Queries
    BY <1>1, <2>1 DEF TypeOK, Trees, Reports, Csvs
  <2>2. ASSUME ghpages.report # None
        PROVE  AsCached(ghpages.report.csv)'
    <3>1. PICK csv \in Csvs : csv = ghpages.report.csv /\ csv.query \in Queries
      BY <2>1, <2>2
    <3>2. AsCached(csv) /\ UNCHANGED <<missed, unrestored>>
      BY <1>5, <2>2, <3>1 DEF IInv, ReportInv
    <3>3. cache[csv.query] # None => cache'[csv.query] = cache[csv.query]
      BY <1>8, <3>1
    <3>4. AsCached(csv)'
      BY <3>2, <3>3 DEF AsCached, Missed
    <3> QED
      BY <1>5, <3>1, <3>4 DEF AsCached, Missed
  <2> QED
    BY <1>5, <2>2 DEF IInv, ReportInv, IsAnswer
<1>14. NewestInv'
  <2>1. runs[Len(runs)].stage # "ok"
    BY <1>5 DEF IInv, NewestInv
  <2>2. Len(runs) \in DOMAIN runs
    BY <1>1, RunTyped DEF TypeOK
  <2> QED
    BY <1>4, <1>5, <1>9, <2>1, <2>2 DEF IInv, NewestInv
<1> QED
  BY <1>9, <1>11, <1>12, <1>13, <1>14 DEF IInv

(* A key that is missed excuses what the cache lost.                        *)
LEMMA SaveFailsInv == ASSUME IInv, NEW n \in DOMAIN runs, SaveFails(n) PROVE IInv'
<1>1. TypeOK /\ runs[n] \in RunType /\ RunInv(runs[n]) /\ runs[n].stage = "save"
  BY RunTyped DEF IInv, SaveFails, At
<1>2. PICK r \in RunType : r = [runs[n] EXCEPT !.stage = "render"]
  BY <1>1 DEF RunType, Stages
<1>3. PICK key \in Queries : key = Query[runs[n].commit]
  BY <1>1, Commits, RunTyped
<1>4. r.stage = "render" /\ r.commit = runs[n].commit /\ r.csv = runs[n].csv
      /\ r.tree = runs[n].tree
  BY <1>1, <1>2 DEF RunType
<1>5. /\ Active(n) /\ runs' = [runs EXCEPT ![n] = r]
      /\ UNCHANGED <<head, cache, ghpages, wiki, unrestored>> /\ missed' = Append(missed, key)
  BY <1>1, <1>2, <1>3, Ends DEF SaveFails, At, Key
<1>6. missed' \in Seq(Queries) /\ \A k : Missed(k)' <=> Missed(k) \/ k = key
  BY <1>1, <1>5, Misses DEF TypeOK
<1>7. /\ TypeOK' /\ Len(runs') = Len(runs) /\ DOMAIN runs' = DOMAIN runs
      /\ \A m \in DOMAIN runs : /\ runs'[m] = IF m = n THEN r ELSE runs[m]
                                /\ m # n => ~ActiveRun(runs[m])
  BY <1>1, <1>4, <1>5, <1>6, GoesOnTyped DEF TypeOK
<1>8. RunInv(r)'
  <2>1. Filled(r) /\ KnowsBranch(r) /\ OwnCsv(r) /\ r.csv.query = key
    BY <1>1, <1>3, <1>4 DEF RunInv, Filled, KnowsBranch, OwnCsv, ActiveRun, Ended
  <2>2. Filled(r)' /\ KnowsBranch(r)' /\ OwnCsv(r)'
    BY <1>5, <2>1 DEF Filled, KnowsBranch, OwnCsv, IsAnswer
  <2>3. CachedRun(r)'
    BY <1>4, <1>6, <2>1 DEF CachedRun, AsCached
  <2> QED
    BY <2>2, <2>3 DEF RunInv
<1>9. \A m \in DOMAIN runs' : RunInv(runs[m])'
  BY <1>5, <1>7, <1>8, OthersRest DEF IInv
<1>10. CacheInv'
  BY <1>5 DEF IInv, CacheInv, IsAnswer
<1>11. ReportInv'
  <2>1. AsCached(ghpages.report.csv) => AsCached(ghpages.report.csv)'
    <3>1. \A k : Missed(k) => Missed(k)'
      BY <1>6
    <3> QED
      BY <1>5, <3>1 DEF AsCached
  <2> QED
    BY <1>5, <2>1 DEF IInv, ReportInv, IsAnswer
<1>12. NewestInv'
  <2>1. runs[Len(runs)].stage # "ok"
    BY <1>5 DEF IInv, NewestInv
  <2> QED
    BY <1>1, <1>4, <1>5, <1>7, <2>1, RunTyped DEF IInv, NewestInv
<1> QED
  BY <1>7, <1>9, <1>10, <1>11, <1>12 DEF IInv

(* The push: the report of the branch stays, or becomes that of the run on  *)
(* top of what the branch holds.                                            *)
LEMMA PublishStep ==
    ASSUME IInv, NEW n \in DOMAIN runs, Publish(n)
    PROVE  /\ Active(n) /\ UNCHANGED <<head, cache, wiki, missed, unrestored>>
           /\ \/ End(n, "failed") /\ UNCHANGED ghpages
              \/ End(n, "ok") /\ UNCHANGED ghpages /\ ghpages.report = Report(n)
              \/ /\ End(n, "ok")
                 /\ ghpages' = [ghpages EXCEPT !.revision = @ + 1, !.report = Report(n)]
<1>1. TypeOK /\ RunInv(runs[n]) /\ runs[n].stage = "push"
  BY DEF IInv, Publish
<1>2. Active(n) /\ KnowsBranch(runs[n])
  BY <1>1, Ends DEF RunInv
<1>3. runs[n].tree.report = ghpages.report
      /\ (runs[n].tree.revision = ghpages.revision => runs[n].tree = ghpages)
  BY <1>1, <1>2, Ends DEF KnowsBranch
<1> QED
  BY <1>2, <1>3 DEF Publish

LEMMA PublishInv == ASSUME IInv, NEW n \in DOMAIN runs, Publish(n) PROVE IInv'
<1>1. TypeOK /\ runs[n] \in RunType /\ RunInv(runs[n]) /\ runs[n].stage = "push"
  BY RunTyped DEF IInv, Publish
<1>2. CASE End(n, "failed") /\ UNCHANGED ghpages
  BY <1>2, DieInv, PublishStep
<1>3. CASE End(n, "ok") /\ ghpages'.report = Report(n) /\ ghpages' \in Trees
  <2>1. PICK r \in RunType : /\ r = [commit |-> runs[n].commit, stage |-> "ok", csv |-> None,
                                     failures |-> 0, tree |-> None]
                             /\ runs' = [runs EXCEPT ![n] = r]
    BY <1>1, <1>3, EndRun DEF Ended
  <2>2. r.stage = "ok" /\ r.commit = runs[n].commit /\ r.csv = None /\ r.tree = None
    BY <2>1
  <2>3. Active(n) /\ UNCHANGED <<head, cache, wiki, missed, unrestored>>
    BY PublishStep
  <2>4. /\ TypeOK' /\ Len(runs') = Len(runs) /\ DOMAIN runs' = DOMAIN runs
        /\ \A m \in DOMAIN runs : /\ runs'[m] = IF m = n THEN r ELSE runs[m]
                                  /\ m # n => ~ActiveRun(runs[m])
    BY <1>1, <1>3, <2>1, <2>2, <2>3, GoesOnTyped DEF TypeOK
  <2>5. RunInv(r)'
    BY <2>2, Ends DEF RunInv, Filled, OwnCsv, KnowsBranch, CachedRun
  <2>6. \A m \in DOMAIN runs' : RunInv(runs[m])'
    BY <2>3, <2>4, <2>5, OthersRest DEF IInv
  <2>7. CacheInv'
    BY <2>3 DEF IInv, CacheInv, IsAnswer
  <2>8. /\ ghpages'.report.renderer = Renderer[runs[n].commit]
        /\ ghpages'.report.csv = runs[n].csv
    BY <1>3 DEF Report
  <2>9. /\ runs[n].csv.query = Query[runs[n].commit] /\ IsAnswer(runs[n].csv)
        /\ AsCached(runs[n].csv)
    BY <1>1 DEF RunInv, Filled, OwnCsv, CachedRun
  <2>10. runs[n].commit \in 1..head
    BY <1>1, RunTyped DEF TypeOK
  <2>11. ReportInv'
    BY <2>3, <2>8, <2>9, <2>10 DEF ReportInv, IsAnswer, Missed, AsCached
  <2>12. NewestInv'
    <3>1. CASE n = Len(runs)
      <4>1. runs[n].commit = head /\ runs # << >>
        BY <1>1, <3>1, RunTyped DEF IInv, NewestInv
      <4>2. \A m \in DOMAIN runs' : ~Active(m)'
        BY <2>2, <2>4 DEF Active, ActiveRun, Ended
      <4>3. ghpages'.report # None
        BY <1>1, <1>3, <2>8, RunTyped, Commits, Nones
        DEF Report, RunInv, Filled, Reports
      <4> QED
        BY <2>2, <2>3, <2>4, <2>8, <2>9, <3>1, <4>1, <4>2, <4>3 DEF NewestInv
    <3>2. CASE n # Len(runs)
      <4>1. runs[Len(runs)].stage # "ok"
        BY <2>3 DEF IInv, NewestInv
      <4> QED
        BY <1>1, <2>3, <2>4, <3>2, <4>1, RunTyped DEF IInv, NewestInv
    <3> QED
      BY <3>1, <3>2
  <2> QED
    BY <2>4, <2>6, <2>7, <2>11, <2>12 DEF IInv
<1>4. Report(n) \in Reports
  BY <1>1, RunTyped, Commits DEF Report, Reports, RunInv, Filled
<1>5. ghpages \in Trees /\ [ghpages EXCEPT !.revision = @ + 1, !.report = Report(n)] \in Trees
  <2>1. ghpages \in Trees
    BY <1>1 DEF TypeOK
  <2>2. ghpages.revision + 1 \in Nat
    BY <2>1 DEF Trees
  <2> QED
    BY <1>4, <2>1, <2>2 DEF Trees
<1>6. CASE ghpages' = [ghpages EXCEPT !.revision = @ + 1, !.report = Report(n)] /\ End(n, "ok")
  <2>1. ghpages'.report = Report(n)
    BY <1>5, <1>6 DEF Trees
  <2> QED
    BY <1>3, <1>5, <1>6, <2>1
<1> QED
  BY <1>2, <1>3, <1>5, <1>6, PublishStep

-----------------------------------------------------------------------------
LEMMA NewRunTyped ==
    ASSUME NEW c \in 1..Len(Query)
    PROVE  NewRun(c) \in RunType
  BY DEF NewRun, RunType, Stages

(* A run is triggered for the newest commit, which may be a new one.        *)
LEMMA TriggerInv ==
    ASSUME IInv, NEW c \in 1..Len(Query), Trigger(c), head' = c, c >= head,
           UNCHANGED <<cache, ghpages, wiki, missed, unrestored>>
    PROVE  IInv'
<1> DEFINE waited == [n \in DOMAIN runs |-> IF runs[n].stage = "pending"
                                              THEN [runs[n] EXCEPT !.stage = "cancelled"]
                                              ELSE runs[n]]
<1>1. TypeOK /\ runs \in Seq(RunType) /\ DOMAIN runs = 1..Len(runs) /\ Len(runs) \in Nat
  BY DEF IInv, TypeOK, RunType
<1>2. ASSUME NEW n \in DOMAIN runs
      PROVE  /\ waited[n] \in RunType /\ waited[n].stage # "pending"
             /\ waited[n].commit = runs[n].commit /\ waited[n].csv = runs[n].csv
             /\ \/ waited[n] = runs[n]
                \/ runs[n].stage = "pending" /\ waited[n].stage = "cancelled"
  <2>1. runs[n] \in RunType
    BY <1>1, RunTyped
  <2>2. CASE runs[n].stage = "pending"
    BY <2>1, <2>2 DEF RunType, Stages
  <2>3. CASE runs[n].stage # "pending"
    BY <2>1, <2>3
  <2> QED
    BY <2>2, <2>3
<1>3. waited \in Seq(RunType) /\ Len(waited) = Len(runs)
  BY <1>1, <1>2
<1>4. PICK new \in RunType : new = NewRun(c)
  BY NewRunTyped
<1>5. new.commit = c /\ new.stage = "pending" /\ new.csv = None
  BY <1>4 DEF NewRun
<1>6. runs' = Append(waited, new)
  BY <1>4 DEF Trigger
<1> HIDE DEF waited
<1>7. /\ runs' \in Seq(RunType) /\ Len(runs') = Len(runs) + 1
      /\ DOMAIN runs' = 1..Len(runs) + 1 /\ runs'[Len(runs) + 1] = new
      /\ \A n \in 1..Len(runs) : runs'[n] = waited[n]
  BY <1>1, <1>3, <1>6
<1>8. \A n \in DOMAIN runs' : /\ n = Len(runs) + 1 => runs'[n] = new
                              /\ n # Len(runs) + 1 => n \in DOMAIN runs /\ runs'[n] = waited[n]
  BY <1>1, <1>7
<1>9. ASSUME NEW n \in DOMAIN runs', ActiveRun(runs'[n])
      PROVE  n \in DOMAIN runs /\ runs'[n] = runs[n]
  BY <1>2, <1>5, <1>8, <1>9, Ends
<1>10. TypeOK'
  <2>1. ASSUME NEW n \in DOMAIN runs'
        PROVE  runs'[n].commit <= head' /\ (runs'[n].stage = "pending" => n = Len(runs'))
    <3>1. n \in DOMAIN runs => runs[n].commit <= head /\ runs[n].commit \in Nat
      BY <1>1, RunTyped DEF TypeOK
    <3>2. head \in Nat /\ c \in Nat
      BY <1>1, Commits DEF TypeOK
    <3> QED
      BY <1>2, <1>5, <1>7, <1>8, <3>1, <3>2
  <2>2. ASSUME NEW k \in DOMAIN runs', NEW m \in DOMAIN runs', Active(k)', Active(m)'
        PROVE  k = m
    <3>1. ActiveRun(runs'[k]) /\ ActiveRun(runs'[m])
      BY <2>2 DEF Active, ActiveRun
    <3>2. Active(k) /\ Active(m) /\ k \in DOMAIN runs /\ m \in DOMAIN runs
      BY <1>9, <3>1, Ends
    <3> QED
      BY <1>1, <3>2 DEF TypeOK
  <2> QED
    BY <1>1, <1>7, <2>1, <2>2 DEF TypeOK, RunType
<1>11. ASSUME NEW n \in DOMAIN runs' PROVE RunInv(runs[n])'
  <2>1. PICK r \in RunType : r = runs'[n]
    BY <1>7
  <2>2. OwnCsv(r)
    BY <1>2, <1>5, <1>8, <2>1 DEF IInv, RunInv, OwnCsv
  <2>3. RunInv(r)
    <3>1. CASE ActiveRun(r)
      BY <1>9, <2>1, <3>1 DEF IInv
    <3>2. CASE ~ActiveRun(r)
      BY <2>2, <3>2, Ends DEF RunInv, Filled, KnowsBranch, CachedRun
    <3> QED
      BY <3>1, <3>2
  <2> QED
    BY <2>1, <2>3 DEF RunInv, Filled, OwnCsv, KnowsBranch, CachedRun, ActiveRun, IsAnswer, Missed, AsCached
<1>12. CacheInv'
  BY DEF IInv, CacheInv, IsAnswer
<1>13. ReportInv'
  <2>1. 1..head \subseteq 1..head'
    BY <1>1, Commits DEF TypeOK
  <2> QED
    BY <2>1 DEF IInv, ReportInv, IsAnswer, Missed, AsCached
<1>14. NewestInv'
  BY <1>5, <1>7 DEF NewestInv
<1> QED
  BY <1>10, <1>11, <1>12, <1>13, <1>14 DEF IInv

LEMMA PushMainInv == ASSUME IInv, PushMain PROVE IInv'
<1>1. head \in 0..Len(Query) /\ Len(Query) \in Nat
  BY Commits DEF IInv, TypeOK
<1>2. head + 1 \in 1..Len(Query) /\ head + 1 >= head
  BY <1>1 DEF PushMain
<1> QED
  BY <1>2, TriggerInv DEF PushMain

LEMMA DispatchInv == ASSUME IInv, Dispatch PROVE IInv'
<1>1. head \in 0..Len(Query) /\ Len(Query) \in Nat
  BY Commits DEF IInv, TypeOK
<1>2. head \in 1..Len(Query) /\ head >= head
  BY <1>1 DEF Dispatch
<1> QED
  BY <1>2, TriggerInv DEF Dispatch

-----------------------------------------------------------------------------
LEMMA OthersPublishInv == ASSUME IInv, OthersPublish PROVE IInv'
<1>1. TypeOK /\ UNCHANGED <<head, runs, cache, wiki, missed, unrestored>>
  BY DEF IInv, OthersPublish
<1>2. /\ ghpages \in Trees /\ ghpages' \in Trees
      /\ ghpages'.report = ghpages.report /\ ghpages'.revision = ghpages.revision + 1
  <2>1. ghpages \in Trees
    BY <1>1 DEF TypeOK
  <2>2. ghpages.revision + 1 \in Nat /\ ghpages.others + 1 \in Nat
    BY <2>1 DEF Trees
  <2> QED
    BY <2>1, <2>2 DEF OthersPublish, Trees
<1>3. TypeOK'
  BY <1>1, <1>2 DEF TypeOK, Active
<1>4. ASSUME NEW n \in DOMAIN runs PROVE RunInv(runs[n])'
  <2>1. PICK r \in RunType : r = runs[n]
    BY <1>1, RunTyped
  <2>2. RunInv(r)
    BY <2>1 DEF IInv
  <2>3. KnowsBranch(r)'
    <3>1. SUFFICES ASSUME ActiveRun(r) PROVE /\ r.tree.revision < ghpages'.revision
                                             /\ r.tree.report = ghpages'.report
                                             /\ r.tree.revision \in Nat
      BY <1>2 DEF KnowsBranch, Trees
    <3>2. r.tree \in Trees
      BY <2>2, <3>1 DEF RunInv, Filled, RunType
    <3>3. r.tree.revision \in Nat /\ ghpages.revision \in Nat
      BY <1>2, <3>2 DEF Trees
    <3> QED
      BY <1>2, <2>2, <3>1, <3>3 DEF RunInv, KnowsBranch
  <2>4. RunInv(r)'
    BY <1>1, <2>2, <2>3 DEF RunInv, Filled, OwnCsv, CachedRun, IsAnswer, Missed, AsCached
  <2> QED
    BY <1>1, <2>1, <2>4 DEF RunInv, Filled, OwnCsv, KnowsBranch, CachedRun
<1>5. CacheInv' /\ ReportInv' /\ NewestInv'
  BY <1>1, <1>2 DEF IInv, CacheInv, ReportInv, NewestInv, IsAnswer, Missed, AsCached, Active
<1> QED
  BY <1>1, <1>3, <1>4, <1>5 DEF IInv

(* Labels only grow in number, so an answer stays one.                      *)
LEMMA LabelsChangeInv == ASSUME IInv, LabelsChange PROVE IInv'
<1>1. /\ TypeOK /\ UNCHANGED <<head, runs, cache, ghpages, missed, unrestored>>
      /\ wiki \in Nat /\ wiki' = wiki + 1 /\ wiki' \in 0..MaxWiki
  BY BoundsAssumption DEF IInv, TypeOK, LabelsChange
<1>2. TypeOK'
  BY <1>1 DEF TypeOK, Active
<1>3. ASSUME NEW csv, IsAnswer(csv) PROVE IsAnswer(csv)'
  BY <1>1, <1>3 DEF IsAnswer
<1>4. ASSUME NEW n \in DOMAIN runs PROVE RunInv(runs[n])'
  <2>1. PICK r \in RunType : r = runs[n]
    BY <1>1, RunTyped
  <2>2. RunInv(r)
    BY <2>1 DEF IInv
  <2>3. RunInv(r)'
    BY <1>1, <2>2 DEF RunInv, Filled, OwnCsv, KnowsBranch, CachedRun, Missed, AsCached, IsAnswer
  <2> QED
    BY <1>1, <2>1, <2>3 DEF RunInv, Filled, OwnCsv, KnowsBranch, CachedRun
<1>5. CacheInv' /\ ReportInv'
  BY <1>1 DEF IInv, CacheInv, ReportInv, IsAnswer, Missed, AsCached
<1>6. NewestInv'
  BY <1>1 DEF IInv, NewestInv, Active
<1> QED
  BY <1>1, <1>2, <1>4, <1>5, <1>6 DEF IInv

LEMMA EvictInv == ASSUME IInv, NEW q \in Queries, Evict(q) PROVE IInv'
<1>1. /\ TypeOK /\ UNCHANGED <<head, runs, ghpages, wiki, unrestored>>
      /\ missed' = Append(missed, q)
      /\ cache' = [cache EXCEPT ![q] = None]
  BY DEF IInv, Evict
<1>2. missed' \in Seq(Queries) /\ \A k : Missed(k)' <=> Missed(k) \/ k = q
  BY <1>1, Misses DEF TypeOK
<1>3. /\ cache' \in [Queries -> Csvs \cup {None}] /\ cache'[q] = None
      /\ \A k \in Queries : k # q => cache'[k] = cache[k]
  BY <1>1 DEF TypeOK
<1>4. TypeOK'
  BY <1>1, <1>2, <1>3 DEF TypeOK, Active
<1>5. ASSUME NEW csv \in Csvs, AsCached(csv)
      PROVE  AsCached(csv)'
  BY <1>1, <1>2, <1>3, <1>5 DEF AsCached, Csvs
<1>6. ASSUME NEW n \in DOMAIN runs PROVE RunInv(runs[n])'
  <2>1. PICK r \in RunType : r = runs[n]
    BY <1>1, RunTyped
  <2>2. RunInv(r)
    BY <2>1 DEF IInv
  <2>3. Query[r.commit] \in Queries
    BY Commits DEF RunType
  <2>4. r.stage \in {"render", "fetch", "push"} => r.csv \in Csvs
    BY <2>2 DEF RunInv, Filled, RunType
  <2>5. ASSUME r.stage \in {"render", "fetch", "push"} PROVE AsCached(r.csv)'
    <3>1. PICK csv \in Csvs : csv = r.csv
      BY <2>4, <2>5
    <3>2. AsCached(csv)'
      BY <1>5, <2>2, <2>5, <3>1 DEF RunInv, CachedRun
    <3> QED
      BY <1>1, <3>1, <3>2 DEF AsCached
  <2>6. CachedRun(r)'
    BY <1>1, <1>3, <2>2, <2>3, <2>5 DEF RunInv, CachedRun
  <2>7. RunInv(r)'
    BY <1>1, <2>2, <2>6 DEF RunInv, Filled, OwnCsv, KnowsBranch, IsAnswer
  <2> QED
    BY <1>1, <2>1, <2>7 DEF RunInv, Filled, OwnCsv, KnowsBranch, CachedRun
<1>7. CacheInv'
  BY <1>1, <1>3 DEF IInv, CacheInv, IsAnswer
<1>8. ReportInv'
  <2>1. SUFFICES ASSUME ghpages.report # None PROVE ReportInv'
    BY <1>1 DEF ReportInv
  <2>2. ghpages.report.csv \in Csvs
    <3>1. ghpages \in Trees
      BY <1>1 DEF TypeOK
    <3> QED
      BY <2>1, <3>1 DEF Trees, Reports
  <2>3. PICK csv \in Csvs : csv = ghpages.report.csv
    BY <2>2
  <2>4. AsCached(csv)'
    BY <1>5, <2>1, <2>3 DEF IInv, ReportInv
  <2>5. AsCached(ghpages.report.csv)'
    BY <1>1, <2>3, <2>4 DEF AsCached
  <2> QED
    BY <1>1, <2>1, <2>5 DEF IInv, ReportInv, IsAnswer
<1>9. NewestInv'
  BY <1>1 DEF IInv, NewestInv, Active
<1> QED
  BY <1>1, <1>4, <1>6, <1>7, <1>8, <1>9 DEF IInv

-----------------------------------------------------------------------------
LEMMA Inductive == Spec => []IInv
<1>1. ASSUME IInv, [Next]_vars PROVE IInv'
  <2>1. CASE UNCHANGED vars
    <3>1. /\ head' = head /\ runs' = runs /\ cache' = cache /\ ghpages' = ghpages
          /\ wiki' = wiki /\ missed' = missed /\ unrestored' = unrestored
      BY <2>1 DEF vars
    <3>2. TypeOK'
      BY <1>1, <3>1 DEF IInv, TypeOK, Active
    <3>3. ASSUME NEW n \in DOMAIN runs' PROVE RunInv(runs[n])'
      BY <1>1, <3>1 DEF IInv, RunInv, Filled, OwnCsv, KnowsBranch, CachedRun, IsAnswer, Missed, AsCached
    <3>4. CacheInv' /\ ReportInv' /\ NewestInv'
      BY <1>1, <3>1 DEF IInv, CacheInv, ReportInv, NewestInv, IsAnswer, Missed, AsCached, Active
    <3> QED
      BY <3>2, <3>3, <3>4 DEF IInv
  <2>2. CASE PushMain \/ Dispatch \/ OthersPublish \/ LabelsChange
    BY <1>1, <2>2, PushMainInv, DispatchInv, OthersPublishInv, LabelsChangeInv
  <2>3. ASSUME NEW q \in Queries, Evict(q) PROVE IInv'
    BY <1>1, <2>3, EvictInv
  <2>4. ASSUME NEW n \in DOMAIN runs,
               \/ Checkout(n) \/ Restore(n) \/ RestoreFails(n) \/ Answered(n) \/ QueryFails(n)
               \/ Save(n) \/ SaveFails(n) \/ Render(n) \/ Fetch(n) \/ Publish(n) \/ Die(n)
        PROVE  IInv'
    <3>1. CASE Die(n)
      BY <1>1, <3>1, DieInv DEF Die
    <3> QED
      BY <1>1, <2>4, <3>1, CheckoutInv, RestoreInv, RestoreFailsInv, AnsweredInv, QueryFailsInv,
         SaveInv, SaveFailsInv, RenderInv, FetchInv, PublishInv
  <2> QED
    BY <1>1, <2>1, <2>2, <2>3, <2>4 DEF Next
<1> QED
  BY <1>1, InitInv, PTL DEF Spec

(* The types hold, a query is made three times at most, and at most one run *)
(* of the group is active and one waits (concurrency, main).                *)
THEOREM Types == Spec => []TypeOK
<1>1. IInv => TypeOK
  BY DEF IInv
<1> QED
  BY <1>1, Inductive, PTL

(* What is cached or published is an answer of Wikidata, whatever attempts  *)
(* failed and wherever runs died (main writes the CSV from an answer only). *)
THEOREM OnlyAnswers == Spec => []AnswersOnly
<1>1. IInv => AnswersOnly
  BY DEF IInv, CacheInv, ReportInv, AnswersOnly
<1> QED
  BY <1>1, Inductive, PTL

(* The renderer and the query of a published report are of one commit, also *)
(* when the CSV was cached by a run of another (the key is the script).     *)
THEOREM OneCommit == Spec => []ReportOfOneCommit
<1>1. IInv => ReportOfOneCommit
  BY DEF IInv, ReportInv, ReportOfOneCommit
<1> QED
  BY <1>1, Inductive, PTL

(* Once the last run succeeded, the newest commit's report is published and *)
(* no earlier run replaces it (concurrency, the order of the queue).        *)
THEOREM Newest == Spec => []NewestPublished
<1>1. IInv => NewestPublished
  BY DEF IInv, NewestInv, NewestPublished
<1> QED
  BY <1>1, Inductive, PTL

(* The CSV of the published report is the cached one until its entry is     *)
(* lost or not saved: a run only queries when it finds no CSV.  Where a     *)
(* restore failed it may be newer than the entry, which stays.              *)
THEOREM CachedLabels == Spec => []ReportAsCached
<1>1. IInv => ReportAsCached
  BY DEF IInv, ReportInv, ReportAsCached, Missed, AsCached
<1> QED
  BY <1>1, Inductive, PTL

(* No publishing of the report takes what others published away, although   *)
(* the push is of a tree fetched earlier, or never fetched again.           *)
THEOREM OthersStay == Spec => OthersKept
<1>1. ASSUME IInv, [Next]_vars PROVE [ghpages'.others >= ghpages.others]_vars
  <2>1. ghpages \in Trees /\ ghpages.others \in Nat
    <3>1. ghpages \in Trees
      BY <1>1 DEF IInv, TypeOK
    <3> QED
      BY <3>1 DEF Trees
  <2>2. CASE ghpages' = ghpages
    BY <2>1, <2>2
  <2>3. CASE OthersPublish
    BY <2>1, <2>3 DEF OthersPublish, Trees
  <2>4. ASSUME NEW n \in DOMAIN runs, Publish(n) PROVE ghpages'.others >= ghpages.others
    <3>1. \/ ghpages' = ghpages
          \/ ghpages' = [ghpages EXCEPT !.revision = @ + 1, !.report = Report(n)]
      BY <1>1, <2>4, PublishStep, Zenon
    <3>2. ghpages'.others = ghpages.others
      BY <2>1, <3>1 DEF Trees
    <3> QED
      BY <2>1, <3>2
  <2>5. CASE ~OthersPublish /\ \A n \in DOMAIN runs : ~Publish(n)
    <3>1. ghpages' = ghpages
      BY <1>1, <2>5 DEF Next, vars, PushMain, Dispatch, LabelsChange, Evict, Checkout, Restore,
         RestoreFails, At, Answered, QueryFails, Save, SaveFails, Render, Fetch, Die
    <3> QED
      BY <2>2, <3>1
  <2> QED
    BY <2>3, <2>4, <2>5
<1> QED
  BY <1>1, Inductive, PTL DEF Spec, OthersKept
=============================================================================
