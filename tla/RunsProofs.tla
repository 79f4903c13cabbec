----------------------------- MODULE RunsProofs -----------------------------
(* Theorems about what becomes of the runs: the retention of their rows, the *)
(* totals of their output, and the activity that is shown of them, for every *)
(* set of runs or events, retention period, clock, and number of batches,    *)
(* drains, failures and restarts.                                            *)
EXTENDS Retention, RateLedger, Activity, WellFoundedInduction, TLAPS

RetentionSpec == RetentionInit /\ [][RetentionNext]_retentionVars

-----------------------------------------------------------------------------
(* Retention.                                                              *)

RunRows == {NoRun, Active} \cup {EndedAt(d) : d \in Nat} \cup {Absorbed(s) : s \in Kept}

Over(row, now) == row.state = "ended" /\ row.at + Age < now

\* Foreign keys: the ends of an edge, and what a drain has touched, have rows of their own.
EdgesRooted(table, needs) == \A l \in needs : IsOne(table, l[1]) /\ IsOne(table, l[2])
DrainsRooted(table, protected) == \A r \in protected : IsOne(table, r)

\* The rows are what memory has, but for those that may be gone.
RowsFollow(table, memory, now) ==
    \A r \in Kept : table[r] # memory[r] =>
        /\ table[r] = NoRun
        /\ Over(memory[r], now) \/ memory[r].state = "alias"

RetentionTypes ==
    /\ known \in [Kept -> RunRows] /\ rows \in [Kept -> RunRows]
    /\ links \in SUBSET (Kept \X Kept) /\ rowLinks \in SUBSET (Kept \X Kept)
    /\ draining \in SUBSET Kept
    /\ day \in Nat /\ missing \in Kept \cup {"none"}

RetentionInv ==
    /\ RetentionTypes
    /\ EdgesRooted(rows, rowLinks) /\ DrainsRooted(rows, draining)
    /\ Serving => RowsFollow(rows, known, day) /\ links \subseteq rowLinks \cup parted
    /\ ~Serving => LongOver(missing)

LEMMA RowFacts ==
    /\ NoRun \in RunRows /\ Active \in RunRows
    /\ \A d \in Nat : EndedAt(d) \in RunRows
    /\ \A s \in Kept : Absorbed(s) \in RunRows
    /\ \A row \in RunRows :
        /\ row.state \in {"none", "active", "ended", "alias"}
        /\ row.state = "none" => row = NoRun
        /\ row.state = "ended" => row.at \in Nat
        /\ row.state = "alias" => row.at \in Kept
<1>1. NoRun \in RunRows /\ Active \in RunRows
  BY Zenon DEF RunRows
<1>2. \A d \in Nat : EndedAt(d) \in RunRows
  BY Zenon DEF RunRows
<1>3. \A s \in Kept : Absorbed(s) \in RunRows
  BY Zenon DEF RunRows
<1>4. ASSUME NEW row \in RunRows
      PROVE  /\ row.state \in {"none", "active", "ended", "alias"}
             /\ row.state = "none" => row = NoRun
             /\ row.state = "ended" => row.at \in Nat
             /\ row.state = "alias" => row.at \in Kept
  <2>1. \/ row = NoRun \/ row = Active
        \/ (\E d \in Nat : row = EndedAt(d)) \/ (\E s \in Kept : row = Absorbed(s))
    BY Zenon DEF RunRows
  <2>2. CASE row = NoRun
    BY <2>2 DEF NoRun
  <2>3. CASE row = Active
    BY <2>3 DEF Active
  <2>4. ASSUME NEW d \in Nat, row = EndedAt(d)
        PROVE  row.state = "ended" /\ row.at \in Nat
    BY <2>4 DEF EndedAt
  <2>5. ASSUME NEW s \in Kept, row = Absorbed(s)
        PROVE  row.state = "alias" /\ row.at \in Kept
    BY <2>5 DEF Absorbed
  <2> QED BY <2>1, <2>2, <2>3, <2>4, <2>5
<1> QED BY <1>1, <1>2, <1>3, <1>4

\* cleanup_retention: what it deletes is long over, or an alias; every edge it deletes is parted;
\* and it leaves no edge without a row.
LEMMA CleanupSpares ==
    ASSUME NEW table \in [Kept -> RunRows], NEW needs \in SUBSET (Kept \X Kept),
           NEW protected \in SUBSET Kept, NEW cut, NEW now \in Nat,
           EdgesRooted(table, needs), DrainsRooted(table, protected),
           CleanupRetention(table, needs, protected, cut, now)
    PROVE  /\ rows' \in [Kept -> RunRows] /\ rowLinks' \in SUBSET (Kept \X Kept)
           /\ EdgesRooted(rows', rowLinks') /\ DrainsRooted(rows', protected)
           /\ needs \cup cut \subseteq rowLinks' \cup parted'
           /\ \A r \in Kept : rows'[r] # table[r] =>
                 rows'[r] = NoRun /\ (Over(table[r], now) \/ table[r].state = "alias")
<1> DEFINE doomed == Doomed(table, needs, protected, now)
           gone   == doomed \cup {r \in Kept : table[r].state = "alias" /\ table[r].at \in doomed}
<1>1. /\ rows' = [r \in Kept |-> IF r \in gone THEN NoRun ELSE table[r]]
      /\ rowLinks' = {l \in needs : l[1] \notin gone /\ l[2] \notin gone}
      /\ parted' = (cut \ needs) \cup {l \in needs \ rowLinks' : ~Lives(table, l[2])}
  BY Zenon DEF CleanupRetention
<1>2. \A r \in doomed : /\ r \in Kept /\ Over(table[r], now) /\ r \notin protected
                        /\ \A c \in Kept : <<r, c>> \in needs => ~Lives(table, c)
  BY Zenon DEF Doomed, Over
<1>3. \A r \in gone : /\ r \in Kept /\ (Over(table[r], now) \/ table[r].state = "alias")
                      /\ IsOne(table, r) => r \in doomed
  BY <1>2, RowFacts DEF IsOne, Over
<1> HIDE DEF gone, doomed
<1>4. rows' \in [Kept -> RunRows]
  BY <1>1, RowFacts
<1>5. rowLinks' \subseteq needs
  BY <1>1
<1>6. EdgesRooted(rows', rowLinks')
  BY <1>1 DEF EdgesRooted, IsOne
<1>7. DrainsRooted(rows', protected)
  <2> SUFFICES ASSUME NEW r \in protected PROVE IsOne(rows', r)
    BY DEF DrainsRooted
  <2>1. IsOne(table, r) /\ r \in Kept
    BY DEF DrainsRooted
  <2>2. r \notin gone
    BY <1>2, <1>3, <2>1
  <2> QED BY <1>1, <2>1, <2>2 DEF IsOne
<1>8. ASSUME NEW l \in needs, l \notin rowLinks' PROVE ~Lives(table, l[2])
  <2>1. /\ l = <<l[1], l[2]>> /\ l[1] \in Kept /\ l[2] \in Kept
        /\ IsOne(table, l[1]) /\ IsOne(table, l[2])
    BY DEF EdgesRooted
  <2>2. CASE l[1] \in gone
    BY <1>2, <1>3, <2>1, <2>2
  <2>3. CASE l[2] \in gone
    <3>1. Over(table[l[2]], now)
      BY <1>2, <1>3, <2>1, <2>3
    <3> QED BY <3>1 DEF Over, Lives
  <2> QED BY <1>1, <1>8, <2>2, <2>3
<1>9. needs \cup cut \subseteq rowLinks' \cup parted'
  BY <1>1, <1>8
<1>10. \A r \in Kept : rows'[r] # table[r] =>
          rows'[r] = NoRun /\ (Over(table[r], now) \/ table[r].state = "alias")
  BY <1>1, <1>3
<1> QED BY <1>4, <1>5, <1>6, <1>7, <1>9, <1>10

\* A cleanup of a table that follows memory, over edges that hold all of memory's or those parted.
LEMMA CleanupFollows ==
    ASSUME NEW table \in [Kept -> RunRows], NEW needs \in SUBSET (Kept \X Kept),
           NEW protected \in SUBSET Kept, NEW cut, NEW memory \in [Kept -> RunRows],
           NEW edges \in SUBSET (Kept \X Kept), day \in Nat,
           EdgesRooted(table, needs), DrainsRooted(table, protected),
           RowsFollow(table, memory, day), edges \subseteq needs \cup cut,
           CleanupRetention(table, needs, protected, cut, day),
           known' = memory, links' = edges, draining' = protected, day' = day, missing' = "none"
    PROVE  RetentionInv'
<1>1. /\ rows' \in [Kept -> RunRows] /\ rowLinks' \in SUBSET (Kept \X Kept)
      /\ EdgesRooted(rows', rowLinks') /\ DrainsRooted(rows', protected)
      /\ needs \cup cut \subseteq rowLinks' \cup parted'
      /\ \A r \in Kept : rows'[r] # table[r] =>
            rows'[r] = NoRun /\ (Over(table[r], day) \/ table[r].state = "alias")
  BY CleanupSpares
<1>2. RowsFollow(rows', memory, day)
  <2> SUFFICES ASSUME NEW r \in Kept, rows'[r] # memory[r]
               PROVE  rows'[r] = NoRun /\ (Over(memory[r], day) \/ memory[r].state = "alias")
    BY DEF RowsFollow
  <2>1. CASE rows'[r] = table[r]
    BY <2>1 DEF RowsFollow
  <2>2. CASE rows'[r] # table[r] /\ table[r] = memory[r]
    BY <1>1, <2>2
  <2>3. CASE table[r] # memory[r] /\ rows'[r] # table[r]
    BY <1>1, <2>3 DEF RowsFollow
  <2> QED BY <2>1, <2>2, <2>3
<1>3. RetentionTypes'
  BY <1>1 DEF RetentionTypes
<1>4. links' \subseteq rowLinks' \cup parted'
  BY <1>1
<1> QED BY <1>1, <1>2, <1>3, <1>4 DEF RetentionInv, Serving

\* What a batch needs to know of memory: no run it writes or links is an alias.
LEMMA ApplyFollows ==
    ASSUME RetentionInv, Serving, NEW upserted \in SUBSET Kept, NEW a \in Kept, NEW b \in Kept,
           NEW added \in SUBSET {<<a, b>>}, NEW protected \in SUBSET Kept,
           known' \in [Kept -> RunRows],
           \A r \in Kept : known'[r] # known[r] => r \in upserted,
           \A r \in upserted : IsOne(known', r),
           added # {} => known'[a].state \notin {"none", "alias"} /\ known'[b].state \notin {"none", "alias"},
           protected \subseteq draining \cup upserted,
           links' \in SUBSET (Kept \X Kept), links' \subseteq links \cup added,
           Apply(upserted, added, protected)
    PROVE  RetentionInv'
<1> DEFINE table  == [r \in Kept |-> IF r \in upserted THEN known'[r] ELSE rows[r]]
           absent == {r \in Kept : table[r].state = "none" /\ \E l \in added : r \in {l[1], l[2]}}
<1>1. /\ day' = day
      /\ \/ /\ absent = {} /\ draining' = protected /\ missing' = missing
            /\ CleanupRetention(table, rowLinks \cup added, protected, parted, day)
         \/ /\ absent # {} /\ missing' \in absent
            /\ rows' = rows /\ rowLinks' = rowLinks /\ draining' = draining /\ parted' = parted
  BY Zenon DEF Apply
<1>2. /\ RetentionTypes /\ EdgesRooted(rows, rowLinks) /\ DrainsRooted(rows, draining)
      /\ RowsFollow(rows, known, day) /\ links \subseteq rowLinks \cup parted
  BY DEF RetentionInv
<1>3. table \in [Kept -> RunRows]
  BY <1>2 DEF RetentionTypes
<1>4. \A r \in Kept : IsOne(rows, r) => IsOne(table, r)
  BY DEF IsOne
<1>5. RowsFollow(table, known', day)
  BY <1>2 DEF RowsFollow
<1>6. DrainsRooted(table, protected)
  BY <1>2, <1>4 DEF DrainsRooted, RetentionTypes, IsOne
<1>7. /\ \A r \in Kept : table[r].state = "none" => r \notin upserted
      /\ \A r \in Kept : table[r] # known'[r] => table[r] = NoRun
  BY <1>5 DEF IsOne, RowsFollow
<1> HIDE DEF table
<1>8. CASE absent = {}
  <2>1. EdgesRooted(table, rowLinks \cup added)
    <3> SUFFICES ASSUME NEW l \in rowLinks \cup added
                 PROVE  IsOne(table, l[1]) /\ IsOne(table, l[2])
      BY DEF EdgesRooted
    <3>1. CASE l \in rowLinks
      BY <3>1, <1>2, <1>4 DEF EdgesRooted, RetentionTypes
    <3>2. CASE l \in added
      <4>1. l[1] = a /\ l[2] = b /\ table[a].state # "none" /\ table[b].state # "none"
        BY <3>2, <1>8
      <4>2. table[a] = known'[a] /\ table[b] = known'[b]
        BY <4>1, <1>7 DEF NoRun
      <4>3. table[a] \in RunRows /\ table[b] \in RunRows
        BY <1>3
      <4> QED BY <4>1, <4>2, <4>3, <3>2, RowFacts DEF IsOne
    <3> QED BY <3>1, <3>2
  <2>2. links' \subseteq (rowLinks \cup added) \cup parted
    BY <1>2
  <2>3. rowLinks \cup added \in SUBSET (Kept \X Kept) /\ day \in Nat
    BY <1>2 DEF RetentionTypes
  <2>4. missing' = "none" /\ draining' = protected
    BY <1>1, <1>8 DEF Serving
  <2> QED BY <1>1, <1>3, <1>5, <1>6, <1>8, <2>1, <2>2, <2>3, <2>4, CleanupFollows
<1>9. CASE absent # {}
  <2>1. /\ missing' \in Kept /\ missing' \in {a, b} /\ added # {} /\ table[missing'].state = "none"
    BY <1>1, <1>9
  <2>2. Over(known'[missing'], day)
    <3>1. known'[missing'].state \notin {"none", "alias"}
      BY <2>1
    <3>2. table[missing'] # known'[missing']
      BY <2>1, <3>1
    <3> QED BY <2>1, <3>1, <3>2, <1>5 DEF RowsFollow
  <2>3. LongOver(missing)'
    BY <1>1, <2>2 DEF LongOver, Over
  <2>4. ~Serving'
    BY <2>1, RetentionConstants DEF Serving
  <2>5. RetentionTypes'
    BY <1>1, <1>2, <1>9, <2>1 DEF RetentionTypes
  <2> QED BY <1>1, <1>2, <1>9, <2>3, <2>4, <2>5 DEF RetentionInv
<1> QED BY <1>8, <1>9

LEMMA ObserveSpares ==
    ASSUME RetentionInv, NEW r \in Kept, Observe(r) \/ Finish(r)
    PROVE  RetentionInv'
<1>1. /\ Serving /\ Apply({r}, {}, draining) /\ links' = links
      /\ \/ known' = [known EXCEPT ![r] = Active]
         \/ known' = [known EXCEPT ![r] = EndedAt(day)]
  BY Zenon DEF Observe, Finish
<1>2. known \in [Kept -> RunRows] /\ links \in SUBSET (Kept \X Kept) /\ day \in Nat
      /\ draining \in SUBSET Kept
  BY DEF RetentionInv, RetentionTypes
<1>3. /\ known' \in [Kept -> RunRows] /\ \A x \in Kept : known'[x] # known[x] => x \in {r}
      /\ known'[r] \in {Active, EndedAt(day)}
  BY <1>1, <1>2, RowFacts
<1>4. \A x \in {r} : IsOne(known', x)
  BY <1>3 DEF IsOne, Active, EndedAt
<1> DEFINE added == {}
<1>5. added \in SUBSET {<<r, r>>} /\ added = {} /\ links' \subseteq links \cup added
  BY <1>1
<1> HIDE DEF added
<1>6. Apply({r}, added, draining)
  BY <1>1, <1>5
<1> QED BY <1>1, <1>2, <1>3, <1>4, <1>5, <1>6, ApplyFollows

\* Only new runs are created by an edge.
LEMMA CreatedByLink ==
    ASSUME RetentionInv, NEW new \in SUBSET Kept, \A r \in new : known[r] = NoRun,
           known' = [r \in Kept |-> IF r \in new THEN Active ELSE known[r]]
    PROVE  /\ known' \in [Kept -> RunRows]
           /\ \A r \in Kept : known'[r] # known[r] => r \in new
           /\ \A r \in Kept : known[r].state # "alias" /\ (known[r] = NoRun => r \in new)
                              => IsOne(known', r)
<1>1. known \in [Kept -> RunRows]
  BY DEF RetentionInv, RetentionTypes
<1>2. known' \in [Kept -> RunRows] /\ \A r \in Kept : known'[r] # known[r] => r \in new
  BY <1>1, RowFacts
<1>3. ASSUME NEW r \in Kept, known[r].state # "alias", known[r] = NoRun => r \in new
      PROVE  IsOne(known', r)
  <2>1. CASE r \in new
    BY <2>1 DEF IsOne, Active
  <2>2. CASE r \notin new
    BY <1>1, <1>3, <2>2, RowFacts DEF IsOne
  <2> QED BY <2>1, <2>2
<1> QED BY <1>2, <1>3

LEMMA ControllerLinkSpares ==
    ASSUME RetentionInv, NEW a \in Kept, NEW b \in Kept, ControllerLink(a, b)
    PROVE  RetentionInv'
<1> DEFINE new == {r \in {a, b} : known[r] = NoRun}
           added == {<<a, b>>} \ links
<1>1. PICK touched \in {{}, {b}} : Apply(new \cup touched, added, draining)
  BY Zenon DEF ControllerLink
<1>2. /\ Serving /\ Linkable(a, b) /\ links' = links \cup {<<a, b>>}
      /\ known' = [r \in Kept |-> IF r \in new THEN Active ELSE known[r]]
  BY Zenon DEF ControllerLink
<1>3. new \in SUBSET Kept /\ (\A r \in new : known[r] = NoRun)
      /\ \A r \in {a, b} : r \in Kept /\ known[r].state # "alias" /\ (known[r] = NoRun => r \in new)
  BY <1>2 DEF Linkable
<1>4. added \in SUBSET {<<a, b>>} /\ links' \subseteq links \cup added
  BY <1>2
<1> HIDE DEF added, new
<1>5. /\ known' \in [Kept -> RunRows] /\ \A r \in Kept : known'[r] # known[r] => r \in new
      /\ \A r \in {a, b} : IsOne(known', r)
  BY <1>2, <1>3, CreatedByLink
<1> DEFINE upserted == new \cup touched
<1>6. upserted \in SUBSET Kept /\ \A r \in Kept : known'[r] # known[r] => r \in upserted
  BY <1>3, <1>5
<1>7. \A r \in upserted : IsOne(known', r)
  <2>1. upserted \subseteq {a, b}
    BY DEF new
  <2> QED BY <2>1, <1>5
<1>8. /\ known'[a].state \notin {"none", "alias"} /\ known'[b].state \notin {"none", "alias"}
  BY <1>5 DEF IsOne
<1>9. links' \in SUBSET (Kept \X Kept) /\ draining \in SUBSET Kept
  BY <1>2 DEF RetentionInv, RetentionTypes
<1>10. Apply(upserted, added, draining)
  BY <1>1
<1> HIDE DEF upserted
<1> QED BY <1>2, <1>4, <1>5, <1>6, <1>7, <1>8, <1>9, <1>10, ApplyFollows

LEMMA ProviderLinkSpares ==
    ASSUME RetentionInv, NEW a \in Kept, NEW b \in Kept, NEW historical \in BOOLEAN,
           ProviderLink(a, b, historical)
    PROVE  RetentionInv'
<1> DEFINE new == {r \in {a, b} : known[r] = NoRun}
           added == {<<a, b>>} \ links
           protected == IF historical THEN draining \cup {a, b} ELSE draining
<1>1. Apply({a, b}, added, protected)
  BY Zenon DEF ProviderLink
<1>2. Serving /\ Linkable(a, b) /\ links' = links \cup {<<a, b>>}
  BY Zenon DEF ProviderLink
<1>3. known' = [r \in Kept |-> IF r \in new THEN Active ELSE known[r]]
  <2>1. known' = [r \in Kept |-> IF r \in {a, b} /\ known[r] = NoRun THEN Active ELSE known[r]]
    BY Zenon DEF ProviderLink
  <2> QED BY <2>1
<1>4. new \in SUBSET Kept /\ (\A r \in new : known[r] = NoRun)
      /\ \A r \in {a, b} : r \in Kept /\ known[r].state # "alias" /\ (known[r] = NoRun => r \in new)
  BY <1>2 DEF Linkable
<1>5. added \in SUBSET {<<a, b>>} /\ links' \subseteq links \cup added
  BY <1>2
<1>6. links' \in SUBSET (Kept \X Kept) /\ protected \in SUBSET Kept /\ protected \subseteq draining \cup {a, b}
  BY <1>2 DEF RetentionInv, RetentionTypes
<1>7. new \subseteq {a, b}
  OBVIOUS
<1> HIDE DEF added, new, protected
<1>8. /\ known' \in [Kept -> RunRows] /\ \A r \in Kept : known'[r] # known[r] => r \in {a, b}
      /\ \A r \in {a, b} : IsOne(known', r)
  BY <1>3, <1>4, <1>7, CreatedByLink
<1>9. /\ known'[a].state \notin {"none", "alias"} /\ known'[b].state \notin {"none", "alias"}
  BY <1>8 DEF IsOne
<1> DEFINE upserted == {a, b}
<1>10. upserted \in SUBSET Kept /\ Apply(upserted, added, protected)
       /\ (\A r \in Kept : known'[r] # known[r] => r \in upserted)
       /\ (\A r \in upserted : IsOne(known', r)) /\ protected \subseteq draining \cup upserted
  BY <1>1, <1>6, <1>8
<1> HIDE DEF upserted
<1> QED BY <1>2, <1>5, <1>6, <1>8, <1>9, <1>10, ApplyFollows

\* merge_task_runs: memory and rows fold alike.
LEMMA MergeSpares ==
    ASSUME RetentionInv, NEW s \in Kept, NEW a \in Kept, MergeRuns(s, a)
    PROVE  RetentionInv'
<1> DEFINE moved(r)    == IF r = a THEN s ELSE r
           mapped(set) == {l \in {<<moved(l[1]), moved(l[2])>> : l \in set} : l[1] # l[2]}
           united(x)   == IF known[s].state = "ended" /\ known[a].state = "ended" /\ known[a].at < x.at
                          THEN known[a] ELSE x
           folded(t)   == [r \in Kept |-> IF r = s THEN united(known[s])
                                          ELSE IF r = a \/ t[r] = Absorbed(a) THEN Absorbed(s)
                                          ELSE t[r]]
           survivor    == united(known[s])
           protected   == {moved(r) : r \in draining}
<1>1. /\ Serving /\ s # a /\ IsOne(known, s) /\ IsOne(known, a) /\ day' = day
      /\ \/ /\ known' = folded(known) /\ links' = mapped(links)
            /\ CleanupRetention(folded(rows), mapped(rowLinks), protected, mapped(parted), day)
            /\ draining' = protected /\ missing' = missing
         \/ /\ rows[a] = NoRun /\ missing' = a
            /\ known' = known /\ links' = links /\ rows' = rows /\ rowLinks' = rowLinks
            /\ draining' = draining /\ parted' = parted
  BY Zenon DEF MergeRuns
<1>2. /\ RetentionTypes /\ EdgesRooted(rows, rowLinks) /\ DrainsRooted(rows, draining)
      /\ RowsFollow(rows, known, day) /\ links \subseteq rowLinks \cup parted
  BY <1>1 DEF RetentionInv
<1>3. survivor \in RunRows /\ survivor.state \in {"active", "ended"}
  BY <1>1, <1>2 DEF RetentionTypes, IsOne
<1> HIDE DEF survivor
<1>4. ASSUME NEW t \in [Kept -> RunRows]
      PROVE  /\ folded(t) \in [Kept -> RunRows] /\ folded(t)[s] = survivor
             /\ folded(t)[a] = Absorbed(s)
             /\ \A r \in Kept \ {s, a} : folded(t)[r] = IF t[r] = Absorbed(a) THEN Absorbed(s) ELSE t[r]
  BY <1>1, <1>3, RowFacts DEF survivor
<1>5. CASE rows[a] = NoRun /\ missing' = a /\ UNCHANGED <<known, links, rows, rowLinks, draining, parted>>
  <2>1. Over(known[a], day)
    BY <1>1, <1>2, <1>5 DEF RowsFollow, IsOne, NoRun
  <2>2. ~Serving' /\ LongOver(missing)'
    BY <1>1, <1>5, <2>1, RetentionConstants DEF Serving, LongOver, Over
  <2> QED BY <1>1, <1>2, <1>5, <2>2 DEF RetentionInv, RetentionTypes
<1>6. CASE /\ known' = folded(known) /\ links' = mapped(links)
           /\ CleanupRetention(folded(rows), mapped(rowLinks), protected, mapped(parted), day)
           /\ draining' = protected /\ missing' = missing
  <2> DEFINE memory == folded(known)
             table  == folded(rows)
             needs  == mapped(rowLinks)
             cut    == mapped(parted)
             edges  == mapped(links)
  <2>1. /\ memory \in [Kept -> RunRows] /\ memory[s] = survivor /\ memory[a] = Absorbed(s)
        /\ \A r \in Kept \ {s, a} :
              memory[r] = IF known[r] = Absorbed(a) THEN Absorbed(s) ELSE known[r]
    BY <1>2, <1>4, Zenon DEF RetentionTypes
  <2>2. /\ table \in [Kept -> RunRows] /\ table[s] = survivor /\ table[a] = Absorbed(s)
        /\ \A r \in Kept \ {s, a} :
              table[r] = IF rows[r] = Absorbed(a) THEN Absorbed(s) ELSE rows[r]
    BY <1>2, <1>4, Zenon DEF RetentionTypes
  <2>3. edges \subseteq needs \cup cut
    <3>1. links \subseteq rowLinks \cup parted
      BY <1>2
    <3> QED BY <3>1
  <2>4. /\ needs \in SUBSET (Kept \X Kept) /\ edges \in SUBSET (Kept \X Kept)
        /\ protected \in SUBSET Kept /\ day \in Nat
    BY <1>2 DEF RetentionTypes
  <2>5. \A l \in needs : /\ l[1] = s \/ (l[1] \in Kept \ {a} /\ IsOne(rows, l[1]))
                         /\ l[2] = s \/ (l[2] \in Kept \ {a} /\ IsOne(rows, l[2]))
    BY <1>1, <1>2 DEF EdgesRooted, RetentionTypes
  <2>6. \A r \in protected : r = s \/ (r \in Kept \ {a} /\ IsOne(rows, r))
    BY <1>1, <1>2 DEF DrainsRooted, RetentionTypes
  <2> HIDE DEF memory, table, needs, cut, edges, protected
  <2>7. \A r \in Kept : r = s \/ (r # a /\ IsOne(rows, r)) => IsOne(table, r)
    BY <1>3, <2>2 DEF IsOne, Absorbed
  <2>8. EdgesRooted(table, needs)
    BY <2>4, <2>5, <2>7 DEF EdgesRooted
  <2>9. DrainsRooted(table, protected)
    BY <2>4, <2>6, <2>7 DEF DrainsRooted
  <2>10. RowsFollow(table, memory, day)
    <3> SUFFICES ASSUME NEW r \in Kept, table[r] # memory[r]
                 PROVE  table[r] = NoRun /\ (Over(memory[r], day) \/ memory[r].state = "alias")
      BY DEF RowsFollow
    <3>1. r \in Kept \ {s, a} /\ rows[r] # known[r]
      BY <2>1, <2>2
    <3>2. rows[r] = NoRun /\ (Over(known[r], day) \/ known[r].state = "alias")
      BY <1>2, <3>1 DEF RowsFollow
    <3>3. table[r] = NoRun
      BY <2>2, <3>1, <3>2 DEF NoRun, Absorbed
    <3>4. Over(memory[r], day) \/ memory[r].state = "alias"
      BY <2>1, <3>1, <3>2 DEF Over, Absorbed
    <3> QED BY <3>3, <3>4
  <2>11. CleanupRetention(table, needs, protected, cut, day)
    BY <1>6 DEF table, needs, cut
  <2>12. known' = memory /\ links' = edges /\ draining' = protected /\ missing' = "none"
    BY <1>1, <1>6 DEF memory, edges, Serving
  <2> QED BY <1>1, <2>1, <2>2, <2>3, <2>4, <2>8, <2>9, <2>10, <2>11, <2>12, CleanupFollows
<1> QED BY <1>1, <1>5, <1>6

LEMMA OtherStepsSpare ==
    ASSUME RetentionInv, FinalizeDrain \/ CleanupTick \/ DayPasses \/ UNCHANGED retentionVars
    PROVE  RetentionInv'
<1>1. CASE CleanupTick
  <2>1. /\ Serving /\ known' = known /\ links' = links /\ draining' = draining /\ day' = day
        /\ missing' = missing /\ CleanupRetention(rows, rowLinks, draining, parted, day)
    BY <1>1, Zenon DEF CleanupTick
  <2>2. missing' = "none"
    BY <2>1 DEF Serving
  <2> QED BY <2>1, <2>2, CleanupFollows DEF RetentionInv, RetentionTypes
<1>2. CASE DayPasses
  <2>1. /\ day' = day + 1 /\ known' = known /\ rows' = rows /\ links' = links /\ rowLinks' = rowLinks
        /\ draining' = draining /\ missing' = missing /\ parted' = parted
    BY <1>2, Zenon DEF DayPasses
  <2>2. RetentionTypes /\ day \in Nat
    BY DEF RetentionInv, RetentionTypes
  <2>3. ASSUME NEW row \in RunRows, Over(row, day) PROVE Over(row, day')
    BY <2>1, <2>2, <2>3, RowFacts, RetentionConstants DEF Over
  <2>4. RetentionTypes'
    BY <2>1, <2>2 DEF RetentionTypes
  <2>5. RowsFollow(rows, known, day) => RowsFollow(rows, known, day')
    BY <2>2, <2>3 DEF RowsFollow, RetentionTypes
  <2>6. ~Serving => (LongOver(missing) => LongOver(missing)')
    BY <2>1, <2>2, <2>3 DEF LongOver, Over, Serving, RetentionTypes
  <2> QED BY <2>1, <2>4, <2>5, <2>6 DEF RetentionInv, Serving
<1>3. CASE FinalizeDrain
  BY <1>3 DEF FinalizeDrain, RetentionInv, RetentionTypes, DrainsRooted, Serving, LongOver
<1>4. CASE UNCHANGED retentionVars
  BY <1>4 DEF retentionVars, RetentionInv, RetentionTypes, Serving, LongOver
<1> QED BY <1>1, <1>2, <1>3, <1>4

LEMMA ReopenSpares == ASSUME RetentionInv, Reopen PROVE RetentionInv'
<1>1. /\ CleanupRetention(rows, rowLinks, draining, parted, day)
      /\ known' = rows' /\ links' = rowLinks' /\ missing' = "none"
      /\ draining' = draining /\ day' = day
  BY Zenon DEF Reopen
<1>2. RetentionTypes /\ EdgesRooted(rows, rowLinks) /\ DrainsRooted(rows, draining)
  BY DEF RetentionInv
<1>3. /\ rows' \in [Kept -> RunRows] /\ rowLinks' \in SUBSET (Kept \X Kept)
      /\ EdgesRooted(rows', rowLinks') /\ DrainsRooted(rows', draining)
  BY <1>1, <1>2, CleanupSpares DEF RetentionTypes
<1>4. RowsFollow(rows', known', day')
  BY <1>1 DEF RowsFollow
<1> QED BY <1>1, <1>2, <1>3, <1>4 DEF RetentionInv, RetentionTypes, Serving

LEMMA RetentionStart == RetentionInit => RetentionInv
<1> SUFFICES ASSUME RetentionInit PROVE RetentionInv
  OBVIOUS
<1>1. /\ known = [r \in Kept |-> NoRun] /\ rows = known /\ links = {} /\ rowLinks = {}
      /\ draining = {} /\ day = 1 /\ missing = "none" /\ parted = {}
  BY Zenon DEF RetentionInit
<1>2. known \in [Kept -> RunRows]
  BY <1>1, RowFacts
<1> QED BY <1>1, <1>2 DEF RetentionInv, RetentionTypes, EdgesRooted, DrainsRooted, RowsFollow, Serving

\* Retention takes only what nobody needs (cleanup_retention, apply_v6_batch, merge_task_runs), for
\* every set of runs, period, clock and number of batches.  The rows follow memory but for runs
\* that are long over and aliases; edges and drains have rows at their ends, so the cleanup, which
\* asks only for the direct edge of an active run, cannot take one from under it; and an edge of
\* memory that is not in the database was parted.
THEOREM RetentionTakesTheDead == RetentionSpec => []RetentionSparesTheLiving
<1>1. RetentionInv /\ [RetentionNext]_retentionVars => RetentionInv'
  <2> SUFFICES ASSUME RetentionInv, [RetentionNext]_retentionVars PROVE RetentionInv'
    OBVIOUS
  <2> QED BY ObserveSpares, ControllerLinkSpares, ProviderLinkSpares, MergeSpares, OtherStepsSpare,
             ReopenSpares, Zenon DEF RetentionNext
<1>2. RetentionInv => RetentionSparesTheLiving
  <2> SUFFICES ASSUME RetentionInv PROVE RetentionSparesTheLiving
    OBVIOUS
  <2>1. CASE Serving
    <3>1. \A r \in Kept : rows[r] # known[r] =>
             rows[r] = NoRun /\ (LongOver(r) \/ known[r].state = "alias")
      BY <2>1 DEF RetentionInv, RowsFollow, LongOver, Over
    <3>2. links \subseteq rowLinks \cup parted
      BY <2>1 DEF RetentionInv
    <3>3. \A r \in draining : rows[r] # NoRun
      BY DEF RetentionInv, DrainsRooted, IsOne, NoRun
    <3> QED BY <2>1, <3>1, <3>2, <3>3 DEF RetentionSparesTheLiving
  <2>2. CASE ~Serving
    BY <2>2 DEF RetentionInv, RetentionSparesTheLiving
  <2> QED BY <2>1, <2>2
<1> QED BY RetentionStart, <1>1, <1>2, PTL DEF RetentionSpec

-----------------------------------------------------------------------------
(* The measured output of a run.                                           *)

LedgerSpec == LedgerInit /\ [][LedgerNext]_ledgerVars

Bases == {Nobody, "absorbed", "provisional", "controller"} \cup Logs
Cursors == [baseline : Nat, live : BOOLEAN, key : Bases]

Tables == [key : [RunIds -> Bases], totals : [RunIds -> Nat],
           owner : [Logs -> RunIds \cup {Nobody}]]

LedgerTypes ==
    /\ written \in [Logs -> Nat] /\ consumed \in [Logs -> Nat] /\ frozen \in [Logs -> Nat]
    /\ owner \in [Logs -> RunIds \cup {Nobody}] /\ basis \in [RunIds -> Bases]
    /\ telemetry \in [RunIds -> Nat] /\ totals \in [RunIds -> Nat]
    /\ measured \in [RunIds -> Nat] /\ cursor \in [RunIds -> Cursors]
    /\ watching \in BOOLEAN /\ mergeLost \in BOOLEAN /\ dirty \in SUBSET RunIds
    /\ stored \in Tables

\* A cursor that may be measured from has seen all that was told to its run.
CursorsCurrent ==
    \A r \in RunIds : cursor[r].live => watching /\ cursor[r].baseline = telemetry[r]

\* Neither memory nor the database has more than was measured.
CountedOnce ==
    ~mergeLost => \A r \in RunIds : totals[r] <= measured[r] /\ stored.totals[r] <= measured[r]

\* A run that is not known yet has its total in both, too; only an absorbed one may not.
TotalsStored ==
    \A r \in RunIds : basis[r] # "absorbed" /\ r \notin dirty => stored.totals[r] = totals[r]

LedgerInv == LedgerTypes /\ CursorsCurrent /\ CountedOnce /\ TotalsStored

LEMMA NoCursorIsOne == NoCursor \in Cursors /\ ~NoCursor.live
BY DEF NoCursor, Cursors, Bases

\* What publish adds to the total of a run is what it was told since, and only while it is watched.
LEMMA PublishAdds ==
    ASSUME LedgerInv, NEW r \in RunIds, NEW count \in Nat, NEW key \in Bases, NEW live \in BOOLEAN,
           count >= telemetry[r], Publish(r, count, key, cursor[r], totals[r], live)
    PROVE  /\ totals' \in [RunIds -> Nat] /\ cursor' \in [RunIds -> Cursors]
           /\ dirty' \in SUBSET RunIds /\ dirty \subseteq dirty'
           /\ \A q \in RunIds \ {r} : totals'[q] = totals[q] /\ cursor'[q] = cursor[q]
           /\ totals'[r] # totals[r] => r \in dirty'
           /\ totals'[r] <= totals[r] + (IF live /\ watching THEN count - telemetry[r] ELSE 0)
           /\ cursor'[r].live => watching /\ cursor'[r].baseline = count
<1>1. /\ totals \in [RunIds -> Nat] /\ cursor \in [RunIds -> Cursors] /\ dirty \in SUBSET RunIds
      /\ telemetry \in [RunIds -> Nat] /\ watching \in BOOLEAN
      /\ cursor[r].live => watching /\ cursor[r].baseline = telemetry[r]
  BY DEF LedgerInv, LedgerTypes, CursorsCurrent
<1> DEFINE seen == RateSeen(count, key, cursor[r], totals[r], live)
<1>2. /\ seen.cursor = [baseline |-> count, live |-> live, key |-> key]
      /\ seen.total = IF live /\ cursor[r].live /\ cursor[r].key = key
                         /\ count > cursor[r].baseline
                      THEN totals[r] + count - cursor[r].baseline ELSE totals[r]
  BY DEF RateSeen
<1>3. seen.cursor \in Cursors
  BY <1>2 DEF Cursors
<1>4. seen.total \in Nat /\ seen.total >= totals[r]
  BY <1>1, <1>2 DEF Cursors
<1>5. seen.total <= totals[r] + (IF live /\ watching THEN count - telemetry[r] ELSE 0)
  BY <1>1, <1>2 DEF Cursors
<1>6. CASE watching \/ ~live
  <2>1. /\ cursor' = [cursor EXCEPT ![r] = seen.cursor]
        /\ totals' = [totals EXCEPT ![r] = seen.total]
        /\ dirty' = IF seen.total > totals[r] THEN dirty \cup {r} ELSE dirty
    BY <1>6, Zenon DEF Publish
  <2>2. cursor'[r] = [baseline |-> count, live |-> live, key |-> key] /\ totals'[r] = seen.total
    BY <2>1, <1>1, <1>2
  <2>3. cursor'[r].live = live /\ cursor'[r].baseline = count
    BY <2>2
  <2> HIDE DEF seen
  <2>4. totals' \in [RunIds -> Nat] /\ cursor' \in [RunIds -> Cursors]
    BY <2>1, <1>1, <1>3, <1>4
  <2>5. dirty' \in SUBSET RunIds /\ dirty \subseteq dirty' /\ (totals'[r] # totals[r] => r \in dirty')
    BY <2>1, <2>2, <1>1, <1>4
  <2>6. \A q \in RunIds \ {r} : totals'[q] = totals[q] /\ cursor'[q] = cursor[q]
    BY <2>1, <1>1
  <2> QED BY <2>2, <2>3, <2>4, <2>5, <2>6, <1>5, <1>6
<1>7. CASE ~watching /\ live
  <2>1. /\ cursor' = [cursor EXCEPT ![r] = cursor[r]]
        /\ totals' = [totals EXCEPT ![r] = totals[r]] /\ dirty' = dirty
    BY <1>7, Zenon DEF Publish
  <2>2. cursor' = cursor /\ totals' = totals
    BY <2>1, <1>1
  <2> QED BY <2>1, <2>2, <1>1, <1>7
<1> QED BY <1>6, <1>7, <1>1

\* The rows that go with an event leave the totals alone.
LEMMA PersistKeepsTotals ==
    ASSUME LedgerInv, NEW table, Persist(table), table.totals = stored.totals,
           table \in Tables
    PROVE  /\ stored'.totals = stored.totals
           /\ stored' \in Tables
BY DEF Persist, LedgerInv, LedgerTypes

\* What is published leaves the runs counted once, where what they were told is measured.
LEMMA PublishCounts ==
    ASSUME LedgerInv, NEW r \in RunIds, NEW count \in Nat, NEW key \in Bases, NEW live \in BOOLEAN,
           count >= telemetry[r], Publish(r, count, key, cursor[r], totals[r], live),
           telemetry' \in [RunIds -> Nat], measured' \in [RunIds -> Nat], telemetry'[r] = count,
           measured'[r] = measured[r] + (IF live /\ watching THEN count - telemetry[r] ELSE 0),
           \A q \in RunIds \ {r} : telemetry'[q] = telemetry[q] /\ measured'[q] = measured[q],
           \A q \in RunIds : basis[q] = "absorbed" => basis'[q] = "absorbed",
           watching' = watching, mergeLost' = mergeLost, stored'.totals = stored.totals
    PROVE  /\ totals' \in [RunIds -> Nat] /\ cursor' \in [RunIds -> Cursors]
           /\ dirty' \in SUBSET RunIds
           /\ CursorsCurrent' /\ CountedOnce' /\ TotalsStored'
<1>1. /\ totals' \in [RunIds -> Nat] /\ cursor' \in [RunIds -> Cursors]
      /\ dirty' \in SUBSET RunIds /\ dirty \subseteq dirty'
      /\ \A q \in RunIds \ {r} : totals'[q] = totals[q] /\ cursor'[q] = cursor[q]
      /\ totals'[r] # totals[r] => r \in dirty'
      /\ totals'[r] <= totals[r] + (IF live /\ watching THEN count - telemetry[r] ELSE 0)
      /\ cursor'[r].live => watching /\ cursor'[r].baseline = count
  BY PublishAdds
<1>2. LedgerTypes /\ CursorsCurrent /\ CountedOnce /\ TotalsStored
  BY DEF LedgerInv
<1>3. CursorsCurrent'
  BY <1>1, <1>2 DEF CursorsCurrent
<1>4. CountedOnce'
  <2> SUFFICES ASSUME ~mergeLost, NEW q \in RunIds
               PROVE  totals'[q] <= measured'[q] /\ stored.totals[q] <= measured'[q]
    BY DEF CountedOnce
  <2>1. totals[q] <= measured[q] /\ stored.totals[q] <= measured[q]
    BY <1>2 DEF CountedOnce
  <2>2. /\ totals[q] \in Nat /\ measured[q] \in Nat /\ stored.totals[q] \in Nat
        /\ telemetry[q] \in Nat /\ totals'[q] \in Nat
    BY <1>1, <1>2 DEF LedgerTypes, Tables
  <2>3. CASE q = r
    BY <1>1, <2>1, <2>2, <2>3
  <2>4. CASE q # r
    BY <1>1, <2>1, <2>4
  <2> QED BY <2>3, <2>4
<1>5. TotalsStored'
  BY <1>1, <1>2 DEF TotalsStored
<1> QED BY <1>1, <1>3, <1>4, <1>5

LEMMA ReadTokenCounts == ASSUME LedgerInv, NEW l \in Logs, ReadToken(l) PROVE LedgerInv'
<1>1. LedgerTypes /\ CursorsCurrent /\ CountedOnce /\ TotalsStored
  BY DEF LedgerInv
<1>2. /\ consumed' = [consumed EXCEPT ![l] = @ + 1]
      /\ written' = written /\ frozen' = frozen /\ owner' = owner /\ basis' = basis
      /\ watching' = watching /\ stored' = stored /\ mergeLost' = mergeLost
  BY Zenon DEF ReadToken
<1>3. consumed' \in [Logs -> Nat]
  BY <1>1, <1>2 DEF LedgerTypes
<1>4. CASE owner[l] = Nobody
  <2>1. /\ telemetry' = telemetry /\ cursor' = cursor /\ totals' = totals /\ dirty' = dirty
        /\ measured' = measured
    BY <1>4, Zenon DEF ReadToken
  <2> QED
    BY <1>1, <1>2, <1>3, <2>1 DEF LedgerInv, LedgerTypes, CursorsCurrent, CountedOnce, TotalsStored
<1>5. CASE owner[l] # Nobody
  <2>1. PICK r, live : r = owner[l] /\ live = (consumed[l] >= frozen[l])
    OBVIOUS
  <2>2. r \in RunIds /\ live \in BOOLEAN
    BY <2>1, <1>1, <1>5 DEF LedgerTypes
  <2>3. /\ telemetry' = [telemetry EXCEPT ![r] = @ + 1]
        /\ Publish(r, telemetry'[r], basis[r], cursor[r], totals[r], live)
        /\ measured' = [measured EXCEPT ![r] = IF live /\ watching THEN @ + 1 ELSE @]
    BY <1>5, <2>1, Zenon DEF ReadToken
  <2>4. PICK count : count = telemetry'[r]
    OBVIOUS
  <2>5. /\ telemetry' \in [RunIds -> Nat] /\ measured' \in [RunIds -> Nat]
        /\ count = telemetry[r] + 1 /\ count \in Nat
        /\ measured'[r] = IF live /\ watching THEN measured[r] + 1 ELSE measured[r]
        /\ \A q \in RunIds \ {r} : telemetry'[q] = telemetry[q] /\ measured'[q] = measured[q]
    BY <2>2, <2>3, <2>4, <1>1 DEF LedgerTypes
  <2>6. PICK key : key = basis[r]
    OBVIOUS
  <2>7. key \in Bases /\ Publish(r, count, key, cursor[r], totals[r], live)
    BY <2>2, <2>3, <2>4, <2>6, <1>1 DEF LedgerTypes
  <2>8. measured'[r] = measured[r] + (IF live /\ watching THEN count - telemetry[r] ELSE 0)
    BY <2>2, <2>5, <1>1 DEF LedgerTypes
  <2>9. telemetry'[r] = count /\ count >= telemetry[r]
    BY <2>2, <2>4, <2>5, <1>1 DEF LedgerTypes
  <2>10. /\ totals' \in [RunIds -> Nat] /\ cursor' \in [RunIds -> Cursors] /\ dirty' \in SUBSET RunIds
         /\ CursorsCurrent' /\ CountedOnce' /\ TotalsStored'
    BY <1>2, <2>2, <2>5, <2>7, <2>8, <2>9, PublishCounts
  <2> QED BY <1>1, <1>2, <1>3, <2>5, <2>10 DEF LedgerInv, LedgerTypes
<1> QED BY <1>4, <1>5

LEMMA TouchRunCounts ==
    ASSUME LedgerInv, NEW r \in RunIds, NEW key \in Bases \ {"absorbed"}, TouchRun(r, key)
    PROVE  LedgerInv'
<1>1. LedgerTypes /\ CursorsCurrent /\ CountedOnce /\ TotalsStored
  BY DEF LedgerInv
<1>2. /\ basis[r] = Nobody \/ (RunKnown(r) /\ key = basis[r])
      /\ basis' = [basis EXCEPT ![r] = key]
      /\ Publish(r, telemetry[r], key, cursor[r], totals[r], TRUE)
      /\ Persist([stored EXCEPT !.key[r] = key])
      /\ written' = written /\ consumed' = consumed /\ frozen' = frozen /\ owner' = owner
      /\ telemetry' = telemetry /\ watching' = watching /\ measured' = measured
      /\ mergeLost' = mergeLost
  BY Zenon DEF TouchRun
<1>3. stored'.totals = stored.totals /\ stored' \in Tables
  <2> DEFINE table == [stored EXCEPT !.key[r] = key]
  <2>1. table.totals = stored.totals /\ table \in Tables
    BY <1>1 DEF LedgerTypes, Tables
  <2> HIDE DEF table
  <2> QED BY <1>2, <2>1, PersistKeepsTotals DEF table
<1>4. basis' \in [RunIds -> Bases] /\ \A q \in RunIds : basis[q] = "absorbed" => basis'[q] = "absorbed"
  BY <1>1, <1>2, RateLedgerConstants DEF LedgerTypes, RunKnown
<1>5. /\ totals' \in [RunIds -> Nat] /\ cursor' \in [RunIds -> Cursors] /\ dirty' \in SUBSET RunIds
      /\ CursorsCurrent' /\ CountedOnce' /\ TotalsStored'
  <2>1. PICK count, live : count = telemetry[r] /\ live = TRUE
    OBVIOUS
  <2>2. count \in Nat /\ live \in BOOLEAN /\ count >= telemetry[r] /\ measured[r] \in Nat
    BY <2>1, <1>1 DEF LedgerTypes
  <2>3. /\ telemetry' \in [RunIds -> Nat] /\ measured' \in [RunIds -> Nat] /\ telemetry'[r] = count
        /\ measured'[r] = measured[r] + (IF live /\ watching THEN count - telemetry[r] ELSE 0)
        /\ \A q \in RunIds \ {r} : telemetry'[q] = telemetry[q] /\ measured'[q] = measured[q]
    BY <1>1, <1>2, <2>1, <2>2 DEF LedgerTypes
  <2>4. Publish(r, count, key, cursor[r], totals[r], live)
    BY <1>2, <2>1
  <2> QED BY <1>2, <1>3, <1>4, <2>2, <2>3, <2>4, PublishCounts
<1> QED BY <1>1, <1>2, <1>3, <1>4, <1>5 DEF LedgerInv, LedgerTypes

LEMMA BindLogCounts ==
    ASSUME LedgerInv, NEW l \in Logs, NEW r \in RunIds, BindLog(l, r) PROVE LedgerInv'
<1>1. LedgerTypes /\ CursorsCurrent /\ CountedOnce /\ TotalsStored
  BY DEF LedgerInv
<1>2. /\ RunKnown(r)
      /\ owner' = [owner EXCEPT ![l] = r]
      /\ basis' = [basis EXCEPT ![r] = IF @ = "provisional" THEN l ELSE @]
      /\ telemetry' = [telemetry EXCEPT ![r] = @ + consumed[l]]
      /\ Publish(r, telemetry'[r], basis'[r], cursor[r], totals[r], TRUE)
      /\ measured' = [measured EXCEPT ![r] = IF watching THEN @ + consumed[l] ELSE @]
      /\ Persist([stored EXCEPT !.key[r] = basis'[r], !.owner[l] = r])
      /\ written' = written /\ consumed' = consumed /\ frozen' = frozen /\ watching' = watching
      /\ mergeLost' = mergeLost
  BY Zenon DEF BindLog
<1>3. PICK count, key, live : count = telemetry'[r] /\ key = basis'[r] /\ live = TRUE
  OBVIOUS
<1>4. /\ basis' \in [RunIds -> Bases] /\ key \in Bases /\ owner' \in [Logs -> RunIds \cup {Nobody}]
      /\ \A q \in RunIds : basis[q] = "absorbed" => basis'[q] = "absorbed"
  BY <1>1, <1>2, <1>3 DEF LedgerTypes, RunKnown, Bases
<1>5. stored'.totals = stored.totals /\ stored' \in Tables
  <2> DEFINE table == [stored EXCEPT !.key[r] = key, !.owner[l] = r]
  <2>1. table.totals = stored.totals /\ table \in Tables
    BY <1>1, <1>4 DEF LedgerTypes, Tables
  <2>2. Persist(table)
    BY <1>2, <1>3
  <2> HIDE DEF table
  <2> QED BY <2>1, <2>2, PersistKeepsTotals
<1>6. /\ telemetry' \in [RunIds -> Nat] /\ measured' \in [RunIds -> Nat]
      /\ count = telemetry[r] + consumed[l] /\ count \in Nat /\ count >= telemetry[r]
      /\ measured'[r] = measured[r] + (IF live /\ watching THEN count - telemetry[r] ELSE 0)
      /\ \A q \in RunIds \ {r} : telemetry'[q] = telemetry[q] /\ measured'[q] = measured[q]
  BY <1>1, <1>2, <1>3 DEF LedgerTypes
<1>7. /\ totals' \in [RunIds -> Nat] /\ cursor' \in [RunIds -> Cursors] /\ dirty' \in SUBSET RunIds
      /\ CursorsCurrent' /\ CountedOnce' /\ TotalsStored'
  <2>1. Publish(r, count, key, cursor[r], totals[r], live) /\ telemetry'[r] = count
        /\ live \in BOOLEAN
    BY <1>2, <1>3
  <2> QED BY <1>2, <1>4, <1>5, <1>6, <2>1, PublishCounts
<1> QED BY <1>1, <1>2, <1>4, <1>5, <1>6, <1>7 DEF LedgerInv, LedgerTypes

LEMMA AbsorbRunCounts ==
    ASSUME LedgerInv, NEW s \in RunIds, NEW a \in RunIds, AbsorbRun(s, a) PROVE LedgerInv'
<1>1. LedgerTypes /\ CursorsCurrent /\ CountedOnce /\ TotalsStored
  BY DEF LedgerInv
<1>2. /\ Absorbs(s, a)
      /\ owner' = [l \in Logs |-> IF owner[l] = a THEN s ELSE owner[l]]
      /\ telemetry' = [telemetry EXCEPT ![s] = @ + telemetry[a], ![a] = 0]
      /\ basis' = [basis EXCEPT ![a] = "absorbed"]
      /\ measured' = [measured EXCEPT ![s] = @ + measured[a], ![a] = 0]
      /\ dirty' = (dirty \ {a}) \cup {s}
      /\ written' = written /\ consumed' = consumed /\ frozen' = frozen /\ watching' = watching
  BY Zenon DEF AbsorbRun
<1>3. s # a
  BY <1>2, RateLedgerConstants DEF Absorbs
<1> DEFINE total == totals[s] + totals[a]
           seen == RateSeen(telemetry'[s], basis[s], MergedCursor(s), total, TRUE)
<1>4. /\ totals' = [totals EXCEPT ![s] = IF watching THEN seen.total ELSE total, ![a] = 0]
      /\ cursor' = [cursor EXCEPT ![s] = IF watching THEN seen.cursor ELSE MergedCursor(s),
                                   ![a] = NoCursor]
  BY Zenon DEF AbsorbRun
<1>5. /\ seen.total = total
      /\ seen.cursor = [baseline |-> telemetry'[s], live |-> TRUE, key |-> basis[s]]
  BY NoCursorIsOne DEF RateSeen, MergedCursor
<1> HIDE DEF seen
<1>6. total = totals[s] + totals[a]
  OBVIOUS
<1> HIDE DEF total
<1>7. /\ telemetry' \in [RunIds -> Nat] /\ measured' \in [RunIds -> Nat]
      /\ basis' \in [RunIds -> Bases] /\ owner' \in [Logs -> RunIds \cup {Nobody}]
      /\ dirty' \in SUBSET RunIds
      /\ telemetry'[s] \in Nat /\ total \in Nat
      /\ measured'[s] = measured[s] + measured[a] /\ measured'[a] = 0
      /\ \A q \in RunIds \ {s, a} : telemetry'[q] = telemetry[q] /\ measured'[q] = measured[q]
  BY <1>1, <1>2, <1>3, <1>6 DEF LedgerTypes, Bases
<1>8. /\ seen.cursor \in Cursors /\ seen.cursor.live /\ seen.cursor.baseline = telemetry'[s]
  BY <1>1, <1>5, <1>7 DEF Cursors, LedgerTypes
<1>9. /\ totals' \in [RunIds -> Nat] /\ totals'[s] = total /\ totals'[a] = 0
      /\ \A q \in RunIds \ {s, a} : totals'[q] = totals[q]
  <2>1. totals' = [totals EXCEPT ![s] = total, ![a] = 0]
    BY <1>4, <1>5
  <2> QED BY <1>1, <1>3, <1>7, <2>1 DEF LedgerTypes
<1>10. /\ cursor' \in [RunIds -> Cursors] /\ ~cursor'[a].live
       /\ cursor'[s].live => watching /\ cursor'[s].baseline = telemetry'[s]
       /\ \A q \in RunIds \ {s, a} : cursor'[q] = cursor[q]
  BY <1>1, <1>3, <1>4, <1>8, NoCursorIsOne DEF LedgerTypes, MergedCursor
<1>11. CursorsCurrent'
  <2> SUFFICES ASSUME NEW q \in RunIds, cursor'[q].live
               PROVE  watching /\ cursor'[q].baseline = telemetry'[q]
    BY <1>2 DEF CursorsCurrent
  <2>1. q # a
    BY <1>10, Zenon
  <2>2. CASE q = s
    BY <1>10, <2>2, Zenon
  <2>3. CASE q # s
    <3>1. cursor'[q] = cursor[q] /\ telemetry'[q] = telemetry[q]
      BY <1>7, <1>10, <2>1, <2>3
    <3>2. cursor[q].live => watching /\ cursor[q].baseline = telemetry[q]
      BY <1>1, Zenon DEF CursorsCurrent
    <3> QED BY <3>1, <3>2, Zenon
  <2> QED BY <2>2, <2>3
<1>12. CASE stored' = MergedRows(s, a) /\ mergeLost' = mergeLost
  <2>1. /\ stored' \in Tables
        /\ stored'.totals = [stored.totals EXCEPT ![s] = @ + stored.totals[a], ![a] = 0]
    <3> DEFINE keys == [stored.key EXCEPT ![s] = basis[s], ![a] = "absorbed"]
               sums == [stored.totals EXCEPT ![s] = @ + stored.totals[a], ![a] = 0]
               owners == [l \in Logs |-> IF stored.owner[l] = a THEN s ELSE stored.owner[l]]
    <3>1. keys \in [RunIds -> Bases] /\ sums \in [RunIds -> Nat]
      BY <1>1 DEF LedgerTypes, Tables, Bases
    <3>2. owners \in [Logs -> RunIds \cup {Nobody}]
      BY <1>1 DEF LedgerTypes, Tables
    <3>3. MergedRows(s, a) = [stored EXCEPT !.key = keys, !.totals = sums, !.owner = owners]
      BY DEF MergedRows
    <3>4. stored \in Tables
      BY <1>1 DEF LedgerTypes
    <3> HIDE DEF keys, sums, owners
    <3>5. MergedRows(s, a) \in Tables /\ MergedRows(s, a).totals = sums
      BY <3>1, <3>2, <3>3, <3>4 DEF Tables
    <3> QED BY <1>12, <3>5 DEF sums
  <2>2. /\ stored'.totals[s] = stored.totals[s] + stored.totals[a] /\ stored'.totals[a] = 0
        /\ \A q \in RunIds \ {s, a} : stored'.totals[q] = stored.totals[q]
    BY <2>1, <1>1, <1>3 DEF LedgerTypes, Tables
  <2>3. CountedOnce'
    <3> SUFFICES ASSUME ~mergeLost, NEW q \in RunIds
                 PROVE  totals'[q] <= measured'[q] /\ stored'.totals[q] <= measured'[q]
      BY <1>12 DEF CountedOnce
    <3>1. \A p \in RunIds : totals[p] <= measured[p] /\ stored.totals[p] <= measured[p]
      BY <1>1 DEF CountedOnce
    <3>2. \A p \in RunIds : totals[p] \in Nat /\ measured[p] \in Nat /\ stored.totals[p] \in Nat
      BY <1>1 DEF LedgerTypes, Tables
    <3>3. CASE q = s
      BY <1>6, <1>7, <1>9, <2>2, <3>1, <3>2, <3>3
    <3>4. CASE q = a
      BY <1>7, <1>9, <2>2, <3>4
    <3>5. CASE q \notin {s, a}
      BY <1>7, <1>9, <2>2, <3>1, <3>5
    <3> QED BY <3>3, <3>4, <3>5
  <2>4. TotalsStored'
    BY <1>1, <1>2, <1>9, <2>2 DEF TotalsStored, LedgerTypes
  <2> QED
    BY <1>1, <1>2, <1>7, <1>9, <1>10, <1>11, <1>12, <2>1, <2>3, <2>4 DEF LedgerInv, LedgerTypes
<1>13. CASE stored' = stored /\ mergeLost' = TRUE
  <2>1. TotalsStored'
    BY <1>1, <1>2, <1>9, <1>13 DEF TotalsStored, LedgerTypes
  <2> QED
    BY <1>1, <1>2, <1>7, <1>9, <1>10, <1>11, <1>13, <2>1 DEF LedgerInv, LedgerTypes, CountedOnce
<1> QED BY <1>12, <1>13, Zenon DEF AbsorbRun

LEMMA EpochsCount == ASSUME LedgerInv, BeginRateGap \/ ActivateRateEpoch PROVE LedgerInv'
<1>1. LedgerTypes /\ CursorsCurrent /\ CountedOnce /\ TotalsStored
  BY DEF LedgerInv
<1>2. /\ written' = written /\ consumed' = consumed /\ frozen' = frozen /\ owner' = owner
      /\ basis' = basis /\ telemetry' = telemetry /\ totals' = totals /\ dirty' = dirty
      /\ stored' = stored /\ measured' = measured /\ mergeLost' = mergeLost
  BY DEF BeginRateGap, ActivateRateEpoch
<1>3. watching' \in BOOLEAN /\ cursor' \in [RunIds -> Cursors] /\ CursorsCurrent'
  <2>1. CASE BeginRateGap
    BY <2>1, NoCursorIsOne DEF BeginRateGap, CursorsCurrent
  <2>2. CASE ActivateRateEpoch
    <3>1. PICK live \in SUBSET RunIds :
             cursor' = [r \in RunIds |-> IF r \in live
                          THEN [baseline |-> telemetry[r], live |-> TRUE, key |-> basis[r]]
                          ELSE NoCursor]
      BY <2>2 DEF ActivateRateEpoch
    <3>2. \A r \in RunIds : [baseline |-> telemetry[r], live |-> TRUE, key |-> basis[r]] \in Cursors
      BY <1>1 DEF Cursors, LedgerTypes
    <3> QED BY <1>2, <2>2, <3>1, <3>2, NoCursorIsOne DEF ActivateRateEpoch, CursorsCurrent
  <2> QED BY <2>1, <2>2
<1> QED BY <1>1, <1>2, <1>3 DEF LedgerInv, LedgerTypes, CountedOnce, TotalsStored

LEMMA CheckpointCounts == ASSUME LedgerInv, Checkpoint PROVE LedgerInv'
<1>1. LedgerTypes /\ CursorsCurrent /\ CountedOnce /\ TotalsStored
  BY DEF LedgerInv
<1> DEFINE table == [stored EXCEPT
                        !.key = [r \in RunIds |-> IF r \in dirty THEN basis[r] ELSE @[r]],
                        !.totals = [r \in RunIds |-> IF r \in dirty THEN totals[r] ELSE @[r]]]
<1>2. /\ written' = written /\ consumed' = consumed /\ frozen' = frozen /\ owner' = owner
      /\ basis' = basis /\ telemetry' = telemetry /\ totals' = totals /\ cursor' = cursor
      /\ watching' = watching /\ measured' = measured /\ mergeLost' = mergeLost
      /\ (stored' = table /\ dirty' = {}) \/ (stored' \in {table, stored} /\ dirty' = dirty)
  BY Zenon DEF Checkpoint
<1>3. /\ table \in Tables
      /\ table.totals = [r \in RunIds |-> IF r \in dirty THEN totals[r] ELSE stored.totals[r]]
  BY <1>1 DEF LedgerTypes, Tables
<1> HIDE DEF table
<1>4. \A r \in RunIds : table.totals[r] = IF r \in dirty THEN totals[r] ELSE stored.totals[r]
  BY <1>3
<1>5. CountedOnce' /\ TotalsStored'
  BY <1>1, <1>2, <1>4 DEF CountedOnce, TotalsStored
<1> QED BY <1>1, <1>2, <1>3, <1>5 DEF LedgerInv, LedgerTypes, CursorsCurrent

LEMMA OtherStepsCount ==
    ASSUME LedgerInv,
           RestartLedger \/ (\E l \in Logs : WriteToken(l)) \/ UNCHANGED ledgerVars
    PROVE  LedgerInv'
<1>1. LedgerTypes /\ CursorsCurrent /\ CountedOnce /\ TotalsStored
  BY DEF LedgerInv
<1>2. CASE RestartLedger
  <2>1. /\ consumed' = [l \in Logs |-> 0] /\ frozen' = written /\ written' = written
        /\ owner' = stored.owner /\ totals' = stored.totals /\ basis' = stored.key
        /\ telemetry' = [r \in RunIds |-> 0] /\ cursor' = [r \in RunIds |-> NoCursor]
        /\ watching' = FALSE /\ dirty' = {} /\ stored' = stored /\ measured' = measured
        /\ mergeLost' = mergeLost
    BY <1>2 DEF RestartLedger
  <2>2. LedgerTypes'
    BY <1>1, <2>1, NoCursorIsOne DEF LedgerTypes, Tables
  <2>3. CursorsCurrent' /\ CountedOnce' /\ TotalsStored'
    BY <1>1, <2>1, NoCursorIsOne DEF CursorsCurrent, CountedOnce, TotalsStored
  <2> QED BY <2>2, <2>3 DEF LedgerInv
<1>3. ASSUME NEW l \in Logs, WriteToken(l) PROVE LedgerInv'
  BY <1>1, <1>3 DEF WriteToken, LedgerInv, LedgerTypes, CursorsCurrent, CountedOnce, TotalsStored
<1>4. CASE UNCHANGED ledgerVars
  BY <1>1, <1>4 DEF ledgerVars, LedgerInv, LedgerTypes, CursorsCurrent, CountedOnce, TotalsStored
<1> QED BY <1>2, <1>3, <1>4

LEMMA LedgerStart == LedgerInit => LedgerInv
<1> SUFFICES ASSUME LedgerInit PROVE LedgerInv
  OBVIOUS
<1>1. LedgerTypes
  BY NoCursorIsOne DEF LedgerInit, LedgerTypes, Tables, Bases
<1>2. CursorsCurrent /\ CountedOnce /\ TotalsStored
  BY NoCursorIsOne DEF LedgerInit, CursorsCurrent, CountedOnce, TotalsStored
<1> QED BY <1>1, <1>2 DEF LedgerInv

\* Nothing is measured twice (observe_run_rates_with_activity, merge_rate_totals,
\* persist_rate_checkpoint), for every set of runs and logs and every number of gaps, failures and
\* restarts.  A live cursor is always at the telemetry of its run, so what is added to the total is
\* what the run was just told; and the database, from which a restart takes the totals, has no more
\* of them than memory may have.
THEOREM OutputIsMeasuredOnce == LedgerSpec => []MeasuredOnce
<1>1. LedgerInv /\ [LedgerNext]_ledgerVars => LedgerInv'
  <2> SUFFICES ASSUME LedgerInv, [LedgerNext]_ledgerVars PROVE LedgerInv'
    OBVIOUS
  <2>1. ASSUME NEW r \in RunIds, NEW key \in {"provisional", "controller"} \cup Logs,
               TouchRun(r, key)
        PROVE  LedgerInv'
    BY <2>1, TouchRunCounts, RateLedgerConstants DEF Bases
  <2> QED BY <2>1, ReadTokenCounts, BindLogCounts, AbsorbRunCounts, EpochsCount, CheckpointCounts,
             OtherStepsCount, Zenon DEF LedgerNext
<1>2. LedgerInv => MeasuredOnce
  BY DEF LedgerInv, CountedOnce, TotalsStored, MeasuredOnce, RunKnown
<1> QED BY LedgerStart, <1>1, <1>2, PTL DEF LedgerSpec

-----------------------------------------------------------------------------
(* The activity of the runs.  What a batch or a barrier makes of the database is stated first,   *)
(* as a relation of the rows before and after it; then what the two lists have to do with the    *)
(* rows, and one lemma for each step of the collector.                                           *)
Items == [run : Lineage, label : {"Durable", "CurrentOnly", "DurabilityUnknown"}]
EventRows == UNION {[S -> [run : Lineage, drain : 0 .. MaxDrains]] : S \in SUBSET EventIds}
Ledgers == [rows : EventRows, drains : SUBSET ManifestIds, assoc : SUBSET (ManifestIds \X Lineage),
            completedBy : UNION {[S -> ManifestIds] : S \in SUBSET ManifestIds},
            ready : SUBSET Lineage, image : SUBSET Lineage,
            before : SUBSET (ManifestIds \X EventIds), merged : BOOLEAN]

\* A batch that a collector could submit.
Batch(b) ==
    /\ b.event \in EventIds \cup {NoRecord} /\ b.run \in Lineage /\ b.merge \in BOOLEAN
    /\ b.origin \in {"nothing", "observed", "provider", "history"}
    /\ b.drain \in 0 .. MaxDrains /\ b.image \in SUBSET Lineage
    /\ Historical(b) <=> b.drain # 0
    /\ b.merge => b.run = "kept"

\* The run of a row once b is committed.
Into(b, r) == IF b.merge THEN "kept" ELSE r
Shut(s, d) == d \in DOMAIN s.completedBy
Touches(s, d, r) == <<d, r>> \in s.assoc
OfRun(s, e) == s.rows[e].run
OfDrain(s, e) == s.rows[e].drain
Overdue(s) == {d \in ManifestIds : Open(s, d) /\ \E x \in DOMAIN s.completedBy : d < x}

LedgerSound(s, c) ==
    /\ s \in Ledgers /\ s.drains \subseteq 1 .. c
    /\ DOMAIN s.completedBy \subseteq s.drains
    /\ \A a \in s.assoc : a[1] \in s.drains
    /\ \A x \in s.before : x[2] \in DOMAIN s.rows /\ Touches(s, x[1], OfRun(s, x[2]))
    /\ \A e \in DOMAIN s.rows : OfDrain(s, e) # 0 => Touches(s, OfDrain(s, e), OfRun(s, e))
    /\ s.merged => /\ \A e \in DOMAIN s.rows : OfRun(s, e) = "kept"
                   /\ \A a \in s.assoc : a[2] = "kept"
    /\ ~s.merged => s.before = {}
    /\ \A r \in Lineage : (s.merged => r = "kept") /\ r \notin s.ready => BlockedRow(s, r)
    /\ \A x \in s.before : Shut(s, x[1]) => \E d \in Overdue(s) : Touches(s, d, "kept")

\* What a commit of b leaves of s, and adds.
Grown(s, b, t) ==
    /\ DOMAIN t.rows = DOMAIN s.rows \cup Named(b)
    /\ \A e \in DOMAIN s.rows : OfDrain(t, e) = OfDrain(s, e) /\ OfRun(t, e) = Into(b, OfRun(s, e))
    /\ b.event # NoRecord => t.rows[b.event] = [run |-> b.run, drain |-> b.drain]
    /\ t.completedBy = s.completedBy
    /\ t.drains = s.drains \cup (IF Historical(b) THEN {b.drain} ELSE {})
    /\ t.assoc = {<<a[1], Into(b, a[2])>> : a \in s.assoc}
                   \cup (IF Historical(b) THEN {<<b.drain, b.run>>} ELSE {})
    /\ t.merged = (s.merged \/ b.merge)
    /\ ~b.merge => t.before = s.before
    /\ b.merge => /\ \A x \in t.before : Open(t, x[1]) /\ x[2] \in DOMAIN s.rows /\ Touches(t, x[1], "kept")
                  /\ Historical(b) => \A e \in DOMAIN s.rows : OfRun(s, e) = "gone" => <<b.drain, e>> \in t.before

LEMMA LedgerFields ==
    ASSUME NEW s \in Ledgers
    PROVE  /\ DOMAIN s.rows \subseteq EventIds
           /\ \A e \in DOMAIN s.rows : s.rows[e] \in [run : Lineage, drain : 0 .. MaxDrains]
           /\ s.rows = [e \in DOMAIN s.rows |-> s.rows[e]]
           /\ s.drains \subseteq ManifestIds /\ s.assoc \subseteq ManifestIds \X Lineage
           /\ DOMAIN s.completedBy \subseteq ManifestIds
           /\ s.ready \subseteq Lineage /\ s.image \subseteq Lineage
           /\ s.before \subseteq ManifestIds \X EventIds /\ s.merged \in BOOLEAN
<1>1. s.rows \in EventRows /\ s.completedBy \in UNION {[S -> ManifestIds] : S \in SUBSET ManifestIds}
  BY DEF Ledgers
<1>2. PICK S \in SUBSET EventIds : s.rows \in [S -> [run : Lineage, drain : 0 .. MaxDrains]]
  BY <1>1, Zenon DEF EventRows
<1>3. PICK C \in SUBSET ManifestIds : s.completedBy \in [C -> ManifestIds]
  BY <1>1, Zenon
<1> QED BY <1>2, <1>3 DEF Ledgers

LEMMA RowTables ==
    \A S \in SUBSET EventIds : [S -> [run : Lineage, drain : 0 .. MaxDrains]] \subseteq EventRows
BY Zenon DEF EventRows

\* t is s with the row of b.
WithRow(s, b, t) ==
    /\ t \in Ledgers
    /\ DOMAIN t.rows = DOMAIN s.rows \cup Named(b)
    /\ \A e \in DOMAIN s.rows : t.rows[e] = s.rows[e]
    /\ b.event # NoRecord => t.rows[b.event] = [run |-> b.run, drain |-> b.drain]
    /\ t.drains = s.drains /\ t.assoc = s.assoc /\ t.completedBy = s.completedBy
    /\ t.ready = s.ready /\ t.image = s.image /\ t.before = s.before /\ t.merged = s.merged

LEMMA RecordingFacts ==
    ASSUME NEW s \in Ledgers, NEW b, Batch(b), b.event \notin DOMAIN s.rows
    PROVE  WithRow(s, b, Recording(s, b))
<1> USE LedgerFields
<1>0. PICK t : t = Recording(s, b)
  OBVIOUS
<1> SUFFICES WithRow(s, b, t)
  BY <1>0
<1> USE DEF WithRow
<1>1. CASE b.event = NoRecord
  <2>1. t = s /\ Named(b) = {}
    BY <1>0, <1>1, Zenon DEF Recording, Named
  <2> QED BY <1>1, <2>1
<1>2. CASE b.event # NoRecord
  <2>0. Named(b) = {b.event} /\ b.event \in EventIds
    BY <1>2 DEF Named, Batch
  <2> DEFINE table == [e \in DOMAIN s.rows \cup {b.event} |->
                         IF e = b.event THEN [run |-> b.run, drain |-> b.drain] ELSE s.rows[e]]
  <2>1. t = [s EXCEPT !.rows = table]
    BY <1>0, <1>2 DEF Recording
  <2>2. table \in [DOMAIN s.rows \cup {b.event} -> [run : Lineage, drain : 0 .. MaxDrains]]
    BY DEF Batch
  <2>3. table \in EventRows
    <3>1. DOMAIN s.rows \cup {b.event} \in SUBSET EventIds
      BY <2>0
    <3> QED BY <2>2, <3>1, RowTables
  <2>4. /\ DOMAIN table = DOMAIN s.rows \cup {b.event}
        /\ table[b.event] = [run |-> b.run, drain |-> b.drain]
        /\ \A e \in DOMAIN s.rows : table[e] = s.rows[e]
    BY <1>2
  <2> HIDE DEF table
  <2>5. /\ t \in Ledgers /\ t.rows = table
        /\ t.drains = s.drains /\ t.assoc = s.assoc /\ t.completedBy = s.completedBy
        /\ t.ready = s.ready /\ t.image = s.image /\ t.before = s.before /\ t.merged = s.merged
    BY <2>1, <2>3 DEF Ledgers
  <2> QED BY <2>0, <2>4, <2>5
<1> QED BY <1>1, <1>2

LEMMA JoinedFacts ==
    ASSUME NEW s \in Ledgers, NEW b, Batch(b), NEW t, t = JoinedRows(s, b),
           Historical(b) => b.drain \in s.drains
    PROVE  /\ t \in Ledgers
           /\ DOMAIN t.rows = DOMAIN s.rows
           /\ \A e \in DOMAIN s.rows : OfDrain(t, e) = OfDrain(s, e) /\ OfRun(t, e) = "kept"
           /\ t.drains = s.drains /\ t.completedBy = s.completedBy /\ t.merged = TRUE
           /\ t.assoc = {<<a[1], "kept">> : a \in s.assoc}
           /\ t.before = Imaged(s, b)
           /\ "kept" \notin t.ready => s.ready = {}
<1> USE LedgerFields
<1> DEFINE table == [e \in DOMAIN s.rows |-> [s.rows[e] EXCEPT !.run = "kept"]]
           readied == IF s.ready \cap Lineage # {} \/ \E d \in DOMAIN s.completedBy, r \in Lineage :
                                              <<d, r>> \in s.assoc
                      THEN {"kept"} ELSE {}
           imaged == IF s.image = {} THEN {} ELSE {"kept"}
           joined == {<<a[1], "kept">> : a \in s.assoc}
<1>1. t = [s EXCEPT !.before = Imaged(s, b), !.rows = table, !.ready = readied, !.image = imaged,
                    !.assoc = joined, !.merged = TRUE]
  BY DEF JoinedRows
<1>2. table \in EventRows
  <2>0. ASSUME NEW x \in [run : Lineage, drain : 0 .. MaxDrains]
        PROVE  /\ [x EXCEPT !.run = "kept"] \in [run : Lineage, drain : 0 .. MaxDrains]
               /\ [x EXCEPT !.run = "kept"].run = "kept" /\ [x EXCEPT !.run = "kept"].drain = x.drain
    BY DEF Lineage
  <2>1. table \in [DOMAIN s.rows -> [run : Lineage, drain : 0 .. MaxDrains]]
    BY <2>0
  <2>2. DOMAIN s.rows \in SUBSET EventIds
    OBVIOUS
  <2> QED BY <2>1, <2>2, RowTables
<1>3. DOMAIN table = DOMAIN s.rows /\ \A e \in DOMAIN s.rows : table[e].run = "kept" /\ table[e].drain = s.rows[e].drain
  OBVIOUS
<1>4. readied \subseteq Lineage /\ imaged \subseteq Lineage /\ ("kept" \notin readied => s.ready = {})
  BY DEF Lineage
<1>5. joined \subseteq ManifestIds \X Lineage
  <2>1. ASSUME NEW a \in s.assoc PROVE <<a[1], "kept">> \in ManifestIds \X Lineage
    BY DEF Lineage
  <2> QED BY <2>1
<1>6. Imaged(s, b) \subseteq ManifestIds \X EventIds
  BY DEF Imaged
<1> HIDE LedgerFields DEF table, readied, imaged, joined
<1> PICK images : images = Imaged(s, b)
  OBVIOUS
<1>7. /\ t \in Ledgers /\ t.rows = table /\ t.drains = s.drains /\ t.assoc = joined
      /\ t.completedBy = s.completedBy /\ t.ready = readied /\ t.before = Imaged(s, b) /\ t.merged = TRUE
  <2>1. t = [s EXCEPT !.before = images, !.rows = table, !.ready = readied, !.image = imaged,
                      !.assoc = joined, !.merged = TRUE]
    BY <1>1
  <2>2. /\ images \in SUBSET (ManifestIds \X EventIds) /\ readied \in SUBSET Lineage
        /\ imaged \in SUBSET Lineage /\ joined \in SUBSET (ManifestIds \X Lineage)
    BY <1>4, <1>5, <1>6
  <2>3. /\ t \in Ledgers /\ t.rows = table /\ t.drains = s.drains /\ t.assoc = joined
        /\ t.completedBy = s.completedBy /\ t.ready = readied /\ t.before = images /\ t.merged = TRUE
    BY <1>2, <2>1, <2>2 DEF Ledgers
  <2> QED BY <2>3
<1> QED BY <1>3, <1>4, <1>7 DEF OfDrain, OfRun, joined

\* The parts of apply_v6_batch: the drain opened, the rows recorded or moved, the runs stated.
OpenedFor(s, b) ==
    IF Historical(b) THEN [s EXCEPT !.drains = @ \cup {b.drain}, !.image = @ \cup b.image] ELSE s
MovedBy(s, b) ==
    IF b.merge /\ ~s.merged THEN JoinedRows(Recording(OpenedFor(s, b), b), b)
    ELSE Recording(OpenedFor(s, b), b)
Newly(s, b) ==
    IF Historical(b) /\ <<b.drain, b.run>> \notin MovedBy(s, b).assoc THEN {b.run} ELSE {}
StatedBy(s, b) ==
    IF Historical(b) THEN [MovedBy(s, b) EXCEPT !.assoc = @ \cup {<<b.drain, b.run>>}]
    ELSE IF b.origin = "provider"
    THEN [MovedBy(s, b) EXCEPT !.ready = @ \cup {b.run}, !.image = @ \ {b.run}]
    ELSE MovedBy(s, b)

\* What of Grown holds whatever was stated.
GrownRows(s, b, t) ==
    /\ DOMAIN t.rows = DOMAIN s.rows \cup Named(b)
    /\ \A e \in DOMAIN s.rows : OfDrain(t, e) = OfDrain(s, e) /\ OfRun(t, e) = Into(b, OfRun(s, e))
    /\ b.event # NoRecord => t.rows[b.event] = [run |-> b.run, drain |-> b.drain]
    /\ t.completedBy = s.completedBy
    /\ t.drains = s.drains \cup (IF Historical(b) THEN {b.drain} ELSE {})
    /\ t.merged = (s.merged \/ b.merge)
    /\ ~b.merge => t.before = s.before

MovedShape(s, b, m) ==
    /\ m \in Ledgers /\ GrownRows(s, b, m)
    /\ m.assoc = {<<a[1], Into(b, a[2])>> : a \in s.assoc}
    /\ ~b.merge => m.ready = s.ready
    /\ b.merge => /\ \A x \in m.before :
                        /\ Open(m, x[1]) /\ x[2] \in DOMAIN s.rows
                        /\ Touches(m, x[1], "kept") \/ (Historical(b) /\ x[1] = b.drain)
                  /\ Historical(b) => \A e \in DOMAIN s.rows : OfRun(s, e) = "gone" => <<b.drain, e>> \in m.before
                  /\ "kept" \notin m.ready => s.ready = {}

\* The batches that are not refused, nor replayed: those of a new event for the current drain.
Fresh(s, b, c) ==
    /\ Batch(b) /\ b.event \notin DOMAIN s.rows
    /\ b.merge => ~s.merged
    /\ s.merged => b.run = "kept"
    /\ Historical(b) => b.drain = c /\ ~Shut(s, c)

LEMMA MovedFacts ==
    ASSUME NEW c \in ManifestIds, NEW s, LedgerSound(s, c), NEW b, Fresh(s, b, c)
    PROVE  MovedShape(s, b, MovedBy(s, b))
<1> PICK o : o = OpenedFor(s, b)
  OBVIOUS
<1> PICK m : m = MovedBy(s, b)
  OBVIOUS
<1> SUFFICES MovedShape(s, b, m)
  OBVIOUS
<1>a. /\ Batch(b) /\ b.event \notin DOMAIN s.rows
      /\ b.merge => ~s.merged
      /\ Historical(b) => b.drain = c /\ ~Shut(s, c)
  BY DEF Fresh
<1>o. o = IF Historical(b) THEN [s EXCEPT !.drains = @ \cup {b.drain}, !.image = @ \cup b.image] ELSE s
  BY DEF OpenedFor
<1>m. m = IF b.merge /\ ~s.merged THEN JoinedRows(Recording(o, b), b) ELSE Recording(o, b)
  BY Zenon DEF MovedBy
<1> USE DEF MovedShape, GrownRows
<1>1. s \in Ledgers /\ (~s.merged => s.before = {}) /\ (\A a \in s.assoc : a[1] \in s.drains)
  BY DEF LedgerSound
<1>2. /\ o \in Ledgers
      /\ o.drains = s.drains \cup (IF Historical(b) THEN {b.drain} ELSE {})
      /\ o.rows = s.rows /\ o.assoc = s.assoc /\ o.completedBy = s.completedBy /\ o.ready = s.ready
      /\ o.before = s.before /\ o.merged = s.merged
  <2>1. CASE Historical(b)
    <3>1. o = [s EXCEPT !.drains = s.drains \cup {b.drain}, !.image = s.image \cup b.image]
      BY <1>o, <2>1
    <3>2. s.drains \cup {b.drain} \in SUBSET ManifestIds /\ s.image \cup b.image \in SUBSET Lineage
      BY <1>a, <1>1, <2>1, LedgerFields DEF Batch
    <3> QED BY <1>1, <2>1, <3>1, <3>2 DEF Ledgers
  <2>2. CASE ~Historical(b)
    BY <1>o, <1>1, <2>2
  <2> QED BY <2>1, <2>2
<1>3. PICK n : n = Recording(o, b)
  OBVIOUS
<1>4. /\ n \in Ledgers
      /\ DOMAIN n.rows = DOMAIN s.rows \cup Named(b)
      /\ \A e \in DOMAIN s.rows : n.rows[e] = s.rows[e]
      /\ b.event # NoRecord => n.rows[b.event] = [run |-> b.run, drain |-> b.drain]
      /\ n.drains = o.drains /\ n.assoc = s.assoc /\ n.completedBy = s.completedBy
      /\ n.ready = s.ready /\ n.before = s.before /\ n.merged = s.merged
  <2>1. b.event \notin DOMAIN o.rows
    BY <1>a, <1>2
  <2>2. o \in Ledgers
    BY <1>2
  <2>3. WithRow(o, b, n)
    BY <1>a, <1>3, <2>1, <2>2, RecordingFacts, Zenon
  <2> QED BY <1>2, <2>3 DEF WithRow
<1>5. CASE ~b.merge
  <2>1. m = n
    BY <1>m, <1>3, <1>5
  <2>2. m.assoc = {<<a[1], Into(b, a[2])>> : a \in s.assoc}
    <3>1. \A a \in s.assoc : a = <<a[1], Into(b, a[2])>>
      <4>1. \A r : Into(b, r) = r
        BY <1>5 DEF Into
      <4>2. s.assoc \subseteq ManifestIds \X Lineage
        BY <1>1, LedgerFields
      <4> QED BY <4>1, <4>2
    <3> QED BY <1>4, <2>1, <3>1
  <2>3. /\ \A e \in DOMAIN s.rows : OfDrain(m, e) = OfDrain(s, e) /\ OfRun(m, e) = Into(b, OfRun(s, e))
        /\ m.merged = (s.merged \/ b.merge)
    BY <1>1, <1>4, <1>5, <2>1, LedgerFields DEF OfDrain, OfRun, Into
  <2> QED BY <1>2, <1>4, <1>5, <2>1, <2>2, <2>3
<1>6. CASE b.merge
  <2>1. m = JoinedRows(n, b) /\ b.run = "kept"
    BY <1>a, <1>m, <1>3, <1>6 DEF Batch
  <2>2. Historical(b) => b.drain \in n.drains
    BY <1>2, <1>4
  <2>3. /\ m \in Ledgers
        /\ DOMAIN m.rows = DOMAIN n.rows
        /\ \A e \in DOMAIN n.rows : OfDrain(m, e) = OfDrain(n, e) /\ OfRun(m, e) = "kept"
        /\ m.drains = n.drains /\ m.completedBy = n.completedBy /\ m.merged = TRUE
        /\ m.assoc = {<<a[1], "kept">> : a \in n.assoc}
        /\ m.before = Imaged(n, b)
        /\ "kept" \notin m.ready => n.ready = {}
    BY <1>a, <1>4, <2>1, <2>2, JoinedFacts
  <2>4. \A e \in DOMAIN s.rows : OfDrain(m, e) = OfDrain(s, e) /\ OfRun(m, e) = Into(b, OfRun(s, e))
    BY <1>4, <1>6, <2>3 DEF OfDrain, Into
  <2>5. b.event # NoRecord => m.rows[b.event] = [run |-> b.run, drain |-> b.drain]
    <3> SUFFICES ASSUME b.event # NoRecord PROVE m.rows[b.event] = [run |-> b.run, drain |-> b.drain]
      OBVIOUS
    <3>1. b.event \in DOMAIN m.rows /\ m.rows[b.event] \in [run : Lineage, drain : 0 .. MaxDrains]
      BY <1>4, <2>3, LedgerFields DEF Named
    <3>2. m.rows[b.event].run = b.run /\ m.rows[b.event].drain = b.drain
      BY <1>4, <2>1, <2>3, <3>1 DEF OfDrain, OfRun
    <3> QED BY <3>1, <3>2
  <2>6. m.assoc = {<<a[1], Into(b, a[2])>> : a \in s.assoc}
    BY <1>4, <1>6, <2>3 DEF Into
  <2> DEFINE parties == {d \in n.drains : Open(n, d) /\ \E r \in Lineage : <<d, r>> \in n.assoc}
             owed == parties \cup (IF Historical(b) THEN {b.drain} ELSE {})
             moved == {e \in DOMAIN n.rows : n.rows[e].run = "gone"}
  <2>7. m.before = owed \X moved
    <3>1. n.before = {}
      BY <1>a, <1>1, <1>4, <1>6
    <3> QED BY <2>3, <3>1 DEF Imaged
  <2>8. \A e \in moved : e \in DOMAIN s.rows /\ OfRun(s, e) = "gone"
    BY <1>4, <2>1 DEF Named, OfRun
  <2>9. \A d \in parties : Open(m, d) /\ Touches(m, d, "kept")
    <3> SUFFICES ASSUME NEW d \in parties PROVE Open(m, d) /\ Touches(m, d, "kept")
      OBVIOUS
    <3>1. PICK r \in Lineage : <<d, r>> \in n.assoc
      OBVIOUS
    <3>2. <<d, r>>[1] = d
      OBVIOUS
    <3>3. <<d, "kept">> \in m.assoc
      BY <2>3, <3>1, <3>2
    <3>4. Open(m, d)
      BY <2>3 DEF Open
    <3> QED BY <3>3, <3>4 DEF Touches
  <2>10. Historical(b) => Open(m, b.drain)
    BY <1>a, <1>2, <1>4, <2>3 DEF Open, Shut
  <2>11. \A x \in m.before : /\ Open(m, x[1]) /\ x[2] \in DOMAIN s.rows
                             /\ Touches(m, x[1], "kept") \/ (Historical(b) /\ x[1] = b.drain)
    <3> SUFFICES ASSUME NEW x \in m.before
                 PROVE  /\ Open(m, x[1]) /\ x[2] \in DOMAIN s.rows
                        /\ Touches(m, x[1], "kept") \/ (Historical(b) /\ x[1] = b.drain)
      OBVIOUS
    <3>1. x[1] \in owed /\ x[2] \in moved
      BY <2>7
    <3>2. CASE x[1] \in parties
      BY <2>8, <2>9, <3>1, <3>2
    <3>3. CASE x[1] \notin parties
      <4>1. Historical(b) /\ x[1] = b.drain
        BY <3>1, <3>3
      <4> QED BY <2>8, <2>10, <3>1, <4>1
    <3> QED BY <3>2, <3>3
  <2>12. Historical(b) => \A e \in DOMAIN s.rows : OfRun(s, e) = "gone" => <<b.drain, e>> \in m.before
    BY <1>4, <2>7 DEF OfRun
  <2> HIDE DEF parties, owed, moved
  <2> QED BY <1>2, <1>4, <1>6, <2>3, <2>4, <2>5, <2>6, <2>11, <2>12
<1> QED BY <1>5, <1>6 DEF Batch

LEMMA CommitFacts ==
    ASSUME NEW c \in ManifestIds, NEW s, LedgerSound(s, c), NEW b, Fresh(s, b, c)
    PROVE  LedgerSound(Committed(s, b), c) /\ Grown(s, b, Committed(s, b))
<1> PICK m : m = MovedBy(s, b)
  OBVIOUS
<1> PICK n : n = StatedBy(s, b)
  OBVIOUS
<1> PICK t : t = Committed(s, b)
  OBVIOUS
<1>1. MovedShape(s, b, m)
  BY MovedFacts
<1>2. t = Unreadied(n, b, Newly(s, b))
  BY Zenon DEF Committed, Replayed, Fresh, Newly, StatedBy, MovedBy, OpenedFor
<1>3. /\ c \in ManifestIds /\ Batch(b) /\ b.event \notin DOMAIN s.rows
      /\ b.merge => ~s.merged
      /\ s.merged => b.run = "kept"
      /\ b.merge => b.run = "kept"
      /\ Historical(b) => b.drain = c /\ ~Shut(s, c)
      /\ ~Historical(b) => b.drain = 0
  BY DEF Fresh, Batch
<1>4. /\ s \in Ledgers /\ s.drains \subseteq 1 .. c
      /\ DOMAIN s.completedBy \subseteq s.drains
      /\ \A a \in s.assoc : a[1] \in s.drains
  BY DEF LedgerSound
\* What the batch states: the association of a historical one, the readiness of a live one.
<1>5. /\ n \in Ledgers /\ n.drains = m.drains /\ n.completedBy = m.completedBy
      /\ n.merged = m.merged /\ n.before = m.before /\ n.rows = m.rows
      /\ n.assoc = m.assoc \cup (IF Historical(b) THEN {<<b.drain, b.run>>} ELSE {})
      /\ m.ready \subseteq n.ready
  <2>1. m \in Ledgers /\ b.run \in Lineage
    BY <1>1, <1>3 DEF MovedShape, Batch
  <2>2. CASE Historical(b)
    <3>1. n = [m EXCEPT !.assoc = m.assoc \cup {<<b.drain, b.run>>}]
      BY <2>2, Zenon DEF StatedBy
    <3>2. m.assoc \cup {<<b.drain, b.run>>} \in SUBSET (ManifestIds \X Lineage)
      <4>1. b.drain \in ManifestIds
        BY <1>3, <2>2
      <4>2. <<b.drain, b.run>> \in ManifestIds \X Lineage
        BY <2>1, <4>1
      <4>3. m.assoc \subseteq ManifestIds \X Lineage
        BY <2>1, LedgerFields
      <4> QED BY <4>2, <4>3
    <3> QED BY <2>1, <2>2, <3>1, <3>2 DEF Ledgers
  <2>3. CASE ~Historical(b) /\ b.origin = "provider"
    <3>1. n = [m EXCEPT !.ready = m.ready \cup {b.run}, !.image = m.image \ {b.run}]
      BY <2>3, Zenon DEF StatedBy
    <3> DEFINE ready == m.ready \cup {b.run}  image == m.image \ {b.run}
    <3>2. ready \in SUBSET Lineage /\ image \in SUBSET Lineage
      BY <2>1, LedgerFields
    <3>3. n = [m EXCEPT !.ready = ready, !.image = image] /\ m.ready \subseteq ready
      BY <3>1
    <3> HIDE DEF ready, image
    <3> QED BY <2>1, <2>3, <3>2, <3>3 DEF Ledgers
  <2>4. CASE ~Historical(b) /\ b.origin # "provider"
    BY <2>1, <2>4 DEF StatedBy
  <2> QED BY <2>2, <2>3, <2>4
<1>6. /\ t \in Ledgers /\ t.drains = n.drains /\ t.completedBy = n.completedBy
      /\ t.merged = n.merged /\ t.before = n.before /\ t.rows = n.rows /\ t.assoc = n.assoc
      /\ t.ready = {r \in n.ready :
            ~(r \in Newly(s, b) \/ (BlockedRow(n, r) /\ (Historical(b) \/ r \in n.image)))}
  <2> DEFINE left == {r \in n.ready :
            ~(r \in Newly(s, b) \/ (BlockedRow(n, r) /\ (Historical(b) \/ r \in n.image)))}
  <2>1. t = [n EXCEPT !.ready = left]
    BY <1>2 DEF Unreadied
  <2>2. left \in SUBSET Lineage
    BY <1>5, LedgerFields
  <2> HIDE DEF left
  <2>3. t \in Ledgers /\ t.drains = n.drains /\ t.completedBy = n.completedBy
        /\ t.merged = n.merged /\ t.before = n.before /\ t.rows = n.rows /\ t.assoc = n.assoc
        /\ t.ready = left
    BY <1>5, <2>1, <2>2 DEF Ledgers
  <2> QED BY <2>3 DEF left
<1>7. GrownRows(s, b, t)
  BY <1>1, <1>5, <1>6 DEF MovedShape, GrownRows, OfRun, OfDrain
<1>8. t.assoc = {<<a[1], Into(b, a[2])>> : a \in s.assoc}
                   \cup (IF Historical(b) THEN {<<b.drain, b.run>>} ELSE {})
  BY <1>1, <1>5, <1>6 DEF MovedShape
<1>9. ASSUME NEW d, NEW r, Touches(s, d, r) PROVE Touches(t, d, Into(b, r))
  <2>1. <<d, r>> \in s.assoc /\ <<d, r>>[1] = d /\ <<d, r>>[2] = r
    BY <1>9 DEF Touches
  <2> QED BY <1>8, <2>1 DEF Touches
<1>10. Historical(b) => Touches(t, b.drain, b.run) /\ Open(t, b.drain)
  BY <1>3, <1>7, <1>8 DEF Touches, Open, Shut, GrownRows
<1>11. ASSUME NEW d, Open(s, d) PROVE Open(t, d)
  BY <1>7, <1>11 DEF Open, GrownRows
<1>12. b.merge => /\ \A x \in t.before : Open(t, x[1]) /\ x[2] \in DOMAIN s.rows /\ Touches(t, x[1], "kept")
                  /\ Historical(b) => \A e \in DOMAIN s.rows : OfRun(s, e) = "gone" => <<b.drain, e>> \in t.before
  <2> SUFFICES ASSUME b.merge
               PROVE  /\ \A x \in t.before : Open(t, x[1]) /\ x[2] \in DOMAIN s.rows /\ Touches(t, x[1], "kept")
                      /\ Historical(b) => \A e \in DOMAIN s.rows : OfRun(s, e) = "gone" => <<b.drain, e>> \in t.before
    OBVIOUS
  <2>1. t.before = m.before
    BY <1>5, <1>6
  <2>2. ASSUME NEW x \in t.before PROVE Open(t, x[1]) /\ x[2] \in DOMAIN s.rows /\ Touches(t, x[1], "kept")
    <3>1. /\ Open(m, x[1]) /\ x[2] \in DOMAIN s.rows
          /\ Touches(m, x[1], "kept") \/ (Historical(b) /\ x[1] = b.drain)
      BY <1>1, <2>1 DEF MovedShape
    <3>2. Open(t, x[1])
      BY <1>5, <1>6, <3>1 DEF Open
    <3>3. Touches(t, x[1], "kept")
      BY <1>3, <1>5, <1>6, <1>10, <3>1 DEF Touches
    <3> QED BY <3>1, <3>2, <3>3
  <2>3. Historical(b) => \A e \in DOMAIN s.rows : OfRun(s, e) = "gone" => <<b.drain, e>> \in t.before
    BY <1>1, <2>1 DEF MovedShape
  <2> QED BY <2>2, <2>3
<1>13. Grown(s, b, t)
  BY <1>7, <1>8, <1>12 DEF Grown, GrownRows
\* The same, of the ledger that follows.
<1>14. /\ t.drains \subseteq 1 .. c /\ DOMAIN t.completedBy \subseteq t.drains
       /\ \A a \in t.assoc : a[1] \in t.drains
  <2>1. t.drains \subseteq 1 .. c /\ DOMAIN t.completedBy \subseteq t.drains
    BY <1>3, <1>4, <1>7 DEF GrownRows, ManifestIds
  <2>2. ASSUME NEW a \in t.assoc PROVE a[1] \in t.drains
    <3>1. CASE a \in {<<x[1], Into(b, x[2])>> : x \in s.assoc}
      BY <1>4, <1>7, <3>1 DEF GrownRows
    <3>2. CASE Historical(b) /\ a = <<b.drain, b.run>>
      BY <1>7, <3>2 DEF GrownRows
    <3> QED BY <1>8, <3>1, <3>2
  <2> QED BY <2>1, <2>2
<1>15. ASSUME NEW x \in t.before PROVE x[2] \in DOMAIN t.rows /\ Touches(t, x[1], OfRun(t, x[2]))
  <2>1. CASE b.merge
    <3>1. x[2] \in DOMAIN s.rows /\ Touches(t, x[1], "kept")
      BY <1>12, <2>1
    <3>2. OfRun(t, x[2]) = "kept"
      BY <1>7, <2>1, <3>1 DEF GrownRows, Into
    <3> QED BY <1>7, <3>1, <3>2 DEF GrownRows
  <2>2. CASE ~b.merge
    <3>1. x \in s.before
      BY <1>7, <2>2 DEF GrownRows
    <3>2. x[2] \in DOMAIN s.rows /\ Touches(s, x[1], OfRun(s, x[2]))
      BY <3>1 DEF LedgerSound
    <3>3. OfRun(t, x[2]) = Into(b, OfRun(s, x[2]))
      BY <1>7, <3>2 DEF GrownRows
    <3> QED BY <1>7, <1>9, <3>2, <3>3 DEF GrownRows
  <2> QED BY <2>1, <2>2
<1>16. ASSUME NEW e \in DOMAIN t.rows, OfDrain(t, e) # 0 PROVE Touches(t, OfDrain(t, e), OfRun(t, e))
  <2>1. CASE e \in DOMAIN s.rows
    <3>1. OfDrain(t, e) = OfDrain(s, e) /\ OfRun(t, e) = Into(b, OfRun(s, e))
      BY <1>7, <2>1 DEF GrownRows
    <3>2. Touches(s, OfDrain(s, e), OfRun(s, e))
      BY <1>16, <2>1, <3>1 DEF LedgerSound
    <3> QED BY <1>9, <3>1, <3>2
  <2>2. CASE e \notin DOMAIN s.rows
    <3>1. e = b.event /\ b.event # NoRecord
      BY <1>7, <2>2 DEF GrownRows, Named
    <3>2. OfDrain(t, e) = b.drain /\ OfRun(t, e) = b.run
      BY <1>7, <3>1 DEF GrownRows, OfDrain, OfRun
    <3> QED BY <1>3, <1>10, <1>16, <3>2
  <2> QED BY <2>1, <2>2
<1>17. ASSUME t.merged PROVE /\ \A e \in DOMAIN t.rows : OfRun(t, e) = "kept"
                             /\ \A a \in t.assoc : a[2] = "kept"
  <2>1. b.run = "kept"
    BY <1>3, <1>7, <1>17 DEF GrownRows
  <2>2. ASSUME NEW e \in DOMAIN s.rows PROVE Into(b, OfRun(s, e)) = "kept"
    BY <1>7, <1>17 DEF GrownRows, LedgerSound, Into
  <2>3. ASSUME NEW a \in s.assoc PROVE Into(b, a[2]) = "kept"
    BY <1>7, <1>17 DEF GrownRows, LedgerSound, Into
  <2>4. ASSUME NEW e \in DOMAIN t.rows PROVE OfRun(t, e) = "kept"
    <3>1. CASE e \in DOMAIN s.rows
      BY <1>7, <2>2, <3>1 DEF GrownRows
    <3>2. CASE e \notin DOMAIN s.rows
      BY <1>7, <2>1, <3>2 DEF GrownRows, Named, OfRun
    <3> QED BY <3>1, <3>2
  <2>5. ASSUME NEW a \in t.assoc PROVE a[2] = "kept"
    <3>1. CASE a \in {<<x[1], Into(b, x[2])>> : x \in s.assoc}
      BY <2>3, <3>1
    <3>2. CASE a = <<b.drain, b.run>>
      BY <2>1, <3>2
    <3> QED BY <1>8, <3>1, <3>2
  <2> QED BY <2>4, <2>5
<1>18. ~t.merged => t.before = {}
  BY <1>3, <1>7 DEF GrownRows, LedgerSound
<1>19. ASSUME NEW r \in Lineage, t.merged => r = "kept", r \notin t.ready PROVE BlockedRow(t, r)
  <2>1. \A x : BlockedRow(n, x) <=> BlockedRow(t, x)
    BY <1>6 DEF BlockedRow, Open
  <2>2. CASE r \in Newly(s, b)
    <3>1. Historical(b) /\ r = b.run
      BY <2>2 DEF Newly
    <3> QED BY <1>3, <1>10, <3>1 DEF BlockedRow, Touches
  <2>3. CASE r \in n.ready /\ r \notin Newly(s, b)
    BY <1>6, <1>19, <2>1, <2>3
  <2>4. CASE r \notin n.ready
    <3>1. r \notin m.ready
      BY <1>5, <2>4
    <3>2. /\ r \notin s.ready /\ (s.merged => r = "kept") /\ Into(b, r) = r
      <4>1. CASE b.merge
        BY <1>1, <1>7, <1>19, <3>1, <4>1 DEF MovedShape, GrownRows, Into
      <4>2. CASE ~b.merge
        BY <1>1, <1>7, <1>19, <3>1, <4>2 DEF MovedShape, GrownRows, Into
      <4> QED BY <4>1, <4>2
    <3>3. BlockedRow(s, r)
      BY <3>2 DEF LedgerSound
    <3>4. PICK d \in ManifestIds : Open(s, d) /\ Touches(s, d, r)
      BY <3>3 DEF BlockedRow, Touches
    <3>5. Open(t, d) /\ Touches(t, d, r)
      BY <1>9, <1>11, <3>2, <3>4
    <3> QED BY <3>5 DEF BlockedRow, Touches
  <2> QED BY <2>2, <2>3, <2>4
<1>20. ASSUME NEW x \in t.before, Shut(t, x[1]) PROVE \E d \in Overdue(t) : Touches(t, d, "kept")
  <2>1. ~b.merge
    BY <1>12, <1>20 DEF Open, Shut
  <2>2. x \in s.before /\ Shut(s, x[1])
    BY <1>7, <1>20, <2>1 DEF GrownRows, Shut
  <2>3. PICK d \in Overdue(s) : Touches(s, d, "kept")
    BY <2>2 DEF LedgerSound
  <2>4. d \in Overdue(t)
    BY <1>7, <1>11 DEF Overdue, GrownRows
  <2>5. Touches(t, d, "kept")
    BY <1>9, <2>1, <2>3 DEF Into
  <2> QED BY <2>4, <2>5
<1>21. LedgerSound(t, c)
  BY <1>6, <1>14, <1>15, <1>16, <1>17, <1>18, <1>19, <1>20 DEF LedgerSound
<1> QED BY <1>13, <1>21

\* What finalize_history_drain of c, with or without older drains, makes of s.
Finished(s, c, u) ==
    /\ u.rows = s.rows /\ u.merged = s.merged
    /\ Shut(u, c) /\ c \in u.drains /\ s.drains \subseteq u.drains
    /\ \A d, r : Touches(s, d, r) => Touches(u, d, r)
    /\ \A d : Shut(s, d) => Shut(u, d) /\ u.completedBy[d] = s.completedBy[d]
    /\ \A d : Shut(u, d) /\ ~Shut(s, d) =>
          u.completedBy[d] = c /\ \A r : Touches(s, d, r) => Touches(u, c, r)
    /\ \A d : Open(u, d) => /\ Open(s, d) /\ d < c
                            /\ \A y \in s.drains : y <= d /\ ~Shut(s, y) => ~Shut(u, y)
    /\ \A r : r \in u.ready /\ r \notin s.ready => Touches(u, c, r)
    /\ s.ready \subseteq u.ready
    /\ \A x \in s.before : x \notin u.before => OfRun(u, x[2]) \in u.ready
    /\ u = s \/ \A x \in u.before : x \in s.before /\ OfRun(u, x[2]) \notin u.ready

\* The parts of finalize_history_drain.
OpenedAlso(s, d) == [s EXCEPT !.drains = @ \cup {d}]
Done(s, d, covers) == {d} \cup (IF covers THEN {x \in s.drains : x < d /\ Open(s, x)} ELSE {})
CompletedBy(s, d, covers) ==
    [OpenedAlso(s, d) EXCEPT
        !.assoc = @ \cup {<<d, a[2]>> : a \in {x \in @ : x[1] \in Done(s, d, covers)}},
        !.completedBy = [x \in DOMAIN @ \cup Done(s, d, covers) |->
                            IF x \in Done(s, d, covers) THEN d ELSE @[x]]]
ReadiedBy(s, d, covers) ==
    [CompletedBy(s, d, covers) EXCEPT !.ready = @ \cup
        {r \in Lineage : <<d, r>> \in CompletedBy(s, d, covers).assoc
                            /\ ~BlockedRow(CompletedBy(s, d, covers), r)}]

LEMMA Completions ==
    \A S \in SUBSET ManifestIds : [S -> ManifestIds] \subseteq UNION {[T -> ManifestIds] : T \in SUBSET ManifestIds}
BY Zenon

LEMMA FinalizeFacts ==
    ASSUME NEW c \in ManifestIds, NEW s, LedgerSound(s, c), NEW covers \in BOOLEAN
    PROVE  LedgerSound(Finalizing(s, c, covers), c) /\ Finished(s, c, Finalizing(s, c, covers))
<1> PICK u : u = Finalizing(s, c, covers)
  OBVIOUS
<1> SUFFICES LedgerSound(u, c) /\ Finished(s, c, u)
  OBVIOUS
<1>1. /\ s \in Ledgers /\ s.drains \subseteq 1 .. c
      /\ DOMAIN s.completedBy \subseteq s.drains
      /\ \A a \in s.assoc : a[1] \in s.drains
      /\ \A x \in s.before : x[2] \in DOMAIN s.rows /\ Touches(s, x[1], OfRun(s, x[2]))
  BY DEF LedgerSound
<1>2. c \in Nat /\ 1 <= c
  BY ActivityConstants DEF ManifestIds
<1>3. CASE Shut(s, c)
  <2>1. u = s
    BY <1>3 DEF Finalizing, Shut
  <2>2. ASSUME NEW d, Open(s, d) PROVE d < c
    <3>1. d \in 1 .. c /\ d # c
      BY <1>1, <1>3, <2>2 DEF Open, Shut
    <3> QED BY <1>2, <3>1
  <2>3. c \in s.drains
    BY <1>1, <1>3 DEF Shut
  <2> QED BY <1>3, <2>1, <2>2, <2>3 DEF Finished
<1>4. CASE ~Shut(s, c)
  <2> DEFINE done == Done(s, c, covers)
             drained == s.drains \cup {c}
             joined == s.assoc \cup {<<c, a[2]>> : a \in {x \in s.assoc : x[1] \in done}}
             ended == [x \in DOMAIN s.completedBy \cup done |-> IF x \in done THEN c ELSE s.completedBy[x]]
  <2>0. PICK also : also = OpenedAlso(s, c)
    OBVIOUS
  <2>a. /\ also.assoc = s.assoc /\ also.completedBy = s.completedBy
        /\ also = [s EXCEPT !.drains = drained]
    BY <1>1, <2>0 DEF OpenedAlso, Ledgers
  <2>1. PICK completed : completed = CompletedBy(s, c, covers)
    OBVIOUS
  <2>b. completed = [also EXCEPT !.assoc = joined, !.completedBy = ended]
    BY <2>0, <2>1, <2>a DEF CompletedBy
  <2> DEFINE fresh == s.ready \cup {r \in Lineage : <<c, r>> \in completed.assoc /\ ~BlockedRow(completed, r)}
  <2>2. PICK readied : readied = ReadiedBy(s, c, covers)
    OBVIOUS
  <2> DEFINE shown == s.image \ readied.ready
             kept == {x \in s.before : readied.rows[x[2]].run \notin readied.ready}
  <2>3. /\ \A x \in done : x \in ManifestIds /\ x \in drained /\ ~Shut(s, x) /\ x <= c
        /\ c \in done /\ drained \in SUBSET ManifestIds
    <3>1. \A x \in done : x = c \/ (x \in s.drains /\ x < c /\ ~Shut(s, x))
      BY DEF Done, Open, Shut
    <3>2. s.drains \subseteq ManifestIds /\ c <= c
      <4>1. s.drains \subseteq ManifestIds
        BY <1>1, LedgerFields
      <4>2. c <= c
        BY <1>2
      <4> QED BY <4>1, <4>2
    <3>3. ASSUME NEW x \in done PROVE x \in ManifestIds /\ x \in drained /\ ~Shut(s, x) /\ x <= c
      <4>1. CASE x = c
        BY <1>4, <3>2, <4>1
      <4>2. CASE x \in s.drains /\ x < c /\ ~Shut(s, x)
        BY <1>1, <1>2, <3>2, <4>2
      <4> QED BY <3>1, <4>1, <4>2
    <3> QED BY <3>2, <3>3 DEF Done
  <2>4. joined \in SUBSET (ManifestIds \X Lineage)
    <3>1. s.assoc \subseteq ManifestIds \X Lineage
      BY <1>1, LedgerFields
    <3>2. ASSUME NEW a \in s.assoc PROVE <<c, a[2]>> \in ManifestIds \X Lineage
      BY <3>1
    <3> QED BY <3>1, <3>2
  <2>5. /\ ended \in UNION {[S -> ManifestIds] : S \in SUBSET ManifestIds}
        /\ DOMAIN ended = DOMAIN s.completedBy \cup done
        /\ \A x \in done : ended[x] = c
        /\ \A x \in DOMAIN s.completedBy \ done : ended[x] = s.completedBy[x]
    <3>1. PICK S \in SUBSET ManifestIds : s.completedBy \in [S -> ManifestIds]
      <4>1. s.completedBy \in UNION {[S -> ManifestIds] : S \in SUBSET ManifestIds}
        BY <1>1 DEF Ledgers
      <4> QED BY <4>1, Zenon
    <3>2. DOMAIN s.completedBy \cup done \in SUBSET ManifestIds
      BY <2>3, <3>1
    <3>3. ended \in [DOMAIN s.completedBy \cup done -> ManifestIds]
      BY <3>1
    <3>4. ended \in UNION {[T -> ManifestIds] : T \in SUBSET ManifestIds}
      <4> HIDE DEF ended, done
      <4> QED BY <3>2, <3>3, Completions
    <3> QED BY <3>4
  <2>6. \A x \in joined : x \in s.assoc \/ (x[1] = c /\ \E a \in s.assoc : a[1] \in done /\ x[2] = a[2])
    OBVIOUS
  <2>7. \A d \in done : \A r : <<d, r>> \in s.assoc => <<c, r>> \in joined
    <3> SUFFICES ASSUME NEW d \in done, NEW r, <<d, r>> \in s.assoc PROVE <<c, r>> \in joined
      OBVIOUS
    <3>1. <<d, r>>[1] = d /\ <<d, r>>[2] = r
      OBVIOUS
    <3> QED BY <3>1
  <2>8. s.assoc \subseteq joined /\ s.drains \subseteq drained /\ c \in drained
    OBVIOUS
  <2> HIDE DEF drained, joined, ended
  <2>9. /\ completed \in Ledgers /\ completed.rows = s.rows /\ completed.drains = drained
        /\ completed.assoc = joined /\ completed.completedBy = ended /\ completed.ready = s.ready
        /\ completed.image = s.image /\ completed.before = s.before /\ completed.merged = s.merged
    BY <1>1, <2>3, <2>4, <2>5, <2>a, <2>b DEF Ledgers
  <2>10. fresh \in SUBSET Lineage /\ s.ready \subseteq fresh
    BY <1>1, LedgerFields
  <2>11. /\ readied \in Ledgers /\ readied.rows = s.rows /\ readied.drains = drained
         /\ readied.assoc = joined /\ readied.completedBy = ended /\ readied.ready = fresh
         /\ readied.image = s.image /\ readied.before = s.before /\ readied.merged = s.merged
    <3>1. readied = [completed EXCEPT !.ready = fresh]
      BY <2>1, <2>2, <2>9 DEF ReadiedBy
    <3> HIDE DEF fresh
    <3> QED BY <2>9, <2>10, <3>1 DEF Ledgers
  <2>12. u = [readied EXCEPT !.image = shown, !.before = kept]
    <3>1. c \notin DOMAIN s.completedBy
      BY <1>4 DEF Shut
    <3>2. u = [readied EXCEPT !.image = readied.image \ readied.ready,
                              !.before = {x \in readied.before : readied.rows[x[2]].run \notin readied.ready}]
      BY <2>2, <3>1, Zenon DEF Finalizing, ReadiedBy, CompletedBy, Done, OpenedAlso
    <3> QED BY <2>11, <3>2
  <2>13. shown \in SUBSET Lineage /\ kept \in SUBSET (ManifestIds \X EventIds)
    BY <1>1, LedgerFields
  <2>14. /\ u \in Ledgers /\ u.rows = s.rows /\ u.drains = drained /\ u.assoc = joined
         /\ u.completedBy = ended /\ u.ready = fresh /\ u.merged = s.merged /\ u.before = kept
    <3> HIDE DEF shown, kept, fresh
    <3> QED BY <2>11, <2>12, <2>13 DEF Ledgers
  <2>15. u.before = {x \in s.before : OfRun(u, x[2]) \notin u.ready}
    BY <2>11, <2>14 DEF OfRun
  <2>16. \A r : r \in u.ready <=> r \in s.ready \/ (r \in Lineage /\ Touches(u, c, r) /\ ~BlockedRow(u, r))
    <3>1. \A r : BlockedRow(completed, r) <=> BlockedRow(u, r)
      BY <2>9, <2>14 DEF BlockedRow, Open
    <3> QED BY <2>9, <2>14, <3>1 DEF Touches
  <2> HIDE DEF fresh, shown, kept
  <2>17. \A d : Shut(u, d) <=> Shut(s, d) \/ d \in done
    BY <2>5, <2>14 DEF Shut
  <2>18. ASSUME NEW d, Open(u, d)
         PROVE  /\ Open(s, d) /\ d < c
                /\ \A y \in s.drains : y <= d /\ ~Shut(s, y) => ~Shut(u, y)
    <3>1. d \in drained /\ ~Shut(s, d) /\ d \notin done
      BY <2>14, <2>17, <2>18 DEF Open, Shut
    <3>2. d \in s.drains /\ d # c
      BY <2>3, <3>1 DEF drained
    <3>3. d \in Nat /\ d < c /\ Open(s, d)
      BY <1>1, <1>2, <3>1, <3>2 DEF Open, Shut
    <3>4. ~covers /\ done = {c}
      BY <3>1, <3>2, <3>3 DEF Done
    <3>5. ASSUME NEW y \in s.drains, y <= d, ~Shut(s, y) PROVE ~Shut(u, y)
      <4>1. y \in 1 .. c
        BY <1>1
      <4>2. y # c
        BY <1>2, <3>3, <3>5, <4>1
      <4> QED BY <2>17, <3>4, <3>5, <4>2
    <3> QED BY <3>3, <3>5
  <2>19. \A d, r : Touches(s, d, r) => Touches(u, d, r)
    BY <2>8, <2>14 DEF Touches
  <2>20. \A d : Shut(s, d) => Shut(u, d) /\ u.completedBy[d] = s.completedBy[d]
    BY <2>3, <2>5, <2>14 DEF Shut
  <2>21. \A d : Shut(u, d) /\ ~Shut(s, d) =>
            u.completedBy[d] = c /\ \A r : Touches(s, d, r) => Touches(u, c, r)
    BY <2>5, <2>7, <2>14, <2>17 DEF Touches
  <2>22. Shut(u, c) /\ c \in u.drains /\ s.drains \subseteq u.drains
    BY <2>3, <2>8, <2>14, <2>17
  <2> HIDE DEF done
  <2>23. Finished(s, c, u)
    BY <2>14, <2>15, <2>16, <2>18, <2>19, <2>20, <2>21, <2>22 DEF Finished
  <2>24. /\ u.drains \subseteq 1 .. c /\ DOMAIN u.completedBy \subseteq u.drains
         /\ \A a \in u.assoc : a[1] \in u.drains
    <3>1. drained \subseteq 1 .. c
      BY <1>1, <1>2 DEF drained
    <3>2. DOMAIN ended \subseteq drained
      BY <1>1, <2>3, <2>5, <2>8
    <3>3. \A a \in joined : a[1] \in drained
      BY <1>1, <2>6, <2>8
    <3> QED BY <2>14, <3>1, <3>2, <3>3
  <2>25. ASSUME NEW x \in u.before
         PROVE  /\ x[2] \in DOMAIN u.rows /\ Touches(u, x[1], OfRun(u, x[2]))
    BY <1>1, <2>14, <2>15, <2>19 DEF OfRun
  <2>26. ASSUME NEW e \in DOMAIN u.rows, OfDrain(u, e) # 0 PROVE Touches(u, OfDrain(u, e), OfRun(u, e))
    BY <2>14, <2>19, <2>26 DEF LedgerSound, OfRun, OfDrain
  <2>27. ASSUME u.merged PROVE /\ \A e \in DOMAIN u.rows : OfRun(u, e) = "kept"
                               /\ \A a \in u.assoc : a[2] = "kept"
    <3>1. \A a \in s.assoc : a[2] = "kept"
      BY <2>14, <2>27 DEF LedgerSound
    <3>2. \A a \in joined : a[2] = "kept"
      BY <2>6, <3>1
    <3> QED BY <2>14, <2>27, <3>2 DEF LedgerSound, OfRun
  <2>28. ~u.merged => u.before = {}
    BY <2>14, <2>15 DEF LedgerSound
  <2>29. ASSUME NEW r \in Lineage, u.merged => r = "kept", r \notin u.ready PROVE BlockedRow(u, r)
    <3>1. CASE Touches(u, c, r)
      BY <2>16, <2>29, <3>1
    <3>2. CASE ~Touches(u, c, r)
      <4>1. r \notin s.ready /\ (s.merged => r = "kept")
        BY <2>14, <2>16, <2>29
      <4>2. BlockedRow(s, r)
        BY <4>1 DEF LedgerSound
      <4>3. PICK d \in ManifestIds : Open(s, d) /\ Touches(s, d, r)
        BY <4>2 DEF BlockedRow, Touches
      <4>4. ~Shut(u, d)
        BY <2>21, <3>2, <4>3 DEF Open, Shut
      <4>5. Open(u, d) /\ Touches(u, d, r)
        BY <2>19, <2>22, <4>3, <4>4 DEF Open, Shut
      <4> QED BY <4>5 DEF BlockedRow, Touches
    <3> QED BY <3>1, <3>2
  <2>30. ASSUME NEW x \in u.before, Shut(u, x[1]) PROVE \E d \in Overdue(u) : Touches(u, d, "kept")
    <3>1. u.merged /\ OfRun(u, x[2]) \notin u.ready
      BY <2>15, <2>28, <2>14, LedgerFields
    <3>2. OfRun(u, x[2]) = "kept"
      BY <2>25, <2>27, <3>1
    <3>3. BlockedRow(u, "kept")
      BY <2>29, <3>1, <3>2 DEF Lineage
    <3>4. PICK d \in ManifestIds : Open(u, d) /\ Touches(u, d, "kept")
      BY <3>3 DEF BlockedRow, Touches
    <3>5. d < c /\ c \in DOMAIN u.completedBy
      BY <2>18, <2>22, <3>4 DEF Shut
    <3> QED BY <3>4, <3>5 DEF Overdue
  <2>31. LedgerSound(u, c)
    BY <2>14, <2>24, <2>25, <2>26, <2>27, <2>28, <2>29, <2>30 DEF LedgerSound
  <2> QED BY <2>23, <2>31
<1> QED BY <1>3, <1>4

\* The drains are numbered in the order they are completed or overtaken.
LEMMA OverdueFacts ==
    ASSUME NEW c \in ManifestIds, NEW s, LedgerSound(s, c), Shut(s, c), NEW d, Open(s, d)
    PROVE  d \in Overdue(s)
<1>1. d \in 1 .. c /\ d # c
  BY DEF LedgerSound, Open, Shut
<1>2. d < c /\ d \in ManifestIds
  BY <1>1, ActivityConstants DEF ManifestIds
<1> QED BY <1>2 DEF Overdue, Shut

\* What is shown under its former run no more: its drain is completed, or an overtaken one has it.
LEMMA StandingAfterFinalize ==
    ASSUME NEW c \in ManifestIds, NEW s, LedgerSound(s, c), NEW u, LedgerSound(u, c), Finished(s, c, u),
           NEW e \in DOMAIN s.rows, Standing(u, e) = {}
    PROVE  \/ Standing(s, e) = {}
           \/ Touches(u, c, OfRun(u, e))
           \/ \E d \in Overdue(u) : Touches(u, d, OfRun(u, e))
<1> SUFFICES ASSUME Standing(s, e) # {}
             PROVE  Touches(u, c, OfRun(u, e)) \/ \E d \in Overdue(u) : Touches(u, d, OfRun(u, e))
  OBVIOUS
<1>1. PICK x \in s.before : x[2] = e /\ (Open(s, x[1]) \/ OfRun(s, e) \notin s.ready)
  BY DEF Standing, OfRun
<1>2. u.rows = s.rows /\ OfRun(u, e) = OfRun(s, e)
  BY DEF Finished, OfRun
<1>3. u # s
  BY DEF Standing
<1>4. x \notin u.before
  <2> SUFFICES ASSUME x \in u.before PROVE FALSE
    OBVIOUS
  <2>1. OfRun(u, e) \notin u.ready
    BY <1>1, <1>3 DEF Finished
  <2>2. x \in Standing(u, e)
    BY <1>1, <2>1 DEF Standing, OfRun
  <2> QED BY <2>2
<1>5. OfRun(u, e) \in u.ready
  BY <1>1, <1>4 DEF Finished
<1>6. CASE OfRun(s, e) \notin s.ready
  BY <1>2, <1>5, <1>6 DEF Finished
<1>7. CASE Open(s, x[1])
  <2>1. Touches(s, x[1], OfRun(s, e))
    BY <1>1 DEF LedgerSound
  <2>2. CASE Shut(u, x[1])
    BY <1>2, <1>7, <2>1, <2>2 DEF Finished, Open, Shut
  <2>3. CASE ~Shut(u, x[1])
    <3>1. Open(u, x[1]) /\ Touches(u, x[1], OfRun(u, e))
      BY <1>2, <1>7, <2>1, <2>3 DEF Finished, Open, Shut
    <3>2. Shut(u, c)
      BY DEF Finished
    <3> QED BY <3>1, <3>2, OverdueFacts
  <2> QED BY <2>2, <2>3
<1> QED BY <1>1, <1>6, <1>7

\* A commit that moves nothing lets an image go only where an overtaken drain has the run; one that
\* moves the rows keeps an image of every row it moves for an unfinished drain.
LEMMA StandingAfterCommit ==
    ASSUME NEW c \in ManifestIds, NEW s, LedgerSound(s, c), NEW b, Batch(b), NEW t, LedgerSound(t, c),
           Grown(s, b, t), ~b.merge, NEW e \in DOMAIN s.rows, Standing(t, e) = {}
    PROVE  \/ Standing(s, e) = {}
           \/ \E d \in Overdue(t) : Touches(t, d, OfRun(t, e))
<1> SUFFICES ASSUME Standing(s, e) # {}
             PROVE  \E d \in Overdue(t) : Touches(t, d, OfRun(t, e))
  OBVIOUS
<1>1. PICK x \in s.before : x[2] = e /\ (Open(s, x[1]) \/ OfRun(s, e) \notin s.ready)
  BY DEF Standing, OfRun
<1>2. x \in t.before /\ ~Open(t, x[1])
  <2>1. x \in t.before
    BY <1>1 DEF Grown
  <2> QED BY <1>1, <2>1 DEF Standing
<1>3. Shut(t, x[1])
  <2>1. x[1] \in t.drains
    <3>1. <<x[1], OfRun(t, x[2])>> \in t.assoc /\ <<x[1], OfRun(t, x[2])>>[1] = x[1]
      BY <1>2 DEF LedgerSound, Touches
    <3> QED BY <3>1 DEF LedgerSound
  <2> QED BY <1>2, <2>1 DEF Open, Shut
<1>4. \E d \in Overdue(t) : Touches(t, d, "kept")
  BY <1>2, <1>3 DEF LedgerSound
<1>5. OfRun(t, e) = "kept"
  <2>1. t.merged /\ e \in DOMAIN t.rows
    <3>1. t.before # {} /\ t.merged \in BOOLEAN
      BY <1>2, LedgerFields DEF LedgerSound
    <3> QED BY <3>1 DEF LedgerSound, Grown
  <2> QED BY <2>1 DEF LedgerSound
<1> QED BY <1>4, <1>5

-----------------------------------------------------------------------------
(* What holds of the lists.                                                                      *)
LateIn(s, st, c, r) ==
    \/ \E d \in Overdue(s) : Touches(s, d, r)
    \/ st = "held" /\ Shut(s, c) /\ Touches(s, c, r)
Late(r) == LateIn(ledger, stage, current, r)

EventsOf(s) == DOMAIN s.rows
HiddenItems(h) == UNION {h[d] : d \in DOMAIN h}
ItemTable(items) == DOMAIN items \subseteq EventIds /\ \A i \in DOMAIN items : items[i] \in Items

ActivityTypes ==
    /\ ItemTable(activity) /\ ItemTable(listed)
    /\ DOMAIN hides \subseteq 1 .. current /\ \A y \in DOMAIN hides : hides[y] \subseteq DOMAIN activity
    /\ blocked \in SUBSET Lineage /\ absorbed \in BOOLEAN
    /\ Batch(writing) /\ Batch(retained)
    /\ current \in ManifestIds /\ used \in [lost : Nat, retries : Nat]

Listing ==
    /\ DOMAIN listed \subseteq DOMAIN activity /\ EventsOf(ledger) \subseteq DOMAIN activity
    /\ NothingAhead

\* What waits for an open drain is hidden by it or by an older one.
OpenIsHidden ==
    \A e \in EventsOf(ledger) : Open(ledger, OfDrain(ledger, e)) =>
        \E x \in DOMAIN hides : e \in hides[x] /\ x <= OfDrain(ledger, e) /\ ~Shut(ledger, x)

RetainedWell ==
    retained # NoBatch =>
        /\ Historical(retained) /\ retained.drain = current /\ ~Shut(ledger, current)
        /\ stage = "reading" /\ retained.event # NoRecord
        /\ retained.event \in DOMAIN activity /\ retained.event \notin DOMAIN listed
        /\ current \in DOMAIN hides /\ retained.event \in hides[current]
        /\ \A y \in DOMAIN hides \ {current} : retained.event \notin hides[y]
        /\ retained.event \in EventsOf(ledger) =>
              /\ OfDrain(ledger, retained.event) = current
              /\ OfRun(ledger, retained.event) = Into(retained, retained.run)
              /\ retained.merge => ledger.merged

WritingWell ==
    /\ ~Historical(writing) /\ writing.event \notin EventsOf(ledger)
    /\ writing.event # NoRecord =>
          writing.event \in DOMAIN listed /\ writing.event \notin HiddenItems(hides)

HidesWell ==
    \A y \in DOMAIN hides :
        /\ y \in ledger.drains \/ (retained # NoBatch /\ y = current)
        /\ ~Shut(ledger, y) \/ (stage = "held" /\ ledger.completedBy[y] = current)

BlockedIn(s, st, c, runs) ==
    \A r \in runs : (s.merged => r = "kept") =>
        BlockedRow(s, r) \/ (st = "held" /\ Shut(s, c) /\ Touches(s, c, r))
BlockedWell == BlockedIn(ledger, stage, current, blocked)

\* While every live write was committed, and at most one batch is under way.
Calm == used.lost = 0 /\ (writing = NoBatch \/ retained = NoBatch)
OnceMoved(r) == IF writing.merge \/ retained.merge THEN "kept" ELSE r

Accounted == DOMAIN activity \subseteq EventsOf(ledger) \cup {writing.event, retained.event}
Unlisted ==
    \A e \in EventsOf(ledger) \ DOMAIN listed :
        OfDrain(ledger, e) # 0 /\ (e \in HiddenItems(hides) \/ Late(OfRun(ledger, e)))
RunsAgree ==
    /\ \A e \in EventsOf(ledger) : activity[e].run = OnceMoved(OfRun(ledger, e))
    /\ retained # NoBatch => activity[retained.event].run = retained.run
    /\ writing.event # NoRecord =>
          activity[writing.event].run = writing.run /\ listed[writing.event].run = writing.run
ListedAgree ==
    \A e \in EventsOf(ledger) \cap DOMAIN listed : Standing(ledger, e) = {} =>
        listed[e].run = Into(writing, OfRun(ledger, e)) \/ Late(OfRun(ledger, e))
HidesTouch ==
    \A y \in DOMAIN hides : \A e \in hides[y] \cap EventsOf(ledger) :
        \/ Touches(ledger, y, OfRun(ledger, e))
        \/ retained # NoBatch /\ y = current /\ (retained.merge \/ e = retained.event)
AbsorbedAgrees == absorbed <=> (ledger.merged \/ writing.merge \/ retained.merge)

InCalm == Accounted /\ Unlisted /\ RunsAgree /\ ListedAgree /\ HidesTouch /\ AbsorbedAgrees

ActivityInv ==
    /\ ActivityTypes /\ LedgerSound(ledger, current)
    /\ Listing /\ OpenIsHidden /\ RetainedWell /\ WritingWell /\ HidesWell /\ BlockedWell
    /\ Calm => InCalm

-----------------------------------------------------------------------------
(* The steps of the lists.                                                                       *)
\* p is items with the item of b, its merge applied.
WithItem(items, b, p) ==
    /\ ItemTable(p)
    /\ DOMAIN p = DOMAIN items \cup Named(b)
    /\ \A i \in DOMAIN items \ Named(b) : p[i].run = Into(b, items[i].run)
    /\ b.event # NoRecord => p[b.event].run = b.run

\* p is items with other labels.
Relabeled(items, p) ==
    ItemTable(p) /\ DOMAIN p = DOMAIN items /\ \A i \in DOMAIN items : p[i].run = items[i].run

LEMMA ProjectedFacts ==
    ASSUME NEW items, ItemTable(items), NEW b, Batch(b)
    PROVE  WithItem(items, b, Projected(items, b))
<1> DEFINE p == Projected(items, b)
<1>1. p = [i \in DOMAIN items \cup Named(b) |->
             IF i \in Named(b) THEN [run |-> b.run, label |-> "Durable"]
             ELSE IF i \in MovedItems(items, b) THEN [items[i] EXCEPT !.run = "kept"]
             ELSE items[i]]
  BY DEF Projected
<1> HIDE DEF p
<1>2. DOMAIN p = DOMAIN items \cup Named(b) /\ Named(b) \subseteq EventIds
  BY <1>1 DEF Batch, Named
<1>3. ASSUME NEW i \in Named(b) PROVE p[i] \in Items /\ p[i].run = b.run
  <2>1. p[i] = [run |-> b.run, label |-> "Durable"]
    BY <1>1
  <2> QED BY <2>1 DEF Items, Batch
<1>4. ASSUME NEW i \in DOMAIN items \ Named(b) PROVE p[i] \in Items /\ p[i].run = Into(b, items[i].run)
  <2>1. items[i] \in Items /\ items[i].run \in Lineage
    BY DEF ItemTable, Items
  <2>2. CASE i \in MovedItems(items, b)
    <3>1. p[i] = [items[i] EXCEPT !.run = "kept"] /\ b.merge
      BY <1>1, <2>2 DEF MovedItems
    <3> QED BY <2>1, <3>1 DEF Items, Into, Lineage
  <2>3. CASE i \notin MovedItems(items, b)
    <3>1. p[i] = items[i] /\ (b.merge => items[i].run = "kept")
      BY <1>1, <2>1, <2>3 DEF MovedItems, Lineage
    <3> QED BY <2>1, <3>1 DEF Into
  <2> QED BY <2>2, <2>3
<1>5. b.event # NoRecord => b.event \in Named(b)
  BY DEF Named
<1>6. ItemTable(p)
  BY <1>2, <1>3, <1>4 DEF ItemTable
<1> QED BY <1>2, <1>3, <1>4, <1>5, <1>6 DEF p, WithItem

LEMMA RelabelFacts ==
    ASSUME NEW items, ItemTable(items), NEW pending, NEW outcome \in Outcomings
    PROVE  Relabeled(items, reclassify_pending(items, pending, Durability(outcome)))
<1> PICK label : label = Durability(outcome)
  OBVIOUS
<1>1. label \in {"Durable", "CurrentOnly", "DurabilityUnknown"}
  BY DEF Durability, Outcomings
<1> DEFINE p == reclassify_pending(items, pending, label)
<1>2. p = [i \in DOMAIN items |-> IF i \in pending THEN [items[i] EXCEPT !.label = label] ELSE items[i]]
  BY DEF reclassify_pending
<1> HIDE DEF p
<1>3. ASSUME NEW i \in DOMAIN items PROVE p[i] \in Items /\ p[i].run = items[i].run
  <2>1. items[i] \in Items
    BY DEF ItemTable
  <2>2. p[i] = [items[i] EXCEPT !.label = label] \/ p[i] = items[i]
    BY <1>2
  <2> QED BY <1>1, <2>1, <2>2 DEF Items
<1>4. ItemTable(p) /\ DOMAIN p = DOMAIN items
  BY <1>2, <1>3 DEF ItemTable
<1> QED BY <1>3, <1>4 DEF p, Relabeled

LEMMA NoBatchFacts ==
    /\ Batch(NoBatch) /\ ~Historical(NoBatch) /\ NoBatch.event = NoRecord /\ ~NoBatch.merge
    /\ \A r : Into(NoBatch, r) = r
BY ActivityConstants DEF NoBatch, Batch, Historical, Lineage, Into

LEMMA LateGrows ==
    ASSUME NEW s, NEW b, NEW t, Grown(s, b, t), NEW st, NEW c, NEW r, LateIn(s, st, c, r)
    PROVE  LateIn(t, st, c, Into(b, r))
<1>1. ASSUME NEW d, Touches(s, d, r) PROVE Touches(t, d, Into(b, r))
  <2>1. <<d, r>> \in s.assoc /\ <<d, r>>[1] = d /\ <<d, r>>[2] = r
    BY <1>1 DEF Touches
  <2> QED BY <2>1 DEF Grown, Touches
<1>2. Overdue(s) \subseteq Overdue(t) /\ (Shut(s, c) => Shut(t, c))
  BY DEF Grown, Overdue, Open, Shut
<1> QED BY <1>1, <1>2 DEF LateIn

LEMMA LateFinishes ==
    ASSUME NEW c \in ManifestIds, NEW s, NEW u, Finished(s, c, u), LedgerSound(u, c), NEW st, NEW r,
           LateIn(s, st, c, r)
    PROVE  LateIn(u, "held", c, r)
<1>1. Shut(u, c)
  BY DEF Finished
<1>2. CASE \E d \in Overdue(s) : Touches(s, d, r)
  <2>1. PICK d \in Overdue(s) : Touches(s, d, r)
    BY <1>2
  <2>2. CASE Shut(u, d)
    <3>1. Touches(u, c, r)
      BY <2>1, <2>2 DEF Finished, Overdue, Open, Shut
    <3> QED BY <1>1, <3>1 DEF LateIn
  <2>3. CASE ~Shut(u, d)
    <3>1. Open(u, d) /\ Touches(u, d, r)
      BY <2>1, <2>3 DEF Finished, Overdue, Open, Shut
    <3>2. d \in Overdue(u)
      BY <1>1, <3>1, OverdueFacts
    <3> QED BY <3>1, <3>2 DEF LateIn
  <2> QED BY <2>2, <2>3
<1>3. CASE Touches(s, c, r)
  BY <1>1, <1>3 DEF Finished, LateIn
<1> QED BY <1>2, <1>3 DEF LateIn

\* What may be in the database after a commit: what was, or what the batch made of it.
LEMMA AfterFacts ==
    ASSUME NEW c \in ManifestIds, NEW s, LedgerSound(s, c), NEW b, Batch(b), b.event \notin DOMAIN s.rows,
           Historical(b) => b.drain = c /\ ~Shut(s, c),
           NEW outcome, NEW u \in After(s, b, outcome)
    PROVE  /\ LedgerSound(u, c)
           /\ (u = s /\ outcome # "committed") \/ (Grown(s, b, u) /\ (b.merge => ~s.merged))
<1>1. CASE u = s /\ outcome # "committed"
  BY <1>1
<1>2. CASE ~Refused(s, b) /\ u = Committed(s, b)
  <2>1. ~(s.merged /\ (b.merge \/ b.run = "gone"))
    BY <1>2 DEF Refused, Replayed
  <2>2. Fresh(s, b, c)
    BY <2>1 DEF Fresh, Batch, Lineage
  <2>3. b.merge => ~s.merged
    BY <2>1
  <2> QED BY <1>2, <2>2, <2>3, CommitFacts
<1>3. (u = s /\ outcome # "committed") \/ (~Refused(s, b) /\ u = Committed(s, b))
  BY DEF After
<1> QED BY <1>1, <1>2, <1>3

\* The promise of the list follows from the invariant.
LEMMA ActivityInvImplies == ActivityInv => LiveMatchesColdRestore
<1> SUFFICES ASSUME ActivityInv PROVE LiveMatchesColdRestore
  OBVIOUS
<1>1. NothingAhead
  BY DEF ActivityInv, Listing
<1> PICK s : s = ledger
  OBVIOUS
<1>2. LedgerSound(s, current) /\ s \in Ledgers
  BY DEF ActivityInv, LedgerSound
<1>3. ASSUME NEW e \in DOMAIN s.rows
      PROVE  /\ s.rows[e].run \in Lineage /\ (s.merged => s.rows[e].run = "kept")
             /\ s.rows[e].drain # 0 => s.rows[e].drain \in ManifestIds
  <2>1. s.rows[e].run \in Lineage /\ s.rows[e].drain \in 0 .. MaxDrains
    BY <1>2, LedgerFields
  <2>2. s.merged => s.rows[e].run = "kept"
    BY <1>2 DEF LedgerSound, OfRun
  <2>3. s.rows[e].drain # 0 => s.rows[e].drain \in ManifestIds
    BY <2>1, ActivityConstants DEF ManifestIds
  <2> QED BY <2>1, <2>2, <2>3
<1>4. ASSUME NEW e \in Waiting(s) PROVE DeferringDrains(s, e) # {}
  <2>1. e \in DOMAIN s.rows /\ (Standing(s, e) # {} \/ ~Restorable(s, e))
    BY DEF Waiting
  <2>2. CASE s.rows[e].run \notin s.ready
    <3>1. BlockedRow(s, s.rows[e].run)
      BY <1>2, <1>3, <2>1, <2>2 DEF LedgerSound
    <3>2. PICK d \in ManifestIds : Open(s, d) /\ <<d, s.rows[e].run>> \in s.assoc
      BY <3>1 DEF BlockedRow
    <3> QED BY <2>2, <3>2 DEF DeferringDrains
  <2>3. CASE s.rows[e].run \in s.ready /\ s.rows[e].drain # 0 /\ Open(s, s.rows[e].drain)
    BY <2>3 DEF DeferringDrains
  <2>4. CASE s.rows[e].run \in s.ready /\ ~(s.rows[e].drain # 0 /\ Open(s, s.rows[e].drain))
    <3>1. Standing(s, e) # {}
      BY <2>1, <2>4 DEF Restorable
    <3>2. PICK x \in Standing(s, e) : TRUE
      BY <3>1
    <3>3. Open(s, x[1])
      BY <2>4, <3>2 DEF Standing
    <3>4. x[1] \in {z[1] : z \in {y \in Standing(s, e) : Open(s, y[1])}}
      BY <3>2, <3>3
    <3>5. DeferringDrains(s, e) = {z[1] : z \in {y \in Standing(s, e) : Open(s, y[1])}}
      BY <2>4, Zenon DEF DeferringDrains
    <3> QED BY <3>4, <3>5
  <2> QED BY <2>2, <2>3, <2>4
<1>5. ASSUME Waits, used.lost = 0, stage # "held", Overtaken = {}
      PROVE  /\ DOMAIN listed \ Enriched \subseteq DOMAIN Restored(ledger)
             /\ DOMAIN Restored(ledger) \subseteq DOMAIN listed \cup Hidden(hides, {}, activity)
             /\ \A e \in DOMAIN listed \ Enriched :
                   listed[e].run = Restored(ledger)[e] \/ Standing(ledger, e) # {}
  <2>1. InCalm /\ writing = NoBatch
    BY <1>5 DEF ActivityInv, Calm, Waits
  <2>2. ASSUME NEW r PROVE ~Late(r)
    BY <1>5 DEF Late, LateIn, Overdue, Overtaken
  <2>3. /\ DOMAIN Restored(ledger) = {x \in DOMAIN s.rows : Restorable(s, x)}
        /\ \A e \in DOMAIN Restored(ledger) : Standing(ledger, e) = {} => Restored(ledger)[e] = s.rows[e].run
    BY DEF Restored
  <2>4. DOMAIN listed \subseteq DOMAIN s.rows
    <3>1. DOMAIN listed \subseteq DOMAIN s.rows \cup {writing.event, retained.event}
      BY <2>1 DEF InCalm, Accounted, EventsOf, ActivityInv, Listing
    <3>2. retained.event \notin DOMAIN listed
      <4>1. NoRecord \notin DOMAIN listed
        BY ActivityConstants DEF ActivityInv, ActivityTypes, ItemTable
      <4> QED BY <4>1, NoBatchFacts DEF ActivityInv, RetainedWell
    <3>3. writing.event \notin DOMAIN listed
      BY <2>1, ActivityConstants, NoBatchFacts DEF ActivityInv, ActivityTypes, ItemTable
    <3> QED BY <3>1, <3>2, <3>3
  <2>5. ASSUME NEW e \in DOMAIN listed \ Enriched PROVE Restorable(s, e)
    <3>1. e \in DOMAIN s.rows /\ (s.rows[e].drain = 0 \/ s.rows[e].run \in s.ready)
      BY <2>4 DEF Enriched
    <3>2. s.rows[e].drain # 0 => ~Open(s, s.rows[e].drain)
      BY <1>1, <3>1 DEF NothingAhead
    <3> QED BY <3>1, <3>2 DEF Restorable
  <2>6. ASSUME NEW e \in DOMAIN Restored(ledger), e \notin DOMAIN listed PROVE e \in HiddenItems(hides)
    <3>1. e \in EventsOf(ledger) \ DOMAIN listed
      BY <2>3, <2>6 DEF EventsOf
    <3> QED BY <2>1, <2>2, <3>1 DEF InCalm, Unlisted
  <2>7. HiddenItems(hides) \subseteq Hidden(hides, {}, activity)
    BY DEF Hidden, HiddenItems
  <2>8. ASSUME NEW e \in DOMAIN listed \ Enriched, Standing(ledger, e) = {}
        PROVE  listed[e].run = Restored(ledger)[e]
    <3>1. e \in DOMAIN Restored(ledger) /\ e \in EventsOf(ledger) \cap DOMAIN listed
      BY <2>3, <2>4, <2>5 DEF EventsOf
    <3>2. listed[e].run = Into(writing, OfRun(ledger, e)) \/ Late(OfRun(ledger, e))
      BY <2>1, <2>8, <3>1 DEF InCalm, ListedAgree
    <3>3. listed[e].run = OfRun(ledger, e)
      BY <2>1, <2>2, <3>2, NoBatchFacts
    <3> QED BY <2>3, <2>8, <3>1, <3>3 DEF OfRun
  <2> QED BY <2>3, <2>4, <2>5, <2>6, <2>7, <2>8
<1> QED BY <1>1, <1>4, <1>5 DEF LiveMatchesColdRestore

LEMMA ActivityInitially == ActivityInit => ActivityInv
<1> SUFFICES ASSUME ActivityInit PROVE ActivityInv
  OBVIOUS
<1> USE DEF ActivityInit
<1>1. /\ DOMAIN activity = {} /\ DOMAIN listed = {} /\ DOMAIN hides = {}
      /\ ledger.rows = Empty /\ DOMAIN ledger.rows = {} /\ DOMAIN ledger.completedBy = {}
      /\ ledger.completedBy = Empty
      /\ current \in ManifestIds /\ 1 \in ManifestIds
  BY ActivityConstants DEF Empty, ManifestIds
<1>2. /\ ledger.before = {} /\ ledger.merged = FALSE /\ ledger.assoc = {1} \X private
      /\ ledger.ready = Lineage \ private /\ ledger.image = {} /\ private \in SUBSET Lineage
      /\ ledger.drains = IF private = {} THEN {} ELSE {1}
  BY DEF Lineage
<1>3. Empty \in EventRows /\ Empty \in UNION {[S -> ManifestIds] : S \in SUBSET ManifestIds}
  <2>1. Empty \in [{} -> [run : Lineage, drain : 0 .. MaxDrains]] /\ Empty \in [{} -> ManifestIds]
    BY DEF Empty
  <2>2. {} \in SUBSET EventIds /\ {} \in SUBSET ManifestIds
    OBVIOUS
  <2> QED BY <2>1, <2>2, RowTables, Completions
<1>4. ledger \in Ledgers
  <2> HIDE DEF ActivityInit
  <2>1. ledger = [rows |-> Empty, drains |-> IF private = {} THEN {} ELSE {1},
                 assoc |-> {1} \X private, completedBy |-> Empty,
                 ready |-> Lineage \ private, image |-> {}, before |-> {}, merged |-> FALSE]
    BY DEF ActivityInit
  <2>2. (IF private = {} THEN {} ELSE {1}) \in SUBSET ManifestIds /\ {1} \X private \in SUBSET (ManifestIds \X Lineage)
    BY <1>1, <1>2
  <2> QED BY <1>2, <1>3, <2>1, <2>2 DEF Ledgers
<1>5. ASSUME NEW r \in Lineage, r \notin ledger.ready PROVE BlockedRow(ledger, r)
  <2>1. r \in private /\ 1 \in ledger.drains /\ <<1, r>> \in ledger.assoc
    BY <1>2, <1>5
  <2> QED BY <1>1, <2>1 DEF BlockedRow, Open
<1>6. LedgerSound(ledger, current)
  <2>1. ledger.drains \subseteq 1 .. current /\ \A a \in ledger.assoc : a[1] \in ledger.drains
    BY <1>2
  <2> QED BY <1>1, <1>2, <1>4, <1>5, <2>1 DEF LedgerSound
<1>7. ActivityTypes
  <2>1. used \in [lost : Nat, retries : Nat]
    OBVIOUS
  <2>2. blocked \in SUBSET Lineage /\ absorbed \in BOOLEAN
    OBVIOUS
  <2> QED BY <1>1, <2>1, <2>2, NoBatchFacts DEF ActivityTypes, ItemTable
<1>8. NoRecord \notin DOMAIN ledger.rows
  BY <1>1
<1>9. /\ Listing /\ OpenIsHidden /\ RetainedWell /\ WritingWell /\ HidesWell /\ BlockedWell
  BY <1>1, NoBatchFacts DEF Listing, NothingAhead, OpenIsHidden, RetainedWell, WritingWell, HidesWell,
     BlockedWell, BlockedIn, EventsOf
<1>10. InCalm
  BY <1>1, <1>2, NoBatchFacts DEF InCalm, Accounted, Unlisted, RunsAgree, ListedAgree, HidesTouch, AbsorbedAgrees, EventsOf
<1> QED BY <1>6, <1>7, <1>9, <1>10 DEF ActivityInv

\* A live submission is on both lists before anything is written.
LEMMA LiveKeeps ==
    ASSUME ActivityInv, NEW e \in EventIds \cup {NoRecord}, NEW r \in Lineage, NEW merge \in BOOLEAN,
           NEW origin \in {"observed", "provider"}, LiveSubmission(e, r, merge, origin)
    PROVE  ActivityInv'
<1> PICK b : b = Submission(e, r, merge, origin)
  OBVIOUS
<1>1. /\ b.event = e /\ b.run = r /\ b.merge = merge /\ b.origin = origin /\ b.drain = 0 /\ b.image = {}
      /\ ~Historical(b)
  BY DEF Submission, Historical
<1>2. /\ Waits /\ WellNamed(b)
      /\ activity' = Projected(activity, b) /\ listed' = Projected(listed, b)
      /\ absorbed' = (absorbed \/ merge)
      /\ writing' = [b EXCEPT !.waits = Awaiting(activity, b), !.waitsShown = Awaiting(listed, b),
                              !.wasPrivate = private]
      /\ UNCHANGED <<hides, blocked, retained, stage, current, ledger, used>>
  BY Zenon DEF LiveSubmission
<1>3. /\ writing'.event = e /\ writing'.run = r /\ writing'.merge = merge /\ writing'.origin = origin
      /\ writing'.drain = 0 /\ writing'.image = {} /\ ~Historical(writing')
  BY <1>2 DEF Submission, Historical
<1>4. Batch(b) /\ Batch(writing')
  <2>1. merge => r = "kept"
    BY <1>1, <1>2 DEF WellNamed
  <2> QED BY <1>1, <1>3, <2>1, ActivityConstants DEF Batch
<1>5. /\ e # NoRecord => e \notin DOMAIN activity /\ e \notin DOMAIN ledger.rows
      /\ merge => ~absorbed
  BY <1>1, <1>2 DEF WellNamed, Unused
<1>6. ItemTable(activity) /\ ItemTable(listed) /\ writing = NoBatch
  BY <1>2 DEF ActivityInv, ActivityTypes, Waits
<1>7. /\ ItemTable(activity') /\ DOMAIN activity' = DOMAIN activity \cup Named(b)
      /\ \A i \in DOMAIN activity \ Named(b) : activity'[i].run = Into(b, activity[i].run)
      /\ e # NoRecord => activity'[e].run = r
  <2>1. WithItem(activity, b, activity')
    BY <1>2, <1>4, <1>6, ProjectedFacts, Zenon
  <2> QED BY <1>1, <2>1 DEF WithItem
<1>8. /\ ItemTable(listed') /\ DOMAIN listed' = DOMAIN listed \cup Named(b)
      /\ \A i \in DOMAIN listed \ Named(b) : listed'[i].run = Into(b, listed[i].run)
      /\ e # NoRecord => listed'[e].run = r
  <2>1. WithItem(listed, b, listed')
    BY <1>2, <1>4, <1>6, ProjectedFacts, Zenon
  <2> QED BY <1>1, <2>1 DEF WithItem
<1>9. /\ Named(b) \cap DOMAIN activity = {} /\ Named(b) \cap EventsOf(ledger) = {}
      /\ e # NoRecord => Named(b) = {e}
      /\ e \notin EventsOf(ledger)
  <2>1. NoRecord \notin EventsOf(ledger)
    BY ActivityConstants, LedgerFields DEF EventsOf, ActivityInv, LedgerSound
  <2> QED BY <1>1, <1>5, <2>1 DEF Named, EventsOf
<1>10. ActivityTypes'
  BY <1>2, <1>4, <1>7, <1>8 DEF ActivityInv, ActivityTypes
<1>11. Listing'
  BY <1>2, <1>7, <1>8, <1>9 DEF ActivityInv, Listing, NothingAhead, EventsOf
<1>12. OpenIsHidden' /\ HidesWell' /\ BlockedWell' /\ LedgerSound(ledger', current')
  BY <1>2 DEF ActivityInv, OpenIsHidden, HidesWell, BlockedWell, EventsOf
<1>13. RetainedWell'
  BY <1>2, <1>7, <1>8, <1>9 DEF ActivityInv, RetainedWell, EventsOf
<1>14. WritingWell'
  <2>1. e # NoRecord => e \notin HiddenItems(hides)
    BY <1>5 DEF ActivityInv, ActivityTypes, HiddenItems
  <2> QED BY <1>2, <1>3, <1>8, <1>9, <2>1 DEF WritingWell, EventsOf
<1>15. ASSUME Calm' PROVE InCalm'
  <2>1. retained = NoBatch /\ Calm
    <3>1. writing' # NoBatch
      BY <1>3 DEF NoBatch
    <3> QED BY <1>2, <1>6, <1>15, <3>1 DEF Calm
  <2>2. Accounted /\ Unlisted /\ RunsAgree /\ ListedAgree /\ HidesTouch /\ AbsorbedAgrees
    BY <2>1 DEF ActivityInv, InCalm
  <2>3. /\ ~writing.merge /\ ~retained.merge /\ writing.event = NoRecord /\ retained.event = NoRecord
        /\ NoRecord \notin DOMAIN activity
    BY <1>6, <2>1, NoBatchFacts, ActivityConstants DEF ItemTable
  <2>4. /\ EventsOf(ledger) \subseteq DOMAIN activity /\ DOMAIN listed \subseteq DOMAIN activity
        /\ EventsOf(ledger') = EventsOf(ledger)
    BY <1>2 DEF ActivityInv, Listing, EventsOf
  <2>5. Accounted'
    BY <1>1, <1>2, <1>3, <1>7, <2>2, <2>3, <2>4 DEF Accounted, Named
  <2>6. Unlisted'
    BY <1>2, <1>8, <2>2, <2>4 DEF Unlisted, Late
  <2>7. RunsAgree'
    <3>1. ASSUME NEW i \in EventsOf(ledger)
          PROVE  activity'[i].run = (IF merge THEN "kept" ELSE OfRun(ledger, i))
      <4>1. activity[i].run = OfRun(ledger, i)
        BY <2>2, <2>3 DEF RunsAgree, OnceMoved
      <4>2. activity'[i].run = Into(b, activity[i].run)
        BY <1>7, <1>9, <2>4
      <4> QED BY <1>1, <4>1, <4>2 DEF Into
    <3>2. \A x : OnceMoved(x)' = IF merge THEN "kept" ELSE x
      BY <1>2, <1>3, <2>3 DEF OnceMoved
    <3> QED BY <1>2, <1>3, <1>7, <1>8, <2>1, <2>4, <3>1, <3>2 DEF RunsAgree, OnceMoved
  <2>8. ListedAgree'
    <3> SUFFICES ASSUME NEW i \in EventsOf(ledger) \cap DOMAIN listed', Standing(ledger, i) = {}
                 PROVE  listed'[i].run = Into(writing', OfRun(ledger, i)) \/ Late(OfRun(ledger, i))
      BY <1>2, <2>4 DEF ListedAgree, Late
    <3>1. i \in DOMAIN listed \ Named(b)
      BY <1>8, <1>9
    <3>2. listed[i].run = OfRun(ledger, i) \/ Late(OfRun(ledger, i))
      BY <1>6, <2>2, <3>1, NoBatchFacts DEF ListedAgree
    <3> QED BY <1>1, <1>3, <1>8, <3>1, <3>2 DEF Into
  <2>9. HidesTouch'
    BY <1>2, <2>2 DEF HidesTouch, EventsOf
  <2>10. AbsorbedAgrees'
    BY <1>2, <1>3, <2>2, <2>3 DEF AbsorbedAgrees
  <2> QED BY <2>5, <2>6, <2>7, <2>8, <2>9, <2>10 DEF InCalm
<1> QED BY <1>10, <1>11, <1>12, <1>13, <1>14, <1>15 DEF ActivityInv

\* A drain that has a run has what the run has become.
LEMMA TouchesGrow ==
    ASSUME NEW s, NEW b, NEW t, Grown(s, b, t)
    PROVE  \A d, r : Touches(s, d, r) => Touches(t, d, Into(b, r))
<1> SUFFICES ASSUME NEW d, NEW r, Touches(s, d, r) PROVE Touches(t, d, Into(b, r))
  OBVIOUS
<1>1. <<d, r>> \in s.assoc /\ <<d, r>>[1] = d /\ <<d, r>>[2] = r
  BY DEF Touches
<1> QED BY <1>1 DEF Grown, Touches

Growth(s, b, t) ==
    /\ \A d, r : Touches(s, d, r) => Touches(t, d, Into(b, r))
    /\ \A d : Shut(t, d) <=> Shut(s, d)
    /\ \A d : Open(s, d) => Open(t, d)
    /\ \A d : Open(t, d) => Open(s, d) \/ (Historical(b) /\ d = b.drain)
    /\ Historical(b) => Touches(t, b.drain, b.run) /\ b.drain \in t.drains
    /\ s.drains \subseteq t.drains
    /\ \A e \in EventsOf(s) : OfDrain(t, e) = OfDrain(s, e) /\ OfRun(t, e) = Into(b, OfRun(s, e))
    /\ EventsOf(t) = EventsOf(s) \cup Named(b)
    /\ b.event # NoRecord => OfDrain(t, b.event) = b.drain /\ OfRun(t, b.event) = b.run

LEMMA GrownFacts ==
    ASSUME NEW s, NEW b, Batch(b), NEW t, Grown(s, b, t)
    PROVE  Growth(s, b, t)
<1>1. \A d, r : Touches(s, d, r) => Touches(t, d, Into(b, r))
  BY TouchesGrow
<1>2. Historical(b) => Touches(t, b.drain, b.run)
  BY DEF Grown, Touches
<1>3. \A d : Shut(t, d) <=> Shut(s, d)
  BY DEF Grown, Shut
<1>4. t.drains = s.drains \cup (IF Historical(b) THEN {b.drain} ELSE {})
  BY DEF Grown
<1>5. \A d : (Open(s, d) => Open(t, d)) /\ (Open(t, d) => Open(s, d) \/ (Historical(b) /\ d = b.drain))
  BY <1>3, <1>4 DEF Open, Shut
<1>6. b.event # NoRecord => OfDrain(t, b.event) = b.drain /\ OfRun(t, b.event) = b.run
  BY DEF Grown, OfDrain, OfRun
<1>7. EventsOf(t) = EventsOf(s) \cup Named(b)
  BY DEF Grown, EventsOf
<1>8. \A e \in EventsOf(s) : OfDrain(t, e) = OfDrain(s, e) /\ OfRun(t, e) = Into(b, OfRun(s, e))
  BY DEF Grown, EventsOf
<1> QED BY <1>1, <1>2, <1>3, <1>4, <1>5, <1>6, <1>7, <1>8 DEF Growth

LEMMA BlockedGrows ==
    ASSUME NEW s, NEW b, Batch(b), NEW t, Grown(s, b, t), NEW st, NEW c, NEW runs, BlockedIn(s, st, c, runs)
    PROVE  BlockedIn(t, st, c, runs)
<1> SUFFICES ASSUME NEW r \in runs, t.merged => r = "kept"
             PROVE  BlockedRow(t, r) \/ (st = "held" /\ Shut(t, c) /\ Touches(t, c, r))
  BY DEF BlockedIn
<1>0. Growth(s, b, t)
  BY GrownFacts
<1>1. (s.merged => r = "kept") /\ Into(b, r) = r
  BY DEF Grown, Into, Batch
<1>2. CASE BlockedRow(s, r)
  <2>1. PICK d \in ManifestIds : Open(s, d) /\ Touches(s, d, r)
    BY <1>2 DEF BlockedRow, Touches
  <2>2. Open(t, d) /\ Touches(t, d, Into(b, r))
    BY <1>0, <2>1 DEF Growth
  <2> QED BY <1>1, <2>2 DEF BlockedRow, Touches
<1>3. CASE st = "held" /\ Shut(s, c) /\ Touches(s, c, r)
  <2>1. Shut(t, c) /\ Touches(t, c, Into(b, r))
    BY <1>0, <1>3 DEF Growth
  <2> QED BY <1>1, <1>3, <2>1
<1> QED BY <1>1, <1>2, <1>3 DEF BlockedIn

LEMMA StandingGrows ==
    ASSUME NEW c \in ManifestIds, NEW s, LedgerSound(s, c), NEW b, Batch(b), NEW t, LedgerSound(t, c),
           Grown(s, b, t), b.merge => ~s.merged, NEW e \in DOMAIN s.rows, Standing(t, e) = {}, NEW st
    PROVE  Standing(s, e) = {} \/ LateIn(t, st, c, OfRun(t, e))
<1>1. CASE b.merge
  <2>1. s.before = {}
    BY <1>1 DEF LedgerSound
  <2> QED BY <2>1 DEF Standing
<1>2. CASE ~b.merge
  BY <1>2, StandingAfterCommit DEF LateIn
<1> QED BY <1>1, <1>2

\* The answer to a live write settles what may be in the database, and relabels.
LEMMA SettleKeeps ==
    ASSUME ActivityInv, NEW outcome \in Outcomings, Settle(outcome)
    PROVE  ActivityInv'
<1>1. /\ writing # NoBatch
      /\ retained # NoBatch => outcome = "lost"
      /\ ledger' \in After(ledger, writing, outcome)
      /\ activity' = reclassify_pending(activity, writing.waits, Durability(outcome))
      /\ listed' = reclassify_pending(listed, writing.waitsShown, Durability(outcome))
      /\ writing' = NoBatch
      /\ UNCHANGED <<hides, blocked, retained, stage, current>>
  BY DEF Settle
<1>2. /\ outcome = "committed" => UNCHANGED <<absorbed, used>>
      /\ outcome # "committed" => /\ used' = [used EXCEPT !["lost"] = @ + 1]
                                  /\ absorbed' = (absorbed /\ ~(Checkpointed(writing) /\ writing.merge))
  BY DEF Settle, Count
<1>3. /\ ActivityTypes /\ LedgerSound(ledger, current) /\ Listing /\ OpenIsHidden /\ RetainedWell
      /\ WritingWell /\ HidesWell /\ BlockedWell /\ (Calm => InCalm)
  BY DEF ActivityInv
<1>4. /\ ItemTable(activity) /\ ItemTable(listed) /\ Batch(writing) /\ current \in ManifestIds
      /\ used \in [lost : Nat, retries : Nat] /\ absorbed \in BOOLEAN
  BY <1>3 DEF ActivityTypes
<1>5. Relabeled(activity, activity') /\ Relabeled(listed, listed')
  BY <1>1, <1>4, RelabelFacts, Zenon
<1> PICK s : s = ledger
  OBVIOUS
<1> PICK t : t = ledger'
  OBVIOUS
<1>6. /\ LedgerSound(s, current) /\ ~Historical(writing) /\ writing.event \notin DOMAIN s.rows
      /\ t \in After(s, writing, outcome)
  BY <1>1, <1>3 DEF WritingWell, EventsOf
<1>7. /\ LedgerSound(t, current)
      /\ (t = s /\ outcome # "committed") \/ (Grown(s, writing, t) /\ (writing.merge => ~s.merged))
  BY <1>4, <1>6, AfterFacts
<1>8. writing.drain = 0
  BY <1>4, <1>6 DEF Batch
<1>9. /\ \A d : Shut(t, d) <=> Shut(s, d)
      /\ \A d : Open(t, d) <=> Open(s, d)
      /\ \A d : t.completedBy[d] = s.completedBy[d]
      /\ s.drains \subseteq t.drains
      /\ EventsOf(s) \subseteq EventsOf(t) /\ EventsOf(t) \subseteq EventsOf(s) \cup Named(writing)
      /\ \A e \in EventsOf(s) : OfDrain(t, e) = OfDrain(s, e)
      /\ \A e \in EventsOf(t) \ EventsOf(s) :
            e = writing.event /\ e # NoRecord /\ OfDrain(t, e) = 0 /\ OfRun(t, e) = writing.run
  <2>1. CASE t = s
    BY <2>1
  <2>2. CASE Grown(s, writing, t)
    <3>1. t.completedBy = s.completedBy
      BY <2>2 DEF Grown
    <3>2. Growth(s, writing, t)
      BY <1>4, <2>2, GrownFacts, Zenon
    <3> QED BY <1>6, <1>8, <3>1, <3>2 DEF Growth, Named
  <2> QED BY <1>7, <2>1, <2>2
<1>10. ~Open(s, 0)
  BY <1>6 DEF LedgerSound, Open
<1>11. NoRecord \notin EventsOf(t) /\ NoRecord \notin DOMAIN activity
  BY <1>4, <1>7, ActivityConstants, LedgerFields DEF LedgerSound, EventsOf, ItemTable
<1>12. ActivityTypes'
  <2>1. used' \in [lost : Nat, retries : Nat] /\ absorbed' \in BOOLEAN
    <3>1. CASE outcome = "committed"
      BY <1>2, <1>4, <3>1
    <3>2. CASE outcome # "committed"
      BY <1>2, <1>4, <3>2
    <3> QED BY <3>1, <3>2
  <2> QED BY <1>1, <1>3, <1>5, <2>1, NoBatchFacts DEF ActivityTypes, Relabeled
<1>13. Listing'
  <2>1. Named(writing) \subseteq DOMAIN listed
    BY <1>3 DEF WritingWell, Named
  <2>2. DOMAIN listed' \subseteq DOMAIN activity' /\ EventsOf(t) \subseteq DOMAIN activity'
    BY <1>3, <1>5, <1>9, <2>1 DEF Listing, Relabeled
  <2>3. ASSUME NEW e \in DOMAIN listed' \cap DOMAIN t.rows, t.rows[e].drain # 0
        PROVE  ~Open(t, t.rows[e].drain)
    <3>1. e \in DOMAIN listed \cap DOMAIN s.rows /\ s.rows[e].drain = t.rows[e].drain
      BY <1>5, <1>9, <2>3 DEF Relabeled, EventsOf, OfDrain
    <3> QED BY <1>3, <1>9, <2>3, <3>1 DEF Listing, NothingAhead
  <2> QED BY <2>2, <2>3 DEF Listing, NothingAhead
<1>14. OpenIsHidden'
  <2> SUFFICES ASSUME NEW e \in EventsOf(t), Open(t, OfDrain(t, e))
               PROVE  \E x \in DOMAIN hides : e \in hides[x] /\ x <= OfDrain(t, e) /\ ~Shut(t, x)
    BY <1>1 DEF OpenIsHidden
  <2>1. e \in EventsOf(s)
    BY <1>9, <1>10
  <2> QED BY <1>3, <1>9, <2>1 DEF OpenIsHidden
<1>15. RetainedWell'
  <2> SUFFICES ASSUME retained # NoBatch PROVE RetainedWell'
    BY <1>1 DEF RetainedWell
  <2>1. t = s
    BY <1>1, <1>6 DEF After
  <2> QED BY <1>1, <1>3, <1>5, <2>1 DEF RetainedWell, Relabeled
<1>16. WritingWell'
  BY <1>1, <1>11, NoBatchFacts DEF WritingWell
<1>17. HidesWell'
  BY <1>1, <1>3, <1>9 DEF HidesWell
<1>18. BlockedWell'
  <2>1. BlockedIn(s, stage, current, blocked)
    BY <1>3 DEF BlockedWell
  <2>2. BlockedIn(t, stage, current, blocked)
    BY <1>4, <1>7, <2>1, BlockedGrows
  <2> QED BY <1>1, <2>2 DEF BlockedWell
<1>19. ASSUME Calm' PROVE InCalm'
  <2>1. outcome = "committed"
    <3> SUFFICES ASSUME outcome # "committed" PROVE FALSE
      OBVIOUS
    <3>1. used'.lost = used.lost + 1 /\ used.lost \in Nat
      BY <1>2, <1>4
    <3> QED BY <1>19, <3>1 DEF Calm
  <2>2. /\ retained = NoBatch /\ Calm /\ absorbed' = absorbed /\ Grown(s, writing, t)
        /\ writing.merge => ~s.merged
    BY <1>1, <1>2, <1>7, <1>19, <2>1 DEF Calm
  <2>3. Accounted /\ Unlisted /\ RunsAgree /\ ListedAgree /\ HidesTouch /\ AbsorbedAgrees
    BY <1>3, <2>2 DEF InCalm
  <2>4. /\ ~retained.merge /\ ~writing'.merge /\ retained.event = NoRecord /\ writing'.event = NoRecord
        /\ \A r : Into(writing', r) = r
    BY <1>1, <2>2, NoBatchFacts
  <2>5. /\ \A e \in EventsOf(s) : OfRun(t, e) = Into(writing, OfRun(s, e))
        /\ EventsOf(t) = EventsOf(s) \cup Named(writing)
        /\ \A d, r : Touches(s, d, r) => Touches(t, d, Into(writing, r))
    <3>1. Growth(s, writing, t)
      BY <1>4, <2>2, GrownFacts, Zenon
    <3> QED BY <3>1 DEF Growth
  <2>6. ASSUME NEW r, LateIn(s, stage, current, r) PROVE LateIn(t, stage, current, Into(writing, r))
    BY <2>2, <2>6, LateGrows
  <2>7. writing.merge => writing.run = "kept"
    BY <1>4 DEF Batch
  <2>8. Accounted'
    BY <1>1, <1>5, <2>3, <2>4, <2>5 DEF Accounted, Relabeled, Named
  <2>9. Unlisted'
    <3> SUFFICES ASSUME NEW e \in EventsOf(t) \ DOMAIN listed'
                 PROVE  OfDrain(t, e) # 0 /\ (e \in HiddenItems(hides) \/ LateIn(t, stage, current, OfRun(t, e)))
      BY <1>1 DEF Unlisted, Late
    <3>1. e \in EventsOf(s) \ DOMAIN listed
      BY <1>3, <1>5, <1>9 DEF WritingWell, Relabeled
    <3>2. OfDrain(s, e) # 0 /\ (e \in HiddenItems(hides) \/ LateIn(s, stage, current, OfRun(s, e)))
      BY <2>3, <3>1 DEF Unlisted, Late
    <3> QED BY <1>9, <2>5, <2>6, <3>1, <3>2
  <2>10. RunsAgree'
    <3>1. ASSUME NEW e \in EventsOf(t) PROVE activity'[e].run = OfRun(t, e)
      <4>1. CASE e \in EventsOf(s)
        <5>1. activity[e].run = Into(writing, OfRun(s, e))
          BY <2>3, <2>4, <4>1 DEF RunsAgree, OnceMoved, Into
        <5>2. e \in DOMAIN activity
          BY <1>3, <4>1 DEF Listing
        <5> QED BY <1>5, <2>5, <4>1, <5>1, <5>2 DEF Relabeled
      <4>2. CASE e \notin EventsOf(s)
        <5>1. e = writing.event /\ e # NoRecord /\ OfRun(t, e) = writing.run
          BY <1>9, <4>2
        <5>2. activity[e].run = writing.run /\ e \in DOMAIN activity
          BY <1>3, <2>3, <5>1 DEF RunsAgree, WritingWell, Listing
        <5> QED BY <1>5, <5>1, <5>2 DEF Relabeled
      <4> QED BY <4>1, <4>2
    <3> QED BY <1>1, <2>2, <2>4, <3>1 DEF RunsAgree, OnceMoved
  <2>11. ListedAgree'
    <3> SUFFICES ASSUME NEW e \in EventsOf(t) \cap DOMAIN listed', Standing(t, e) = {}
                 PROVE  listed'[e].run = OfRun(t, e) \/ LateIn(t, stage, current, OfRun(t, e))
      BY <1>1, <2>4 DEF ListedAgree, Late
    <3>1. e \in DOMAIN listed /\ listed'[e].run = listed[e].run
      BY <1>5 DEF Relabeled
    <3>2. CASE e \in EventsOf(s)
      <4>1. Standing(s, e) = {} \/ LateIn(t, stage, current, OfRun(t, e))
        BY <1>4, <1>6, <1>7, <2>2, <3>2, StandingGrows DEF EventsOf
      <4>2. ASSUME Standing(s, e) = {}
            PROVE  listed[e].run = Into(writing, OfRun(s, e)) \/ LateIn(s, stage, current, OfRun(s, e))
        BY <2>3, <3>1, <3>2, <4>2 DEF ListedAgree, Late
      <4> QED BY <2>5, <2>6, <3>1, <3>2, <4>1, <4>2
    <3>3. CASE e \notin EventsOf(s)
      <4>1. e = writing.event /\ e # NoRecord /\ OfRun(t, e) = writing.run
        BY <1>9, <3>3
      <4> QED BY <2>3, <3>1, <4>1 DEF RunsAgree
    <3> QED BY <3>2, <3>3
  <2>12. HidesTouch'
    <3> SUFFICES ASSUME NEW y \in DOMAIN hides, NEW e \in hides[y] \cap EventsOf(t)
                 PROVE  Touches(t, y, OfRun(t, e))
      BY <1>1 DEF HidesTouch
    <3>1. e \in EventsOf(s)
      <4>1. e \in HiddenItems(hides)
        BY DEF HiddenItems
      <4> QED BY <1>3, <1>9, <4>1 DEF WritingWell
    <3>2. Touches(s, y, OfRun(s, e))
      BY <2>2, <2>3, <3>1 DEF HidesTouch
    <3> QED BY <2>5, <3>1, <3>2
  <2>13. AbsorbedAgrees'
    <3>1. t.merged = (s.merged \/ writing.merge)
      BY <2>2 DEF Grown
    <3> QED BY <1>1, <2>2, <2>3, <2>4, <3>1 DEF AbsorbedAgrees
  <2> QED BY <2>8, <2>9, <2>10, <2>11, <2>12, <2>13 DEF InCalm
<1> QED BY <1>1, <1>7, <1>12, <1>13, <1>14, <1>15, <1>16, <1>17, <1>18, <1>19 DEF ActivityInv

\* A drain that shows a row has been created.
LEMMA RowDrains ==
    ASSUME NEW c, NEW s, LedgerSound(s, c), NEW e \in EventsOf(s), OfDrain(s, e) # 0
    PROVE  OfDrain(s, e) \in s.drains
<1>1. <<OfDrain(s, e), OfRun(s, e)>> \in s.assoc
  BY DEF LedgerSound, EventsOf, Touches
<1>2. <<OfDrain(s, e), OfRun(s, e)>>[1] = OfDrain(s, e)
  OBVIOUS
<1> QED BY <1>1, <1>2 DEF LedgerSound

\* A historical batch keeps the image of every row it moves, and what was shown stays right.
LEMMA StandingAfterHistory ==
    ASSUME NEW c \in ManifestIds, NEW s, LedgerSound(s, c), NEW b, Batch(b), NEW t, LedgerSound(t, c),
           Grown(s, b, t), b.merge => ~s.merged, Historical(b), b.drain = c, ~Shut(s, c),
           NEW e \in EventsOf(s), Standing(t, e) = {}, NEW st
    PROVE  (Standing(s, e) = {} /\ OfRun(t, e) = OfRun(s, e)) \/ LateIn(t, st, c, OfRun(t, e))
<1>1. OfRun(t, e) = Into(b, OfRun(s, e)) /\ Open(t, c)
  <2>1. OfRun(t, e) = Into(b, OfRun(s, e)) /\ c \in t.drains /\ ~Shut(t, c)
    <3>1. /\ \A d : Shut(t, d) <=> Shut(s, d)
          /\ Historical(b) => Touches(t, b.drain, b.run) /\ b.drain \in t.drains
          /\ \A i \in EventsOf(s) : OfDrain(t, i) = OfDrain(s, i) /\ OfRun(t, i) = Into(b, OfRun(s, i))
      BY GrownFacts, Zenon DEF Growth
    <3> QED BY <3>1
  <2> QED BY <2>1 DEF Open, Shut
<1>2. Standing(s, e) = {} \/ LateIn(t, st, c, OfRun(t, e))
  BY StandingGrows DEF EventsOf
<1>3. CASE b.merge /\ OfRun(s, e) = "gone"
  <2>1. <<c, e>> \in t.before
    BY <1>3 DEF Grown, EventsOf
  <2>2. <<c, e>>[1] = c /\ <<c, e>>[2] = e
    OBVIOUS
  <2>3. <<c, e>> \in Standing(t, e)
    BY <1>1, <2>1, <2>2 DEF Standing
  <2> QED BY <2>3
<1>4. CASE ~(b.merge /\ OfRun(s, e) = "gone")
  <2>1. OfRun(s, e) \in Lineage
    BY LedgerFields DEF LedgerSound, OfRun, EventsOf
  <2>2. OfRun(t, e) = OfRun(s, e)
    BY <1>1, <1>4, <2>1 DEF Into, Lineage
  <2> QED BY <1>2, <2>2
<1> QED BY <1>3, <1>4

Remembering(b, image, waits) == [b EXCEPT !.image = image, !.waits = waits]

\* A historical record joins the private list, hidden by its drain, whatever becomes of its write.
LEMMA HistoricalKeeps ==
    ASSUME ActivityInv, NEW e \in EventIds, NEW r \in Lineage, NEW merge \in BOOLEAN,
           NEW outcome \in Outcomings, HistoricalSubmission(e, r, merge, outcome)
    PROVE  ActivityInv'
<1> PICK before : before = Submission(e, r, merge, "history")
  OBVIOUS
<1> PICK image : image = IF (IF merge THEN Lineage ELSE {r}) \subseteq private THEN {} ELSE {r}
  OBVIOUS
<1> PICK b : b = Remembering(before, image, Awaiting(activity, before))
  OBVIOUS
<1>1. /\ IngressOpen /\ stage = "reading" /\ WellNamed(b) /\ e # NoRecord
      /\ current \notin DOMAIN ledger.completedBy
      /\ activity' = reclassify_pending(Projected(activity, b), b.waits, Durability(outcome))
      /\ hides' = [x \in DOMAIN hides \cup {current} |->
                      IF x = current
                      THEN b.waits \cup (IF current \in DOMAIN hides THEN hides[current] ELSE {})
                      ELSE hides[x]]
      /\ absorbed' = (absorbed \/ merge)
      /\ ledger' \in After(ledger, b, outcome)
      /\ IF outcome = "committed" THEN UNCHANGED <<retained, used>>
         ELSE retained' = b /\ used.retries < MaxRetries /\ Count("retries")
      /\ UNCHANGED <<listed, blocked, writing, stage, current>>
  BY Zenon DEF HistoricalSubmission, Remembering
<1>2. /\ before.event = e /\ before.run = r /\ before.merge = merge /\ before.origin = "history"
      /\ before.drain = current
      /\ b.event = e /\ b.run = r /\ b.merge = merge /\ b.origin = "history" /\ b.drain = current
      /\ b.image = image /\ b.waits = Awaiting(activity, before) /\ b # NoBatch
  BY DEF Submission, NoBatch, Remembering
<1>3. /\ ActivityTypes /\ LedgerSound(ledger, current) /\ Listing /\ OpenIsHidden /\ RetainedWell
      /\ WritingWell /\ HidesWell /\ BlockedWell /\ (Calm => InCalm)
  BY DEF ActivityInv
<1>4. /\ ItemTable(activity) /\ current \in ManifestIds /\ current # 0
      /\ used \in [lost : Nat, retries : Nat] /\ absorbed \in BOOLEAN
      /\ writing = NoBatch /\ retained = NoBatch
  BY <1>1, <1>3 DEF ActivityTypes, ManifestIds, IngressOpen, Waits
<1>5. Historical(b) /\ Batch(b)
  <2>1. merge => r = "kept"
    BY <1>1, <1>2 DEF WellNamed
  <2>2. image \in SUBSET Lineage /\ current \in 0 .. MaxDrains
    BY <1>4, ActivityConstants DEF ManifestIds
  <2> QED BY <1>2, <1>4, <2>1, <2>2 DEF Historical, Batch
<1>6. /\ e \notin DOMAIN activity /\ e \notin EventsOf(ledger) /\ e \notin DOMAIN listed
      /\ merge => ~absorbed
  BY <1>1, <1>2, <1>3 DEF WellNamed, Unused, Listing, EventsOf
<1>7. Named(b) = {e} /\ b.waits = {e} \cup MovedItems(activity, b)
  BY <1>1, <1>2 DEF Named, Awaiting, MovedItems
<1>8. /\ ItemTable(activity') /\ DOMAIN activity' = DOMAIN activity \cup {e}
      /\ \A i \in DOMAIN activity : activity'[i].run = Into(b, activity[i].run)
      /\ activity'[e].run = r
  <2>1. PICK p : p = Projected(activity, b)
    OBVIOUS
  <2>2. WithItem(activity, b, p)
    BY <1>4, <1>5, <2>1, ProjectedFacts, Zenon
  <2>3. ItemTable(p)
    BY <2>2 DEF WithItem
  <2>4. Relabeled(p, activity')
    BY <1>1, <2>1, <2>3, RelabelFacts, Zenon
  <2>5. /\ DOMAIN p = DOMAIN activity \cup {e} /\ p[e].run = r
        /\ \A i \in DOMAIN activity \ {e} : p[i].run = Into(b, activity[i].run)
    BY <1>1, <1>2, <1>7, <2>2 DEF WithItem
  <2>6. /\ ItemTable(activity') /\ DOMAIN activity' = DOMAIN p
        /\ \A i \in DOMAIN p : activity'[i].run = p[i].run
    BY <2>4 DEF Relabeled
  <2>7. ASSUME NEW i \in DOMAIN activity PROVE activity'[i].run = Into(b, activity[i].run)
    <3>1. i # e
      BY <1>6
    <3> QED BY <2>5, <2>6, <3>1
  <2>8. activity'[e].run = r
    BY <2>5, <2>6
  <2> QED BY <2>5, <2>6, <2>7, <2>8
<1> PICK s : s = ledger
  OBVIOUS
<1> PICK t : t = ledger'
  OBVIOUS
<1>9. /\ LedgerSound(s, current) /\ b.event \notin DOMAIN s.rows /\ b.drain = current /\ ~Shut(s, current)
      /\ t \in After(s, b, outcome)
  BY <1>1, <1>2, <1>3, <1>6 DEF EventsOf, Shut
<1>10. /\ LedgerSound(t, current)
       /\ (t = s /\ outcome # "committed") \/ (Grown(s, b, t) /\ (merge => ~s.merged))
  <2>1. Historical(b) => b.drain = current /\ ~Shut(s, current)
    BY <1>9
  <2>2. /\ LedgerSound(t, current)
        /\ (t = s /\ outcome # "committed") \/ (Grown(s, b, t) /\ (b.merge => ~s.merged))
    BY <1>4, <1>5, <1>9, <2>1, AfterFacts
  <2> QED BY <1>2, <2>2
<1>11. /\ outcome = "committed" => retained' = NoBatch /\ used' = used
       /\ outcome # "committed" => retained' = b /\ used' = [used EXCEPT !["retries"] = @ + 1]
  BY <1>1, <1>4 DEF Count
<1>12. /\ used' \in [lost : Nat, retries : Nat] /\ used'.lost = used.lost
  BY <1>4, <1>11
<1>13. /\ \A d : Shut(t, d) <=> Shut(s, d)
       /\ \A d : Open(t, d) => Open(s, d) \/ d = current
       /\ t.completedBy = s.completedBy /\ s.drains \subseteq t.drains
       /\ \A i \in EventsOf(s) : OfDrain(t, i) = OfDrain(s, i)
       /\ EventsOf(s) \subseteq EventsOf(t) /\ EventsOf(t) \subseteq EventsOf(s) \cup {e}
       /\ e \in EventsOf(t) => OfDrain(t, e) = current /\ OfRun(t, e) = r /\ Grown(s, b, t)
  <2>1. CASE t = s
    BY <1>6, <2>1
  <2>2. CASE Grown(s, b, t)
    <3>1. t.completedBy = s.completedBy
      BY <2>2 DEF Grown
    <3>2. Growth(s, b, t)
      BY <1>5, <2>2, GrownFacts, Zenon
    <3> QED BY <1>1, <1>2, <1>7, <2>2, <3>1, <3>2 DEF Growth
  <2> QED BY <1>10, <2>1, <2>2
<1>14. /\ DOMAIN hides' = DOMAIN hides \cup {current}
       /\ \A y \in DOMAIN hides : hides[y] \subseteq hides'[y]
       /\ \A y \in DOMAIN hides' \ {current} : y \in DOMAIN hides /\ hides'[y] = hides[y]
       /\ e \in hides'[current]
       /\ \A i \in hides'[current] : i = e \/ i \in MovedItems(activity, b)
                                     \/ (current \in DOMAIN hides /\ i \in hides[current])
  BY <1>1, <1>7
<1>15. NoRecord \notin EventsOf(t)
  BY <1>10, ActivityConstants, LedgerFields DEF LedgerSound, EventsOf
<1>16. ActivityTypes'
  <2>1. \A y \in DOMAIN hides' : hides'[y] \subseteq DOMAIN activity'
    BY <1>3, <1>8, <1>14 DEF ActivityTypes, MovedItems
  <2>2. DOMAIN hides' \subseteq 1 .. current'
    <3>1. current \in 1 .. current /\ current' = current
      BY <1>1, <1>4, ActivityConstants DEF ManifestIds
    <3>2. DOMAIN hides \subseteq 1 .. current
      BY <1>3 DEF ActivityTypes
    <3> QED BY <1>14, <3>1, <3>2
  <2>3. Batch(retained') /\ absorbed' \in BOOLEAN
    BY <1>1, <1>4, <1>5, <1>11, NoBatchFacts
  <2> QED BY <1>1, <1>3, <1>8, <1>12, <2>1, <2>2, <2>3 DEF ActivityTypes
<1>17. Listing'
  <2>1. DOMAIN listed' \subseteq DOMAIN activity' /\ EventsOf(t) \subseteq DOMAIN activity'
    BY <1>1, <1>3, <1>8, <1>13 DEF Listing
  <2>2. ASSUME NEW i \in DOMAIN listed \cap DOMAIN t.rows, t.rows[i].drain # 0
        PROVE  ~Open(t, t.rows[i].drain)
    <3>1. i \in EventsOf(s) /\ t.rows[i].drain = s.rows[i].drain /\ i \in DOMAIN s.rows
      BY <1>6, <1>13, <2>2 DEF EventsOf, OfDrain
    <3>2. ~Open(s, s.rows[i].drain)
      BY <1>3, <2>2, <3>1 DEF Listing, NothingAhead
    <3>3. s.rows[i].drain \in s.drains
      BY <1>9, <2>2, <3>1, RowDrains DEF OfDrain
    <3> QED BY <1>9, <1>13, <3>1, <3>2, <3>3 DEF Open, Shut
  <2> QED BY <1>1, <2>1, <2>2 DEF Listing, NothingAhead
<1>18. OpenIsHidden'
  <2> SUFFICES ASSUME NEW i \in EventsOf(t), Open(t, OfDrain(t, i))
               PROVE  \E x \in DOMAIN hides' : i \in hides'[x] /\ x <= OfDrain(t, i) /\ ~Shut(t, x)
    BY DEF OpenIsHidden
  <2>1. CASE i = e
    <3>1. OfDrain(t, i) = current /\ current <= current
      BY <1>4, <1>13, <2>1 DEF ManifestIds
    <3> QED BY <1>9, <1>13, <1>14, <2>1, <3>1
  <2>2. CASE i # e
    <3>1. i \in EventsOf(s) /\ OfDrain(t, i) = OfDrain(s, i)
      BY <1>13, <2>2
    <3>2. OfDrain(s, i) # 0
      BY <1>4, <1>10, <3>1 DEF LedgerSound, Open
    <3>3. Open(s, OfDrain(s, i))
      BY <1>9, <1>13, <3>1, <3>2, RowDrains DEF Open, Shut
    <3>4. PICK x \in DOMAIN hides : i \in hides[x] /\ x <= OfDrain(s, i) /\ ~Shut(s, x)
      BY <1>3, <3>1, <3>3 DEF OpenIsHidden
    <3> QED BY <1>13, <1>14, <3>1, <3>4
  <2> QED BY <2>1, <2>2
<1>19. RetainedWell'
  <2> SUFFICES ASSUME retained' = b PROVE RetainedWell'
    BY <1>11 DEF RetainedWell
  <2>1. e \in EventsOf(t) => /\ OfDrain(t, e) = current /\ OfRun(t, e) = Into(b, r)
                             /\ merge => t.merged
    <3>1. OfRun(t, e) = r => OfRun(t, e) = Into(b, r)
      BY <1>2, <1>5 DEF Into, Batch
    <3>2. Grown(s, b, t) => (merge => t.merged)
      BY <1>2 DEF Grown
    <3> QED BY <1>13, <3>1, <3>2
  <2>2. \A y \in DOMAIN hides' \ {current} : e \notin hides'[y]
    BY <1>3, <1>6, <1>14 DEF ActivityTypes
  <2>3. /\ e \in DOMAIN activity' /\ e \notin DOMAIN listed' /\ current \in DOMAIN hides'
        /\ e \in hides'[current] /\ stage' = "reading" /\ current' = current /\ ~Shut(t, current)
    BY <1>1, <1>6, <1>8, <1>9, <1>13, <1>14
  <2>4. retained'.event = e /\ retained'.run = r /\ retained'.merge = merge /\ retained'.drain = current
        /\ Historical(retained') /\ e # NoRecord
    BY <1>1, <1>2, <1>5
  <2>5. e \in EventsOf(t) => OfRun(t, e) = Into(retained', r)
    BY <2>1
  <2> QED BY <2>1, <2>2, <2>3, <2>4, <2>5 DEF RetainedWell
<1>20. WritingWell'
  BY <1>1, <1>4, <1>15, NoBatchFacts DEF WritingWell
<1>21. HidesWell'
  <2> SUFFICES ASSUME NEW y \in DOMAIN hides'
               PROVE  /\ y \in t.drains \/ (retained' # NoBatch /\ y = current)
                      /\ ~Shut(t, y)
    BY <1>1 DEF HidesWell
  <2>1. CASE y = current
    <3>1. Grown(s, b, t) => current \in t.drains
      BY <1>2, <1>5 DEF Grown
    <3> QED BY <1>2, <1>9, <1>10, <1>11, <1>13, <2>1, <3>1
  <2>2. CASE y # current
    BY <1>1, <1>3, <1>4, <1>13, <1>14, <2>2 DEF HidesWell
  <2> QED BY <2>1, <2>2
<1>22. BlockedWell'
  <2>1. BlockedIn(s, stage, current, blocked)
    BY <1>3 DEF BlockedWell
  <2>2. BlockedIn(t, stage, current, blocked)
    BY <1>5, <1>10, <2>1, BlockedGrows
  <2> QED BY <1>1, <2>2 DEF BlockedWell
<1>23. ASSUME Calm' PROVE InCalm'
  <2>1. Calm
    BY <1>1, <1>4, <1>12, <1>23 DEF Calm
  <2>2. Accounted /\ Unlisted /\ RunsAgree /\ ListedAgree /\ HidesTouch /\ AbsorbedAgrees
    BY <1>3, <2>1 DEF InCalm
  <2>3. /\ ~retained.merge /\ ~writing.merge /\ retained.event = NoRecord /\ writing.event = NoRecord
        /\ writing' = writing /\ \A q : Into(writing, q) = q
    BY <1>1, <1>4, NoBatchFacts
  <2>4. \/ retained' = NoBatch /\ Grown(s, b, t)
        \/ retained' = b
    BY <1>10, <1>11
  <2>5. \/ t = s
        \/ /\ Grown(s, b, t) /\ (b.merge => ~s.merged) /\ Touches(t, current, r)
           /\ \A i \in EventsOf(s) : OfRun(t, i) = Into(b, OfRun(s, i))
           /\ \A d, q : Touches(s, d, q) => Touches(t, d, Into(b, q))
    <3>1. CASE t = s
      BY <3>1
    <3>2. CASE Grown(s, b, t) /\ (merge => ~s.merged)
      <4>1. Growth(s, b, t)
        BY <1>5, <3>2, GrownFacts, Zenon
      <4> QED BY <1>2, <1>5, <3>2, <4>1 DEF Growth
    <3> QED BY <1>10, <3>1, <3>2
  <2>6. ASSUME NEW i \in EventsOf(s), LateIn(s, stage, current, OfRun(s, i))
        PROVE  LateIn(t, stage, current, OfRun(t, i))
    <3>1. CASE t = s
      BY <2>6, <3>1
    <3>2. CASE Grown(s, b, t) /\ OfRun(t, i) = Into(b, OfRun(s, i))
      BY <2>6, <3>2, LateGrows
    <3> QED BY <2>5, <3>1, <3>2
  <2>7. ASSUME NEW i \in EventsOf(s), NEW y, Touches(s, y, OfRun(s, i)) PROVE Touches(t, y, OfRun(t, i))
    BY <2>5, <2>7
  <2>8. merge => r = "kept"
    BY <1>2, <1>5 DEF Batch
  <2>9. Accounted'
    <3>1. e \in EventsOf(t) \cup {retained'.event}
      <4>1. CASE Grown(s, b, t)
        BY <1>7, <4>1 DEF Grown, EventsOf
      <4>2. CASE retained' = b
        BY <1>2, <4>2
      <4> QED BY <2>4, <4>1, <4>2
    <3>2. DOMAIN activity \subseteq EventsOf(t)
      <4>1. NoRecord \notin DOMAIN activity
        BY <1>4, ActivityConstants DEF ItemTable
      <4> QED BY <1>13, <2>2, <2>3, <4>1 DEF Accounted
    <3> QED BY <1>8, <3>1, <3>2 DEF Accounted
  <2>10. Unlisted'
    <3> SUFFICES ASSUME NEW i \in EventsOf(t) \ DOMAIN listed
                 PROVE  OfDrain(t, i) # 0 /\ (i \in HiddenItems(hides') \/ LateIn(t, stage, current, OfRun(t, i)))
      BY <1>1 DEF Unlisted, Late
    <3>1. HiddenItems(hides) \subseteq HiddenItems(hides') /\ e \in HiddenItems(hides')
      BY <1>14 DEF HiddenItems
    <3>2. CASE i = e
      BY <1>4, <1>13, <3>1, <3>2
    <3>3. CASE i # e
      <4>1. i \in EventsOf(s)
        BY <1>13, <3>3
      <4>2. OfDrain(s, i) # 0 /\ (i \in HiddenItems(hides) \/ LateIn(s, stage, current, OfRun(s, i)))
        BY <2>2, <4>1 DEF Unlisted, Late
      <4> QED BY <1>13, <2>6, <3>1, <4>1, <4>2
    <3> QED BY <3>2, <3>3
  <2>11. RunsAgree'
    <3>1. ASSUME NEW i \in EventsOf(t)
          PROVE  activity'[i].run = IF retained'.merge THEN "kept" ELSE OfRun(t, i)
      <4>1. CASE i \in EventsOf(s)
        <5>1. activity[i].run = OfRun(s, i) /\ i \in DOMAIN activity
          BY <1>3, <2>2, <2>3, <4>1 DEF RunsAgree, OnceMoved, Listing
        <5>2. activity'[i].run = Into(b, OfRun(s, i))
          BY <1>8, <5>1
        <5>3. CASE retained' = NoBatch /\ Grown(s, b, t)
          <6>1. OfRun(t, i) = Into(b, OfRun(s, i))
            BY <4>1, <5>3 DEF Grown, EventsOf
          <6> QED BY <5>2, <5>3, <6>1, NoBatchFacts
        <5>4. CASE retained' = b
          <6>1. OfRun(t, i) = OfRun(s, i) \/ OfRun(t, i) = Into(b, OfRun(s, i))
            BY <2>5, <4>1
          <6> QED BY <5>2, <5>4, <6>1 DEF Into
        <5> QED BY <2>4, <5>3, <5>4
      <4>2. CASE i \notin EventsOf(s)
        <5>1. i = e /\ OfRun(t, e) = r /\ activity'[e].run = r
          BY <1>8, <1>13, <4>2
        <5>2. retained'.merge => merge
          BY <1>2, <2>4, NoBatchFacts
        <5> QED BY <2>8, <5>1, <5>2
      <4> QED BY <4>1, <4>2
    <3>2. retained' # NoBatch => activity'[retained'.event].run = retained'.run
      BY <1>2, <1>8, <2>4
    <3> QED BY <2>3, <3>1, <3>2 DEF RunsAgree, OnceMoved
  <2>12. ListedAgree'
    <3> SUFFICES ASSUME NEW i \in EventsOf(t) \cap DOMAIN listed, Standing(t, i) = {}
                 PROVE  listed[i].run = OfRun(t, i) \/ LateIn(t, stage, current, OfRun(t, i))
      BY <1>1, <2>3 DEF ListedAgree, Late
    <3>1. i \in EventsOf(s)
      BY <1>6, <1>13
    <3>2. (Standing(s, i) = {} /\ OfRun(t, i) = OfRun(s, i)) \/ LateIn(t, stage, current, OfRun(t, i))
      <4>1. CASE t = s
        BY <4>1
      <4>2. CASE Grown(s, b, t) /\ (b.merge => ~s.merged)
        BY <1>4, <1>5, <1>9, <1>10, <3>1, <4>2, StandingAfterHistory
      <4> QED BY <2>5, <4>1, <4>2
    <3>3. ASSUME Standing(s, i) = {} PROVE listed[i].run = OfRun(s, i) \/ LateIn(s, stage, current, OfRun(s, i))
      BY <2>2, <2>3, <3>1, <3>3 DEF ListedAgree, Late
    <3> QED BY <2>6, <3>1, <3>2, <3>3
  <2>13. HidesTouch'
    <3>0. HidesTouch' <=> \A y \in DOMAIN hides' : \A i \in hides'[y] \cap EventsOf(t) :
             \/ Touches(t, y, OfRun(t, i))
             \/ retained' # NoBatch /\ y = current' /\ (retained'.merge \/ i = retained'.event)
      BY Zenon DEF HidesTouch
    <3> SUFFICES ASSUME NEW y \in DOMAIN hides', NEW i \in hides'[y] \cap EventsOf(t)
                 PROVE  \/ Touches(t, y, OfRun(t, i))
                        \/ retained' # NoBatch /\ y = current /\ (retained'.merge \/ i = retained'.event)
      <4>1. current' = current
        BY <1>1
      <4> QED BY <3>0, <4>1, Zenon
    <3>1. CASE y \in DOMAIN hides /\ i \in hides[y]
      <4>1. i \in DOMAIN activity
        BY <1>3, <3>1 DEF ActivityTypes
      <4>2. i \in EventsOf(s)
        BY <1>6, <1>13, <4>1
      <4>3. Touches(s, y, OfRun(s, i))
        BY <1>4, <2>2, <3>1, <4>2 DEF HidesTouch
      <4> QED BY <2>7, <4>2, <4>3
    <3>2. CASE y = current /\ i = e
      <4>1. OfRun(t, e) = r /\ Grown(s, b, t)
        BY <1>13, <3>2
      <4>2. Touches(t, current, r)
        BY <1>6, <2>5, <3>2
      <4> QED BY <3>2, <4>1, <4>2
    <3>3. CASE y = current /\ i \in MovedItems(activity, b)
      <4>1. b.merge /\ i \in DOMAIN activity
        BY <3>3 DEF MovedItems
      <4>2. CASE retained' = b
        BY <1>2, <3>3, <4>1, <4>2
      <4>3. CASE Grown(s, b, t)
        <5>1. i \in EventsOf(s)
          BY <1>6, <1>13, <4>1
        <5>2. OfRun(t, i) = "kept"
          BY <4>1, <4>3, <5>1 DEF Grown, EventsOf, Into
        <5>3. Touches(t, current, r)
          BY <1>2, <1>5, <4>3 DEF Grown, Touches
        <5> QED BY <1>2, <2>8, <3>3, <4>1, <5>2, <5>3
      <4> QED BY <2>4, <4>2, <4>3
    <3> QED BY <1>14, <3>1, <3>2, <3>3
  <2>14. AbsorbedAgrees'
    <3>1. absorbed <=> s.merged
      BY <2>2, <2>3 DEF AbsorbedAgrees
    <3>2. CASE retained' = NoBatch /\ Grown(s, b, t)
      BY <1>1, <1>2, <2>3, <3>1, <3>2, NoBatchFacts DEF AbsorbedAgrees, Grown
    <3>3. CASE retained' = b
      <4>1. t.merged = s.merged \/ t.merged = (s.merged \/ b.merge)
        BY <2>5 DEF Grown
      <4> QED BY <1>1, <1>2, <2>3, <3>1, <3>3, <4>1 DEF AbsorbedAgrees
    <3> QED BY <2>4, <3>2, <3>3
  <2> QED BY <2>9, <2>10, <2>11, <2>12, <2>13, <2>14 DEF InCalm
<1> QED BY <1>1, <1>10, <1>16, <1>17, <1>18, <1>19, <1>20, <1>21, <1>22, <1>23 DEF ActivityInv

\* A retry ends in the same rows whether the batch was in the database or not.
LEMMA RetryKeeps ==
    ASSUME ActivityInv, RetryRetained
    PROVE  ActivityInv'
<1>1. /\ writing = NoBatch /\ retained # NoBatch
      /\ ~Refused(ledger, retained) /\ ledger' = Committed(ledger, retained)
      /\ activity' = reclassify_pending(activity, retained.waits, "Durable")
      /\ retained' = NoBatch
      /\ UNCHANGED <<listed, hides, blocked, writing, stage, absorbed, private, current, used>>
  BY DEF RetryRetained, Waits
<1>2. /\ ActivityTypes /\ LedgerSound(ledger, current) /\ Listing /\ OpenIsHidden /\ RetainedWell
      /\ WritingWell /\ HidesWell /\ BlockedWell /\ (Calm => InCalm)
  BY DEF ActivityInv
<1> PICK b : b = retained
  OBVIOUS
<1> PICK e : e = b.event
  OBVIOUS
<1> PICK s : s = ledger
  OBVIOUS
<1> PICK t : t = ledger'
  OBVIOUS
<1>3. /\ ItemTable(activity) /\ current \in ManifestIds /\ current # 0 /\ Batch(b) /\ LedgerSound(s, current)
  BY <1>2 DEF ActivityTypes, ManifestIds
<1>4. /\ Historical(b) /\ b.drain = current /\ ~Shut(s, current) /\ stage = "reading" /\ e # NoRecord
      /\ e \in DOMAIN activity /\ e \notin DOMAIN listed
      /\ current \in DOMAIN hides /\ e \in hides[current]
      /\ \A y \in DOMAIN hides \ {current} : e \notin hides[y]
      /\ e \in EventsOf(s) => /\ OfDrain(s, e) = current /\ OfRun(s, e) = Into(b, b.run)
                              /\ b.merge => s.merged
  BY <1>1, <1>2 DEF RetainedWell
<1>5. Relabeled(activity, activity')
  <2>1. Durability("committed") = "Durable" /\ "committed" \in Outcomings
    BY DEF Durability, Outcomings
  <2>2. Relabeled(activity, reclassify_pending(activity, b.waits, Durability("committed")))
    BY <1>3, <2>1, RelabelFacts, Zenon
  <2> QED BY <1>1, <2>1, <2>2
<1>6. Into(b, b.run) = b.run /\ Named(b) = {e} /\ (b.merge => b.run = "kept")
  BY <1>3, <1>4 DEF Batch, Into, Named
<1>7. \/ t = s /\ e \in EventsOf(s)
      \/ LedgerSound(t, current) /\ Grown(s, b, t) /\ (b.merge => ~s.merged) /\ e \notin EventsOf(s)
  <2>1. CASE e \in EventsOf(s)
    BY <1>1, <2>1 DEF Committed, Replayed, EventsOf
  <2>2. CASE e \notin EventsOf(s)
    <3>1. ~(s.merged /\ (b.merge \/ b.run = "gone"))
      BY <1>1, <2>2 DEF Refused, Replayed, EventsOf
    <3>2. Fresh(s, b, current)
      BY <1>3, <1>4, <2>2, <3>1 DEF Fresh, Batch, Lineage, EventsOf
    <3>3. LedgerSound(Committed(s, b), current) /\ Grown(s, b, Committed(s, b))
      BY <1>3, <3>2, CommitFacts, Zenon
    <3> QED BY <1>1, <2>2, <3>1, <3>3
  <2> QED BY <2>1, <2>2
<1>8. LedgerSound(t, current)
  BY <1>3, <1>7
<1>9. /\ t.completedBy = s.completedBy /\ s.drains \subseteq t.drains /\ current \in t.drains
      /\ \A d : Shut(t, d) <=> Shut(s, d)
      /\ \A d : Open(t, d) => Open(s, d) \/ d = current
      /\ EventsOf(t) = EventsOf(s) \cup {e}
      /\ \A i \in EventsOf(s) : OfDrain(t, i) = OfDrain(s, i)
      /\ \A i \in EventsOf(s) : OfRun(t, i) = Into(b, OfRun(s, i))
      /\ OfDrain(t, e) = current /\ OfRun(t, e) = b.run
      /\ \A d, q : Touches(s, d, q) => Touches(t, d, Into(b, q))
      /\ Touches(t, current, b.run)
      /\ t.merged = (s.merged \/ b.merge)
  <2>1. CASE t = s /\ e \in EventsOf(s)
    <3>1. s.merged => /\ \A i \in EventsOf(s) : OfRun(s, i) = "kept"
                      /\ \A d, q : Touches(s, d, q) => q = "kept"
      <4>1. s.merged => \A a \in s.assoc : a[2] = "kept"
        BY <1>3 DEF LedgerSound
      <4>2. \A d, q : Touches(s, d, q) => <<d, q>> \in s.assoc /\ <<d, q>>[2] = q
        BY DEF Touches
      <4> QED BY <1>3, <4>1, <4>2 DEF LedgerSound, EventsOf
    <3>2. Touches(s, current, b.run)
      BY <1>3, <1>4, <1>6, <2>1 DEF LedgerSound, EventsOf
    <3>3. current \in s.drains
      BY <1>3, <1>4, <2>1, RowDrains
    <3>4. s.merged \in BOOLEAN
      BY <1>3, LedgerFields DEF LedgerSound
    <3>5. b.merge => s.merged
      BY <1>4, <2>1
    <3> QED BY <1>4, <1>6, <2>1, <3>1, <3>2, <3>3, <3>4, <3>5 DEF Into
  <2>2. CASE Grown(s, b, t)
    <3>1. t.completedBy = s.completedBy /\ t.merged = (s.merged \/ b.merge)
      BY <2>2 DEF Grown
    <3>2. Growth(s, b, t)
      BY <1>3, <2>2, GrownFacts, Zenon
    <3> QED BY <1>4, <1>6, <3>1, <3>2 DEF Growth
  <2> QED BY <1>7, <2>1, <2>2
<1>10. NoRecord \notin EventsOf(t)
  BY <1>8, ActivityConstants, LedgerFields DEF LedgerSound, EventsOf
<1>11. ASSUME NEW i \in EventsOf(t), i # e, Open(t, OfDrain(t, i))
       PROVE  i \in EventsOf(s) /\ OfDrain(t, i) = OfDrain(s, i) /\ Open(s, OfDrain(s, i))
  <2>1. i \in EventsOf(s) /\ OfDrain(t, i) = OfDrain(s, i)
    BY <1>9, <1>11
  <2>2. OfDrain(s, i) # 0
    BY <1>3, <1>8, <1>11, <2>1 DEF LedgerSound, Open
  <2>3. OfDrain(s, i) \in s.drains
    BY <1>3, <2>1, <2>2, RowDrains
  <2> QED BY <1>9, <1>11, <2>1, <2>3 DEF Open, Shut
<1>12. ActivityTypes'
  BY <1>1, <1>2, <1>5, NoBatchFacts DEF ActivityTypes, Relabeled
<1>13. Listing'
  <2>1. DOMAIN listed' \subseteq DOMAIN activity' /\ EventsOf(t) \subseteq DOMAIN activity'
    BY <1>1, <1>2, <1>4, <1>5, <1>9 DEF Listing, Relabeled
  <2>2. ASSUME NEW i \in DOMAIN listed \cap EventsOf(t), OfDrain(t, i) # 0
        PROVE  ~Open(t, OfDrain(t, i))
    <3> SUFFICES ASSUME Open(t, OfDrain(t, i)) PROVE FALSE
      OBVIOUS
    <3>1. i \in EventsOf(s) /\ OfDrain(t, i) = OfDrain(s, i) /\ Open(s, OfDrain(s, i))
      BY <1>4, <1>11
    <3> QED BY <1>2, <2>2, <3>1 DEF Listing, NothingAhead, EventsOf, OfDrain
  <2> QED BY <1>1, <2>1, <2>2 DEF Listing, NothingAhead, EventsOf, OfDrain
<1>14. OpenIsHidden'
  <2> SUFFICES ASSUME NEW i \in EventsOf(t), Open(t, OfDrain(t, i))
               PROVE  \E x \in DOMAIN hides : i \in hides[x] /\ x <= OfDrain(t, i) /\ ~Shut(t, x)
    BY <1>1 DEF OpenIsHidden
  <2>1. CASE i = e
    <3>1. OfDrain(t, i) = current /\ current <= current
      BY <1>3, <1>9, <2>1 DEF ManifestIds
    <3> QED BY <1>4, <1>9, <2>1, <3>1
  <2>2. CASE i # e
    <3>1. i \in EventsOf(s) /\ OfDrain(t, i) = OfDrain(s, i) /\ Open(s, OfDrain(s, i))
      BY <1>11, <2>2
    <3>2. PICK x \in DOMAIN hides : i \in hides[x] /\ x <= OfDrain(s, i) /\ ~Shut(s, x)
      BY <1>2, <3>1 DEF OpenIsHidden
    <3> QED BY <1>9, <3>1, <3>2
  <2> QED BY <2>1, <2>2
<1>15. RetainedWell'
  BY <1>1 DEF RetainedWell
<1>16. WritingWell'
  BY <1>1, <1>10, NoBatchFacts DEF WritingWell
<1>17. HidesWell'
  BY <1>1, <1>2, <1>4, <1>9 DEF HidesWell
<1>18. BlockedWell'
  <2>1. BlockedIn(s, stage, current, blocked)
    BY <1>2 DEF BlockedWell
  <2>2. BlockedIn(t, stage, current, blocked)
    BY <1>3, <1>7, <2>1, BlockedGrows
  <2> QED BY <1>1, <2>2 DEF BlockedWell
<1>19. ASSUME Calm' PROVE InCalm'
  <2>1. Calm
    BY <1>1, <1>19 DEF Calm
  <2>2. Accounted /\ Unlisted /\ RunsAgree /\ ListedAgree /\ HidesTouch /\ AbsorbedAgrees
    BY <1>2, <2>1 DEF InCalm
  <2>3. /\ ~writing.merge /\ writing.event = NoRecord /\ ~retained'.merge /\ retained'.event = NoRecord
        /\ \A q : Into(writing, q) = q
    BY <1>1, NoBatchFacts
  <2>4. ASSUME NEW i \in EventsOf(s), LateIn(s, stage, current, OfRun(s, i))
        PROVE  LateIn(t, stage, current, OfRun(t, i))
    <3>1. CASE t = s
      BY <2>4, <3>1
    <3>2. CASE Grown(s, b, t)
      BY <1>9, <2>4, <3>2, LateGrows
    <3> QED BY <1>7, <3>1, <3>2
  <2>5. Accounted'
    BY <1>1, <1>5, <1>9, <2>2, <2>3 DEF Accounted, Relabeled
  <2>6. Unlisted'
    <3> SUFFICES ASSUME NEW i \in EventsOf(t) \ DOMAIN listed
                 PROVE  OfDrain(t, i) # 0 /\ (i \in HiddenItems(hides) \/ LateIn(t, stage, current, OfRun(t, i)))
      BY <1>1 DEF Unlisted, Late
    <3>1. CASE i = e
      BY <1>3, <1>4, <1>9, <3>1 DEF HiddenItems
    <3>2. CASE i \in EventsOf(s)
      <4>1. OfDrain(s, i) # 0 /\ (i \in HiddenItems(hides) \/ LateIn(s, stage, current, OfRun(s, i)))
        BY <2>2, <3>2 DEF Unlisted, Late
      <4> QED BY <1>9, <2>4, <3>2, <4>1
    <3> QED BY <1>9, <3>1, <3>2
  <2>7. RunsAgree'
    <3>1. ASSUME NEW i \in EventsOf(t) PROVE activity'[i].run = OfRun(t, i)
      <4>1. CASE i \in EventsOf(s)
        <5>1. activity[i].run = Into(b, OfRun(s, i)) /\ i \in DOMAIN activity
          BY <1>2, <2>2, <2>3, <4>1 DEF RunsAgree, OnceMoved, Into, Listing
        <5> QED BY <1>5, <1>9, <4>1, <5>1 DEF Relabeled
      <4>2. CASE i = e
        BY <1>1, <1>4, <1>5, <1>9, <2>2, <4>2 DEF RunsAgree, Relabeled
      <4> QED BY <1>9, <4>1, <4>2
    <3> QED BY <1>1, <2>3, <3>1 DEF RunsAgree, OnceMoved
  <2>8. ListedAgree'
    <3> SUFFICES ASSUME NEW i \in EventsOf(t) \cap DOMAIN listed, Standing(t, i) = {}
                 PROVE  listed[i].run = OfRun(t, i) \/ LateIn(t, stage, current, OfRun(t, i))
      BY <1>1, <2>3 DEF ListedAgree, Late
    <3>1. i \in EventsOf(s)
      BY <1>4, <1>9
    <3>2. (Standing(s, i) = {} /\ OfRun(t, i) = OfRun(s, i)) \/ LateIn(t, stage, current, OfRun(t, i))
      <4>1. CASE t = s
        BY <4>1
      <4>2. CASE Grown(s, b, t) /\ (b.merge => ~s.merged)
        BY <1>3, <1>4, <1>8, <3>1, <4>2, StandingAfterHistory
      <4> QED BY <1>7, <4>1, <4>2
    <3>3. ASSUME Standing(s, i) = {} PROVE listed[i].run = OfRun(s, i) \/ LateIn(s, stage, current, OfRun(s, i))
      BY <2>2, <2>3, <3>1, <3>3 DEF ListedAgree, Late
    <3> QED BY <2>4, <3>1, <3>2, <3>3
  <2>9. HidesTouch'
    <3> SUFFICES ASSUME NEW y \in DOMAIN hides, NEW i \in hides[y] \cap EventsOf(t)
                 PROVE  Touches(t, y, OfRun(t, i))
      BY <1>1 DEF HidesTouch
    <3>1. CASE i = e
      BY <1>4, <1>9, <3>1
    <3>2. CASE i \in EventsOf(s) /\ i # e
      <4>1. Touches(s, y, OfRun(s, i)) \/ (y = current /\ b.merge)
        BY <2>2, <3>2 DEF HidesTouch
      <4>2. CASE Touches(s, y, OfRun(s, i))
        BY <1>9, <3>2, <4>2
      <4>3. CASE y = current /\ b.merge
        <5>1. OfRun(t, i) = "kept"
          BY <1>9, <3>2, <4>3 DEF Into
        <5> QED BY <1>6, <1>9, <4>3, <5>1
      <4> QED BY <4>1, <4>2, <4>3
    <3> QED BY <1>9, <3>1, <3>2
  <2>10. AbsorbedAgrees'
    BY <1>1, <1>9, <2>2, <2>3 DEF AbsorbedAgrees
  <2> QED BY <2>5, <2>6, <2>7, <2>8, <2>9, <2>10 DEF InCalm
<1> QED BY <1>1, <1>8, <1>12, <1>13, <1>14, <1>15, <1>16, <1>17, <1>18, <1>19 DEF ActivityInv

\* What a barrier may find once it was tried: nothing new, or the drain finalized.
Tried(s, c, u) ==
    /\ LedgerSound(u, c)
    /\ u.rows = s.rows /\ u.merged = s.merged /\ s.drains \subseteq u.drains
    /\ \A d, r : Touches(s, d, r) => Touches(u, d, r)
    /\ \A d : Shut(s, d) => Shut(u, d) /\ u.completedBy[d] = s.completedBy[d]
    /\ \A d : Shut(u, d) /\ ~Shut(s, d) =>
          Shut(u, c) /\ u.completedBy[d] = c /\ \A r : Touches(s, d, r) => Touches(u, c, r)
    /\ \A d : Open(u, d) => /\ Open(s, d)
                            /\ \A y \in s.drains : y <= d /\ ~Shut(s, y) => ~Shut(u, y)

LEMMA TriedFacts ==
    ASSUME NEW c \in ManifestIds, NEW s, LedgerSound(s, c), NEW u, LedgerSound(u, c),
           u = s \/ Finished(s, c, u)
    PROVE  Tried(s, c, u)
<1>1. CASE u = s
  BY <1>1 DEF Tried
<1>2. CASE Finished(s, c, u)
  BY <1>2 DEF Tried, Finished
<1> QED BY <1>1, <1>2

\* Every item still listed for an open drain, or hidden for one, stays as the barrier found it.
LEMMA BarrierListing ==
    ASSUME ActivityInv, writing = NoBatch, retained = NoBatch, NEW u, Tried(ledger, current, u)
    PROVE  /\ EventsOf(u) = EventsOf(ledger)
           /\ \A i \in EventsOf(u) : OfDrain(u, i) = OfDrain(ledger, i) /\ OfRun(u, i) = OfRun(ledger, i)
           /\ \A i \in EventsOf(u) \cap DOMAIN listed : OfDrain(u, i) # 0 => ~Open(u, OfDrain(u, i))
           /\ \A i \in EventsOf(u) : Open(u, OfDrain(u, i)) =>
                 \E x \in DOMAIN hides : i \in hides[x] /\ x <= OfDrain(u, i) /\ ~Shut(u, x)
           /\ \A y \in DOMAIN hides : y \in u.drains
           /\ \A y \in DOMAIN hides : Shut(u, y) => u.completedBy[y] = current
           /\ \A r \in blocked : (u.merged => r = "kept") =>
                 BlockedRow(u, r) \/ (Shut(u, current) /\ Touches(u, current, r))
<1> PICK s : s = ledger
  OBVIOUS
<1>1. /\ LedgerSound(s, current) /\ Listing /\ OpenIsHidden /\ HidesWell /\ BlockedWell
  BY DEF ActivityInv
<1>2. /\ EventsOf(u) = EventsOf(s)
      /\ \A i \in EventsOf(u) : OfDrain(u, i) = OfDrain(s, i) /\ OfRun(u, i) = OfRun(s, i)
      /\ \A d : Open(u, d) => /\ Open(s, d)
                              /\ \A y \in s.drains : y <= d /\ ~Shut(s, y) => ~Shut(u, y)
      /\ s.drains \subseteq u.drains /\ u.merged = s.merged
  BY DEF Tried, EventsOf, OfDrain, OfRun
<1>3. ASSUME NEW i \in EventsOf(u) \cap DOMAIN listed, OfDrain(u, i) # 0 PROVE ~Open(u, OfDrain(u, i))
  <2>1. ~Open(s, OfDrain(s, i))
    BY <1>1, <1>2, <1>3 DEF Listing, NothingAhead, EventsOf, OfDrain
  <2> QED BY <1>2, <2>1
<1>4. \A y \in DOMAIN hides : y \in s.drains
  BY <1>1 DEF HidesWell
<1>5. ASSUME NEW i \in EventsOf(u), Open(u, OfDrain(u, i))
      PROVE  \E x \in DOMAIN hides : i \in hides[x] /\ x <= OfDrain(u, i) /\ ~Shut(u, x)
  <2>1. i \in EventsOf(s) /\ Open(s, OfDrain(s, i)) /\ OfDrain(u, i) = OfDrain(s, i)
    BY <1>2, <1>5
  <2>2. PICK x \in DOMAIN hides : i \in hides[x] /\ x <= OfDrain(s, i) /\ ~Shut(s, x)
    BY <1>1, <2>1 DEF OpenIsHidden
  <2>3. ~Shut(u, x)
    BY <1>2, <1>4, <1>5, <2>1, <2>2
  <2> QED BY <2>1, <2>2, <2>3
<1>6. ASSUME NEW y \in DOMAIN hides, Shut(u, y) PROVE u.completedBy[y] = current
  <2>1. CASE Shut(s, y)
    <3>1. s.completedBy[y] = current
      BY <1>1, <2>1 DEF HidesWell
    <3> QED BY <2>1, <3>1 DEF Tried
  <2>2. CASE ~Shut(s, y)
    BY <1>6, <2>2 DEF Tried
  <2> QED BY <2>1, <2>2
<1>7. ASSUME NEW r \in blocked, u.merged => r = "kept"
      PROVE  BlockedRow(u, r) \/ (Shut(u, current) /\ Touches(u, current, r))
  <2>1. BlockedRow(s, r) \/ (Shut(s, current) /\ Touches(s, current, r))
    BY <1>1, <1>2, <1>7 DEF BlockedWell, BlockedIn
  <2>2. CASE BlockedRow(s, r)
    <3>1. PICK d \in ManifestIds : Open(s, d) /\ Touches(s, d, r)
      BY <2>2 DEF BlockedRow, Touches
    <3>2. CASE Shut(u, d)
      BY <3>1, <3>2 DEF Tried, Open, Shut
    <3>3. CASE ~Shut(u, d)
      <4>1. Open(u, d) /\ Touches(u, d, r)
        BY <3>1, <3>3 DEF Tried, Open, Shut
      <4> QED BY <4>1 DEF BlockedRow, Touches
    <3> QED BY <3>2, <3>3
  <2>3. CASE Shut(s, current) /\ Touches(s, current, r)
    BY <2>3 DEF Tried
  <2> QED BY <2>1, <2>2, <2>3
<1> QED BY <1>2, <1>3, <1>4, <1>5, <1>6, <1>7

\* The barrier is held: the lists stay, whatever the database has of the drain.
LEMMA HeldKeeps ==
    ASSUME ActivityInv, NEW outcome \in Outcomings, NEW covers \in BOOLEAN, outcome # "committed",
           HistoryBarrier(outcome, covers)
    PROVE  ActivityInv'
<1>1. /\ writing = NoBatch /\ retained = NoBatch /\ stage # "done" /\ stage' = "held"
      /\ ledger' = (IF outcome = "lost" THEN ledger ELSE Finalizing(ledger, current, covers))
      /\ used' = [used EXCEPT !["retries"] = @ + 1]
      /\ UNCHANGED <<hides, blocked, listed, private>>
      /\ UNCHANGED <<activity, writing, retained, absorbed, current>>
  BY DEF HistoryBarrier, Waits, Count
<1>2. /\ ActivityTypes /\ LedgerSound(ledger, current) /\ Listing /\ OpenIsHidden /\ RetainedWell
      /\ WritingWell /\ HidesWell /\ BlockedWell /\ (Calm => InCalm)
  BY DEF ActivityInv
<1> PICK s : s = ledger
  OBVIOUS
<1> PICK u : u = ledger'
  OBVIOUS
<1>3. current \in ManifestIds /\ LedgerSound(s, current) /\ used \in [lost : Nat, retries : Nat]
  BY <1>2 DEF ActivityTypes
<1>4. LedgerSound(u, current) /\ (u = s \/ Finished(s, current, u))
  <2>1. /\ LedgerSound(Finalizing(s, current, covers), current)
        /\ Finished(s, current, Finalizing(s, current, covers))
    BY <1>3, FinalizeFacts
  <2> QED BY <1>1, <1>2, <2>1
<1>5. Tried(s, current, u)
  BY <1>3, <1>4, TriedFacts
<1>6. /\ EventsOf(u) = EventsOf(s)
      /\ \A i \in EventsOf(u) : OfDrain(u, i) = OfDrain(s, i) /\ OfRun(u, i) = OfRun(s, i)
      /\ \A i \in EventsOf(u) \cap DOMAIN listed : OfDrain(u, i) # 0 => ~Open(u, OfDrain(u, i))
      /\ \A i \in EventsOf(u) : Open(u, OfDrain(u, i)) =>
            \E x \in DOMAIN hides : i \in hides[x] /\ x <= OfDrain(u, i) /\ ~Shut(u, x)
      /\ \A y \in DOMAIN hides : y \in u.drains
      /\ \A y \in DOMAIN hides : Shut(u, y) => u.completedBy[y] = current
      /\ \A r \in blocked : (u.merged => r = "kept") =>
            BlockedRow(u, r) \/ (Shut(u, current) /\ Touches(u, current, r))
  BY <1>1, <1>5, BarrierListing
<1>7. used' \in [lost : Nat, retries : Nat] /\ used'.lost = used.lost
  BY <1>1, <1>3
<1>8. ActivityTypes'
  BY <1>1, <1>2, <1>7 DEF ActivityTypes
<1>9. Listing' /\ OpenIsHidden'
  <2>1. DOMAIN listed \subseteq DOMAIN activity /\ EventsOf(u) \subseteq DOMAIN activity
    BY <1>2, <1>6 DEF Listing
  <2> QED BY <1>1, <1>6, <2>1 DEF Listing, NothingAhead, OpenIsHidden, EventsOf, OfDrain
<1>10. RetainedWell' /\ WritingWell'
  <2>1. writing.event \notin EventsOf(u) /\ ~Historical(writing)
    BY <1>2, <1>6 DEF WritingWell
  <2> QED BY <1>1, <2>1, NoBatchFacts DEF RetainedWell, WritingWell
<1>11. HidesWell'
  BY <1>1, <1>6 DEF HidesWell
<1>12. BlockedWell'
  BY <1>1, <1>6 DEF BlockedWell, BlockedIn
<1>13. ASSUME Calm' PROVE InCalm'
  <2>1. Calm
    BY <1>1, <1>7, <1>13 DEF Calm
  <2>2. Accounted /\ Unlisted /\ RunsAgree /\ ListedAgree /\ HidesTouch /\ AbsorbedAgrees
    BY <1>2, <2>1 DEF InCalm
  <2>3. ASSUME NEW r, LateIn(s, stage, current, r) PROVE LateIn(u, "held", current, r)
    <3>1. CASE u = s
      BY <2>3, <3>1 DEF LateIn
    <3>2. CASE Finished(s, current, u)
      BY <1>3, <1>4, <2>3, <3>2, LateFinishes
    <3> QED BY <1>4, <3>1, <3>2
  <2>4. Accounted' /\ RunsAgree' /\ AbsorbedAgrees'
    <3>1. Accounted' /\ AbsorbedAgrees'
      BY <1>1, <1>5, <1>6, <2>2 DEF Accounted, AbsorbedAgrees, Tried
    <3> QED BY <1>1, <1>6, <2>2, <3>1 DEF RunsAgree, OnceMoved
  <2>5. Unlisted'
    <3> SUFFICES ASSUME NEW i \in EventsOf(u) \ DOMAIN listed
                 PROVE  OfDrain(u, i) # 0 /\ (i \in HiddenItems(hides) \/ LateIn(u, "held", current, OfRun(u, i)))
      BY <1>1 DEF Unlisted, Late
    <3> QED BY <1>6, <2>2, <2>3 DEF Unlisted, Late
  <2>6. ListedAgree'
    <3> SUFFICES ASSUME NEW i \in EventsOf(u) \cap DOMAIN listed, Standing(u, i) = {}
                 PROVE  listed[i].run = Into(writing, OfRun(u, i)) \/ LateIn(u, "held", current, OfRun(u, i))
      BY <1>1 DEF ListedAgree, Late
    <3>1. Standing(s, i) = {} \/ LateIn(u, "held", current, OfRun(u, i))
      <4>1. CASE u = s
        BY <4>1
      <4>2. CASE Finished(s, current, u)
        <5>1. \/ Standing(s, i) = {}
              \/ Touches(u, current, OfRun(u, i))
              \/ \E d \in Overdue(u) : Touches(u, d, OfRun(u, i))
          BY <1>3, <1>4, <1>6, <4>2, StandingAfterFinalize DEF EventsOf
        <5>2. Shut(u, current)
          BY <4>2 DEF Finished
        <5> QED BY <5>1, <5>2 DEF LateIn
      <4> QED BY <1>4, <4>1, <4>2
    <3>2. ASSUME Standing(s, i) = {}
          PROVE  listed[i].run = Into(writing, OfRun(s, i)) \/ LateIn(s, stage, current, OfRun(s, i))
      BY <1>6, <2>2, <3>2 DEF ListedAgree, Late
    <3> QED BY <1>6, <2>3, <3>1, <3>2
  <2>7. HidesTouch'
    BY <1>1, <1>5, <1>6, <2>2 DEF HidesTouch, Tried
  <2> QED BY <2>4, <2>5, <2>6, <2>7 DEF InCalm
<1> QED BY <1>1, <1>4, <1>8, <1>9, <1>10, <1>11, <1>12, <1>13 DEF ActivityInv

LEMMA HiddenParts ==
    \A hiding, blocking, items :
        Hidden(hiding, blocking, items)
          = HiddenItems(hiding) \cup {i \in DOMAIN items : items[i].run \in blocking}
BY DEF Hidden, HiddenItems

\* The barrier is published: what is no longer hidden is listed as the private list has it.
LEMMA PublishedKeeps ==
    ASSUME ActivityInv, NEW covers \in BOOLEAN, HistoryBarrier("committed", covers)
    PROVE  ActivityInv'
<1> PICK u : u = ledger'
  OBVIOUS
<1> PICK page : page = {r \in Lineage : <<current, r>> \in u.assoc /\ (u.merged => r = "kept")}
  OBVIOUS
<1> PICK completed : completed = {x \in DOMAIN u.completedBy : u.completedBy[x] = current}
  OBVIOUS
<1>1. /\ writing = NoBatch /\ retained = NoBatch /\ stage' = "done"
      /\ u = Finalizing(ledger, current, covers)
      /\ PublishPage(u, current)
      /\ UNCHANGED <<activity, writing, retained, absorbed, current, used>>
  BY DEF HistoryBarrier, Waits
<1>2. /\ hides' = Restrict(hides, DOMAIN hides \ completed)
      /\ blocked' = (blocked \ (page \cap u.ready)) \cup (page \ u.ready)
      /\ listed' = Accumulated(Hidden(Restrict(hides, DOMAIN hides \ completed),
                                      (blocked \ (page \cap u.ready)) \cup (page \ u.ready), activity))
  BY <1>1 DEF PublishPage
<1> PICK hidden : hidden = HiddenItems(hides') \cup {i \in DOMAIN activity : activity[i].run \in blocked'}
  OBVIOUS
<1>3. /\ DOMAIN hides' = DOMAIN hides \ completed
      /\ \A y \in DOMAIN hides' : hides'[y] = hides[y]
      /\ DOMAIN listed' = (DOMAIN activity \ hidden) \cup (DOMAIN listed \cap hidden)
      /\ \A i \in DOMAIN listed' : listed'[i] = IF i \in hidden THEN listed[i] ELSE activity[i]
  <2>1. hides' = [y \in DOMAIN hides \ completed |-> hides[y]]
    BY <1>2 DEF Restrict
  <2>2. listed' = Accumulated(hidden)
    <3>1. listed' = Accumulated(Hidden(hides', blocked', activity))
      BY <1>2, Zenon
    <3>2. Hidden(hides', blocked', activity) = hidden
      BY HiddenParts
    <3> QED BY <3>1, <3>2, Zenon
  <2>3. listed' = [i \in (DOMAIN activity \ hidden) \cup (DOMAIN listed \cap hidden) |->
                     IF i \in hidden THEN listed[i] ELSE activity[i]]
    BY <2>2 DEF Accumulated
  <2> QED BY <2>1, <2>3
<1>4. /\ ActivityTypes /\ LedgerSound(ledger, current) /\ Listing /\ OpenIsHidden /\ RetainedWell
      /\ WritingWell /\ HidesWell /\ BlockedWell /\ (Calm => InCalm)
  BY DEF ActivityInv
<1> PICK s : s = ledger
  OBVIOUS
<1>5. current \in ManifestIds /\ LedgerSound(s, current) /\ blocked \in SUBSET Lineage
  BY <1>4 DEF ActivityTypes
<1>6. LedgerSound(u, current) /\ Finished(s, current, u)
  <2>1. /\ LedgerSound(Finalizing(s, current, covers), current)
        /\ Finished(s, current, Finalizing(s, current, covers))
    BY <1>5, FinalizeFacts
  <2> QED BY <1>1, <2>1
<1>7. Tried(s, current, u) /\ Shut(u, current)
  BY <1>5, <1>6, TriedFacts DEF Finished
<1>8. /\ EventsOf(u) = EventsOf(s)
      /\ \A i \in EventsOf(u) : OfDrain(u, i) = OfDrain(s, i) /\ OfRun(u, i) = OfRun(s, i)
      /\ \A i \in EventsOf(u) \cap DOMAIN listed : OfDrain(u, i) # 0 => ~Open(u, OfDrain(u, i))
      /\ \A i \in EventsOf(u) : Open(u, OfDrain(u, i)) =>
            \E x \in DOMAIN hides : i \in hides[x] /\ x <= OfDrain(u, i) /\ ~Shut(u, x)
      /\ \A y \in DOMAIN hides : y \in u.drains
      /\ \A y \in DOMAIN hides : Shut(u, y) => u.completedBy[y] = current
      /\ \A r \in blocked : (u.merged => r = "kept") =>
            BlockedRow(u, r) \/ (Shut(u, current) /\ Touches(u, current, r))
  BY <1>1, <1>7, BarrierListing
<1>9. ASSUME NEW y PROVE y \in DOMAIN hides' <=> y \in DOMAIN hides /\ ~Shut(u, y)
  BY <1>3, <1>8 DEF Shut
<1>10. blocked' \subseteq Lineage
  BY <1>2, <1>5
<1>11. ASSUME NEW r \in blocked', u.merged => r = "kept" PROVE BlockedRow(u, r)
  <2>1. CASE r \notin u.ready
    BY <1>6, <1>10, <1>11, <2>1 DEF LedgerSound
  <2>2. CASE r \in u.ready
    <3>1. r \in blocked /\ r \notin page
      BY <1>2, <2>2
    <3>2. ~Touches(u, current, r)
      BY <1>10, <1>11, <3>1 DEF Touches
    <3> QED BY <1>8, <1>11, <3>1, <3>2
  <2> QED BY <2>1, <2>2
<1>12. ASSUME NEW r, BlockedRow(u, r) \/ \E d : Open(u, d) /\ Touches(u, d, r)
       PROVE  LateIn(u, "done", current, r)
  <2>1. PICK d : Open(u, d) /\ Touches(u, d, r)
    BY <1>12 DEF BlockedRow, Touches
  <2>2. d \in Overdue(u)
    BY <1>5, <1>6, <1>7, <2>1, OverdueFacts
  <2> QED BY <2>1, <2>2 DEF LateIn
<1>13. ActivityTypes'
  <2>1. /\ DOMAIN hides' \subseteq 1 .. current' /\ \A y \in DOMAIN hides' : hides'[y] \subseteq DOMAIN activity'
    BY <1>1, <1>3, <1>4 DEF ActivityTypes
  <2>2. ItemTable(listed')
    <3>1. ItemTable(activity) /\ ItemTable(listed)
      BY <1>4 DEF ActivityTypes
    <3>2. DOMAIN listed' \subseteq EventIds
      BY <1>3, <3>1 DEF ItemTable
    <3>3. ASSUME NEW i \in DOMAIN listed' PROVE listed'[i] \in Items
      BY <1>3, <3>1 DEF ItemTable
    <3> QED BY <3>2, <3>3 DEF ItemTable
  <2> QED BY <1>1, <1>4, <1>10, <2>1, <2>2 DEF ActivityTypes
<1>14. OpenIsHidden'
  <2> SUFFICES ASSUME NEW i \in EventsOf(u), Open(u, OfDrain(u, i))
               PROVE  \E x \in DOMAIN hides' : i \in hides'[x] /\ x <= OfDrain(u, i) /\ ~Shut(u, x)
    BY DEF OpenIsHidden
  <2>1. PICK x \in DOMAIN hides : i \in hides[x] /\ x <= OfDrain(u, i) /\ ~Shut(u, x)
    BY <1>8
  <2> QED BY <1>3, <1>9, <2>1
<1>15. Listing'
  <2>1. DOMAIN listed' \subseteq DOMAIN activity' /\ EventsOf(u) \subseteq DOMAIN activity'
    BY <1>1, <1>3, <1>4, <1>8 DEF Listing
  <2>2. ASSUME NEW i \in DOMAIN listed' \cap EventsOf(u), OfDrain(u, i) # 0 PROVE ~Open(u, OfDrain(u, i))
    <3>1. CASE i \in DOMAIN listed
      BY <1>8, <2>2, <3>1
    <3>2. CASE i \notin hidden
      <4>1. \A y \in DOMAIN hides' : i \notin hides'[y]
        BY <3>2 DEF HiddenItems
      <4>2. \A y \in DOMAIN hides : i \in hides[y] => Shut(u, y)
        BY <1>3, <1>9, <4>1
      <4> QED BY <1>8, <4>2
    <3> QED BY <1>3, <3>1, <3>2
  <2> QED BY <2>1, <2>2 DEF Listing, NothingAhead, EventsOf, OfDrain
<1>16. RetainedWell' /\ WritingWell'
  <2>1. writing.event \notin EventsOf(u) /\ ~Historical(writing)
    BY <1>4, <1>8 DEF WritingWell
  <2> QED BY <1>1, <2>1, NoBatchFacts DEF RetainedWell, WritingWell
<1>17. HidesWell' /\ BlockedWell'
  BY <1>8, <1>9, <1>11 DEF HidesWell, BlockedWell, BlockedIn
<1>18. ASSUME Calm' PROVE InCalm'
  <2>1. Calm
    BY <1>1, <1>18 DEF Calm
  <2>2. Accounted /\ Unlisted /\ RunsAgree /\ ListedAgree /\ HidesTouch /\ AbsorbedAgrees
    BY <1>4, <2>1 DEF InCalm
  <2>3. /\ ~writing.merge /\ ~retained.merge /\ writing.event = NoRecord /\ retained.event = NoRecord
        /\ \A q : Into(writing, q) = q
    BY <1>1, NoBatchFacts
  <2>4. ASSUME NEW i \in EventsOf(u) PROVE activity[i].run = OfRun(u, i) /\ i \in DOMAIN activity
    BY <1>4, <1>8, <2>2, <2>3 DEF RunsAgree, OnceMoved, Listing
  <2>5. ASSUME NEW i \in EventsOf(u), i \in hidden PROVE LateIn(u, "done", current, OfRun(u, i))
    <3>1. CASE i \in HiddenItems(hides')
      <4>1. PICK y \in DOMAIN hides' : i \in hides'[y]
        BY <3>1 DEF HiddenItems
      <4>2. y \in DOMAIN hides /\ i \in hides[y] /\ Open(u, y)
        BY <1>3, <1>8, <1>9, <4>1 DEF Open, Shut
      <4>3. Touches(s, y, OfRun(s, i))
        BY <1>1, <1>8, <2>2, <4>2 DEF HidesTouch
      <4>4. Touches(u, y, OfRun(u, i))
        BY <1>7, <1>8, <4>3 DEF Tried
      <4> QED BY <1>12, <4>2, <4>4
    <3>2. CASE i \notin HiddenItems(hides')
      <4>1. OfRun(u, i) \in blocked'
        BY <2>4, <2>5, <3>2
      <4>2. u.merged => OfRun(u, i) = "kept"
        BY <1>6 DEF LedgerSound, EventsOf
      <4> QED BY <1>11, <1>12, <4>1, <4>2
    <3> QED BY <3>1, <3>2
  <2>6. Accounted' /\ RunsAgree' /\ AbsorbedAgrees'
    <3>1. Accounted' /\ AbsorbedAgrees'
      BY <1>1, <1>7, <1>8, <2>2 DEF Accounted, AbsorbedAgrees, Tried
    <3>2. writing'.event = NoRecord /\ retained' = NoBatch /\ ~writing'.merge /\ ~retained'.merge
      BY <1>1, <2>3
    <3> QED BY <1>1, <2>4, <3>1, <3>2 DEF RunsAgree, OnceMoved
  <2>7. Unlisted'
    <3> SUFFICES ASSUME NEW i \in EventsOf(u) \ DOMAIN listed'
                 PROVE  OfDrain(u, i) # 0 /\ LateIn(u, "done", current, OfRun(u, i))
      BY <1>1 DEF Unlisted, Late
    <3>1. i \in hidden /\ i \notin DOMAIN listed
      BY <1>3, <2>4
    <3>2. OfDrain(u, i) # 0
      BY <1>8, <2>2, <3>1 DEF Unlisted
    <3> QED BY <2>5, <3>1, <3>2
  <2>8. ListedAgree'
    <3> SUFFICES ASSUME NEW i \in EventsOf(u) \cap DOMAIN listed'
                 PROVE  listed'[i].run = OfRun(u, i) \/ LateIn(u, "done", current, OfRun(u, i))
      BY <1>1, <2>3 DEF ListedAgree, Late
    <3>1. CASE i \in hidden
      BY <2>5, <3>1
    <3>2. CASE i \notin hidden
      BY <1>3, <2>4, <3>2
    <3> QED BY <3>1, <3>2
  <2>9. HidesTouch'
    <3> SUFFICES ASSUME NEW y \in DOMAIN hides', NEW i \in hides'[y] \cap EventsOf(u)
                 PROVE  Touches(u, y, OfRun(u, i))
      BY DEF HidesTouch
    <3>1. y \in DOMAIN hides /\ i \in hides[y]
      BY <1>3
    <3>2. Touches(s, y, OfRun(s, i))
      BY <1>1, <1>8, <2>2, <3>1 DEF HidesTouch
    <3> QED BY <1>7, <1>8, <3>2 DEF Tried
  <2> QED BY <2>6, <2>7, <2>8, <2>9 DEF InCalm
<1> QED BY <1>1, <1>6, <1>13, <1>14, <1>15, <1>16, <1>17, <1>18 DEF ActivityInv

LEMMA NaturalOrder ==
    \E below : IsWellFoundedOn(below, Nat) /\ below = {p \in Nat \X Nat : p[1] < p[2]}
<1>1. OpToRel(<, Nat) = {p \in Nat \X Nat : p[1] < p[2]}
  BY DEF OpToRel
<1> QED BY <1>1, NatLessThanWellFounded, Zenon

LEMMA LeastFacts ==
    ASSUME NEW S \in SUBSET Nat, S # {}
    PROVE  Least(S) \in S /\ \A x \in S : Least(S) <= x
<1>1. PICK below : IsWellFoundedOn(below, Nat) /\ below = {p \in Nat \X Nat : p[1] < p[2]}
  BY NaturalOrder
<1>2. PICK d \in S : \A x \in S : ~(<<x, d>> \in below)
  BY <1>1, WFMin, Zenon
<1>3. ASSUME NEW x \in S PROVE d <= x
  <2>1. x \in Nat /\ d \in Nat /\ <<x, d>> \notin below
    BY <1>2
  <2>2. <<x, d>> \in Nat \X Nat /\ <<x, d>>[1] = x /\ <<x, d>>[2] = d
    BY <2>1
  <2>3. ~(x < d)
    BY <1>1, <2>1, <2>2
  <2> QED BY <2>1, <2>3
<1>4. \E y \in S : \A x \in S : y <= x
  BY <1>3
<1> QED BY <1>4, Zenon DEF Least

\* The drain that a waiting row is hidden by is unfinished and has its run, and none is older.
LEMMA DeferredFacts ==
    ASSUME NEW c \in ManifestIds, NEW t, LedgerSound(t, c), NEW e \in Waiting(t), DeferringDrains(t, e) # {}
    PROVE  LET l == Least(DeferringDrains(t, e))
           IN  /\ l \in t.drains /\ ~Shut(t, l) /\ Touches(t, l, OfRun(t, e))
               /\ Open(t, OfDrain(t, e)) => l <= OfDrain(t, e)
<1> PICK S : S = DeferringDrains(t, e)
  OBVIOUS
<1> PICK r : r = OfRun(t, e)
  OBVIOUS
<1> PICK d : d = OfDrain(t, e)
  OBVIOUS
<1>1. e \in DOMAIN t.rows /\ t \in Ledgers
  BY DEF Waiting, LedgerSound
<1>2. r \in Lineage /\ d \in 0 .. MaxDrains /\ t.drains \subseteq ManifestIds
  BY <1>1, LedgerFields DEF OfRun, OfDrain
<1>3. /\ r \notin t.ready => S = {x \in ManifestIds : Open(t, x) /\ Touches(t, x, r)}
      /\ r \in t.ready /\ d # 0 /\ Open(t, d) => S = {d}
      /\ r \in t.ready /\ ~(d # 0 /\ Open(t, d)) =>
            S = {x[1] : x \in {y \in Standing(t, e) : Open(t, y[1])}}
  BY Zenon DEF DeferringDrains, OfRun, OfDrain, Touches
<1>4. d # 0 => Touches(t, d, r)
  BY <1>1 DEF LedgerSound
<1>5. 0 \notin t.drains
  BY <1>2 DEF ManifestIds
<1>6. ASSUME NEW x \in S PROVE Open(t, x) /\ Touches(t, x, r)
  <2>1. CASE r \notin t.ready
    BY <1>3, <1>6, <2>1
  <2>2. CASE r \in t.ready /\ d # 0 /\ Open(t, d)
    BY <1>3, <1>4, <1>6, <2>2
  <2>3. CASE r \in t.ready /\ ~(d # 0 /\ Open(t, d))
    <3>1. PICK y \in Standing(t, e) : Open(t, y[1]) /\ x = y[1]
      BY <1>3, <1>6, <2>3
    <3>2. y \in t.before /\ y[2] = e
      BY DEF Standing
    <3> QED BY <3>1, <3>2 DEF LedgerSound
  <2> QED BY <2>1, <2>2, <2>3
<1>7. S \in SUBSET Nat
  <2>1. ASSUME NEW x \in S PROVE x \in Nat
    BY <1>2, <1>6, ActivityConstants DEF Open, ManifestIds
  <2> QED BY <2>1
<1>8. Open(t, d) => d \in S
  <2> SUFFICES ASSUME Open(t, d) PROVE d \in S
    OBVIOUS
  <2>1. d # 0 /\ d \in ManifestIds
    BY <1>2, <1>5 DEF Open
  <2> QED BY <1>3, <1>4, <2>1
<1>9. Least(S) \in S /\ \A x \in S : Least(S) <= x
  BY <1>7, LeastFacts
<1>10. Open(t, Least(S)) /\ Touches(t, Least(S), r)
  BY <1>6, <1>9
<1> QED BY <1>8, <1>9, <1>10 DEF Open, Shut

\* A restart builds lists that satisfy all of it from the rows alone.
LEMMA ColdStartKeeps ==
    ASSUME ActivityInv, ColdStart
    PROVE  ActivityInv'
<1> PICK s : s = ledger
  OBVIOUS
<1> PICK t : t = ledger'
  OBVIOUS
<1>1. /\ t \in IF writing = NoBatch THEN {s} ELSE After(s, writing, "unknown")
      /\ \A e \in Waiting(t) : DeferringDrains(t, e) # {}
      /\ listed' = [e \in DOMAIN Restored(t) |-> [run |-> Restored(t)[e], label |-> "Durable"]]
      /\ activity' = [e \in DOMAIN listed' \cup Waiting(t) |->
                       IF e \in Waiting(t) THEN [run |-> t.rows[e].run, label |-> "Durable"] ELSE listed'[e]]
      /\ hides' = [d \in {Least(DeferringDrains(t, e)) : e \in Waiting(t)} |->
                       {e \in Waiting(t) : Least(DeferringDrains(t, e)) = d}]
      /\ blocked' = {r \in Lineage : r \notin t.ready /\ (t.merged => r = "kept")}
      /\ absorbed' = t.merged
      /\ current' \in {current, current + 1} \cap ManifestIds
      /\ writing' = NoBatch /\ retained' = NoBatch /\ stage' = "reading"
      /\ used' = used
  BY Zenon DEF ColdStart
<1>2. ActivityTypes /\ LedgerSound(s, current) /\ WritingWell
  BY DEF ActivityInv
<1>3. current \in ManifestIds /\ Batch(writing) /\ used \in [lost : Nat, retries : Nat] /\ current' \in ManifestIds
  BY <1>1, <1>2 DEF ActivityTypes
<1>4. LedgerSound(t, current)
  <2>1. CASE writing = NoBatch
    BY <1>1, <1>2, <2>1
  <2>2. CASE writing # NoBatch
    <3>1. writing.event \notin DOMAIN s.rows /\ ~Historical(writing)
      BY <1>2 DEF WritingWell, EventsOf
    <3>2. t \in After(s, writing, "unknown")
      BY <1>1, <2>2
    <3> QED BY <1>2, <1>3, <3>1, <3>2, AfterFacts
  <2> QED BY <2>1, <2>2
<1>5. LedgerSound(t, current')
  <2>1. 1 .. current \subseteq 1 .. current'
    BY <1>1, <1>3, ActivityConstants DEF ManifestIds
  <2> QED BY <1>4, <2>1 DEF LedgerSound
<1>6. ASSUME NEW e \in EventsOf(t)
      PROVE  /\ OfRun(t, e) \in Lineage /\ e \in EventIds
             /\ t.merged => OfRun(t, e) = "kept"
             /\ e \in DOMAIN Restored(t) <=> Restorable(t, e)
             /\ Restorable(t, e) => Restored(t)[e] = IF Standing(t, e) # {} THEN "gone" ELSE OfRun(t, e)
             /\ e \in Waiting(t) <=> Standing(t, e) # {} \/ ~Restorable(t, e)
             /\ Restorable(t, e) => OfDrain(t, e) = 0 \/ ~Open(t, OfDrain(t, e))
             /\ ~Restorable(t, e) => OfDrain(t, e) # 0
  <2>1. OfRun(t, e) \in Lineage /\ e \in EventIds /\ (t.merged => OfRun(t, e) = "kept")
    BY <1>4, LedgerFields DEF LedgerSound, OfRun, EventsOf
  <2> QED BY <2>1 DEF Restored, Waiting, EventsOf, Restorable, OfRun, OfDrain
<1>7. Waiting(t) \subseteq EventsOf(t) /\ DOMAIN Restored(t) \subseteq EventsOf(t)
  BY DEF Waiting, Restored, EventsOf
<1>8. DOMAIN listed' = DOMAIN Restored(t) /\ DOMAIN activity' = EventsOf(t)
  <2>1. DOMAIN listed' = DOMAIN Restored(t)
    BY <1>1
  <2>2. DOMAIN activity' = DOMAIN Restored(t) \cup Waiting(t)
    BY <1>1, <2>1
  <2> QED BY <1>6, <1>7, <2>1, <2>2
<1>9. ASSUME NEW e \in DOMAIN listed'
      PROVE  listed'[e] \in Items /\ listed'[e].run = IF Standing(t, e) # {} THEN "gone" ELSE OfRun(t, e)
  <2>1. e \in EventsOf(t) /\ Restorable(t, e) /\ OfRun(t, e) \in Lineage
    BY <1>6, <1>7, <1>8
  <2>2. listed'[e] = [run |-> Restored(t)[e], label |-> "Durable"]
    BY <1>1, <1>8
  <2>3. Restored(t)[e] = IF Standing(t, e) # {} THEN "gone" ELSE OfRun(t, e)
    BY <1>6, <2>1
  <2> QED BY <2>1, <2>2, <2>3 DEF Items, Lineage
<1>10. ASSUME NEW e \in EventsOf(t) PROVE activity'[e] \in Items /\ activity'[e].run = OfRun(t, e)
  <2>1. CASE e \in Waiting(t)
    <3>1. activity'[e] = [run |-> OfRun(t, e), label |-> "Durable"]
      BY <1>1, <1>8, <2>1 DEF OfRun
    <3> QED BY <1>6, <3>1 DEF Items
  <2>2. CASE e \notin Waiting(t)
    <3>1. e \in DOMAIN listed' /\ Standing(t, e) = {}
      BY <1>6, <1>8, <2>2
    <3>2. activity'[e] = listed'[e]
      BY <1>1, <1>8, <2>2
    <3> QED BY <1>9, <3>1, <3>2
  <2> QED BY <2>1, <2>2
<1>11. ASSUME NEW e \in Waiting(t)
       PROVE  \E l \in DOMAIN hides' :
                 /\ e \in hides'[l] /\ l \in t.drains /\ ~Shut(t, l) /\ Touches(t, l, OfRun(t, e))
                 /\ Open(t, OfDrain(t, e)) => l <= OfDrain(t, e)
  <2> PICK l : l = Least(DeferringDrains(t, e))
    OBVIOUS
  <2>1. l \in DOMAIN hides' /\ e \in hides'[l]
    BY <1>1
  <2>2. /\ l \in t.drains /\ ~Shut(t, l) /\ Touches(t, l, OfRun(t, e))
        /\ Open(t, OfDrain(t, e)) => l <= OfDrain(t, e)
    BY <1>1, <1>3, <1>4, DeferredFacts
  <2> QED BY <2>1, <2>2
<1>12. ASSUME NEW y \in DOMAIN hides'
       PROVE  /\ y \in t.drains /\ ~Shut(t, y) /\ hides'[y] \subseteq Waiting(t)
              /\ \A e \in hides'[y] : Touches(t, y, OfRun(t, e))
  <2>1. hides'[y] = {e \in Waiting(t) : Least(DeferringDrains(t, e)) = y}
    BY <1>1
  <2>2. PICK w \in Waiting(t) : y = Least(DeferringDrains(t, w))
    BY <1>1
  <2>3. ASSUME NEW e \in Waiting(t), y = Least(DeferringDrains(t, e))
        PROVE  y \in t.drains /\ ~Shut(t, y) /\ Touches(t, y, OfRun(t, e))
    BY <1>1, <1>3, <1>4, <2>3, DeferredFacts
  <2> QED BY <2>1, <2>2, <2>3
<1>13. NoRecord \notin EventsOf(t) /\ t.merged \in BOOLEAN
  BY <1>4, ActivityConstants, LedgerFields DEF LedgerSound, EventsOf
<1>14. ActivityTypes'
  <2>1. ItemTable(activity') /\ ItemTable(listed')
    BY <1>6, <1>7, <1>8, <1>9, <1>10 DEF ItemTable
  <2>2. DOMAIN hides' \subseteq 1 .. current' /\ \A y \in DOMAIN hides' : hides'[y] \subseteq DOMAIN activity'
    BY <1>5, <1>7, <1>8, <1>12 DEF LedgerSound
  <2>3. blocked' \in SUBSET Lineage /\ absorbed' \in BOOLEAN
    BY <1>1, <1>13
  <2> QED BY <1>1, <1>3, <2>1, <2>2, <2>3, NoBatchFacts DEF ActivityTypes
<1>15. Listing'
  <2>1. DOMAIN listed' \subseteq DOMAIN activity'
    BY <1>7, <1>8
  <2>2. \A e \in DOMAIN listed' \cap EventsOf(t) : OfDrain(t, e) # 0 => ~Open(t, OfDrain(t, e))
    BY <1>6, <1>8
  <2> QED BY <1>8, <2>1, <2>2 DEF Listing, NothingAhead, EventsOf, OfDrain
<1>16. OpenIsHidden'
  <2> SUFFICES ASSUME NEW e \in EventsOf(t), Open(t, OfDrain(t, e))
               PROVE  \E x \in DOMAIN hides' : e \in hides'[x] /\ x <= OfDrain(t, e) /\ ~Shut(t, x)
    BY DEF OpenIsHidden
  <2>1. OfDrain(t, e) # 0
    <3>1. OfDrain(t, e) \in ManifestIds
      BY <1>4, LedgerFields DEF LedgerSound, Open
    <3> QED BY <3>1 DEF ManifestIds
  <2>2. e \in Waiting(t)
    BY <1>6, <2>1
  <2> QED BY <1>11, <2>2
<1>17. RetainedWell' /\ WritingWell'
  BY <1>1, <1>13, NoBatchFacts DEF RetainedWell, WritingWell
<1>18. HidesWell' /\ BlockedWell'
  <2>1. \A r \in blocked' : BlockedRow(t, r)
    BY <1>1, <1>4 DEF LedgerSound
  <2> QED BY <1>12, <2>1 DEF HidesWell, BlockedWell, BlockedIn
<1>19. InCalm'
  <2>1. /\ ~writing'.merge /\ writing'.event = NoRecord /\ ~retained'.merge /\ retained'.event = NoRecord
        /\ \A q : Into(writing', q) = q
    BY <1>1, NoBatchFacts
  <2>2. Accounted' /\ AbsorbedAgrees'
    BY <1>1, <1>8, <1>13, <2>1 DEF Accounted, AbsorbedAgrees
  <2>3. Unlisted'
    <3> SUFFICES ASSUME NEW e \in EventsOf(t) \ DOMAIN listed'
                 PROVE  OfDrain(t, e) # 0 /\ e \in HiddenItems(hides')
      BY DEF Unlisted
    <3>1. OfDrain(t, e) # 0 /\ e \in Waiting(t)
      BY <1>6, <1>8
    <3> QED BY <1>11, <3>1 DEF HiddenItems
  <2>4. RunsAgree'
    BY <1>1, <1>10, <2>1 DEF RunsAgree, OnceMoved
  <2>5. ListedAgree'
    BY <1>9, <2>1 DEF ListedAgree
  <2>6. HidesTouch'
    BY <1>12 DEF HidesTouch
  <2> QED BY <2>2, <2>3, <2>4, <2>5, <2>6 DEF InCalm
<1> QED BY <1>5, <1>14, <1>15, <1>16, <1>17, <1>18, <1>19 DEF ActivityInv

LEMMA ActivityInductive == ActivityInv /\ [ActivityNext]_activityVars => ActivityInv'
<1> SUFFICES ASSUME ActivityInv, [ActivityNext]_activityVars PROVE ActivityInv'
  OBVIOUS
<1>1. ASSUME NEW e \in EventIds \cup {NoRecord}, NEW r \in Lineage, NEW merge \in BOOLEAN,
             NEW origin \in {"observed", "provider"}, LiveSubmission(e, r, merge, origin)
      PROVE  ActivityInv'
  BY <1>1, LiveKeeps
<1>2. ASSUME NEW outcome \in Outcomings, Settle(outcome) PROVE ActivityInv'
  BY <1>2, SettleKeeps
<1>3. ASSUME NEW e \in EventIds, NEW r \in Lineage, NEW merge \in BOOLEAN, NEW outcome \in Outcomings,
             HistoricalSubmission(e, r, merge, outcome)
      PROVE  ActivityInv'
  BY <1>3, HistoricalKeeps
<1>4. CASE RetryRetained
  BY <1>4, RetryKeeps
<1>5. ASSUME NEW outcome \in Outcomings, NEW covers \in BOOLEAN, HistoryBarrier(outcome, covers)
      PROVE  ActivityInv'
  <2>1. CASE outcome = "committed"
    BY <1>5, <2>1, PublishedKeeps
  <2>2. CASE outcome # "committed"
    BY <1>5, <2>2, HeldKeeps
  <2> QED BY <2>1, <2>2
<1>6. CASE ColdStart
  BY <1>6, ColdStartKeeps
<1>7. CASE UNCHANGED activityVars
  <2>1. /\ ActivityTypes' = ActivityTypes /\ Listing' = Listing /\ OpenIsHidden' = OpenIsHidden
        /\ RetainedWell' = RetainedWell /\ WritingWell' = WritingWell /\ HidesWell' = HidesWell
        /\ BlockedWell' = BlockedWell /\ Calm' = Calm /\ ledger' = ledger /\ current' = current
    BY <1>7 DEF activityVars, ActivityTypes, Listing, NothingAhead, OpenIsHidden, RetainedWell, WritingWell,
       HidesWell, BlockedWell, Calm, EventsOf
  <2>2. InCalm' = InCalm
    BY <1>7 DEF activityVars, InCalm, Accounted, Unlisted, RunsAgree, ListedAgree, HidesTouch, AbsorbedAgrees,
       Late, EventsOf, OnceMoved
  <2> QED BY <2>1, <2>2 DEF ActivityInv
<1> QED BY <1>1, <1>2, <1>3, <1>4, <1>5, <1>6, <1>7 DEF ActivityNext

\* Live and cold restore match (apply_submission_to, publish_accumulated and finalization of
\* operator.rs against load_restored_operator_state and load_deferred_history_activity), for every
\* set of events and number of drains, lost writes, retries and restarts: nothing is listed ahead
\* of its drain, a start can read every row that waits, and it shows the items on the list.
THEOREM LiveIsWhatARestartShows == ActivitySpec => []LiveMatchesColdRestore
<1> QED BY ActivityInitially, ActivityInductive, ActivityInvImplies, PTL DEF ActivitySpec
=============================================================================
