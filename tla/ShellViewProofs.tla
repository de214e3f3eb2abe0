-------------------------- MODULE ShellViewProofs --------------------------
(***************************************************************************)
(* For any recordings, filters and number of tasks under way: a dataset    *)
(* keyed by the filter generation is never mistaken for a current one, and *)
(* the active tab is one of those offered.                                 *)
(***************************************************************************)
EXTENDS ShellView, TLAPS

\* The caches keyed by the generation; flame has the style in its key too.
Keyed == Caches \ {"cpu_lanes"}

\* Key k of cache c stands for a generation up to g, and if for g itself then value v
\* is what the recording s, the filter f and the style in the key make it.
Right(c, k, v, s, f, g) ==
  \E h \in Nat, st \in Styles :
    /\ k = KeyOf(c, f, h, st)
    /\ h <= g
    /\ h = g => s # None /\ v = Built(c, s, f, st)

JobsRight(tasks, s, f, g) ==
  \A job \in BagToSet(tasks) :
    job.do = "build" /\ job.cache \in Keyed => Right(job.cache, job.key, job.result, s, f, g)

CachesRight(caches, s, f, g) ==
  \A c \in Keyed : caches[c].key # None => Right(c, caches[c].key, caches[c].value, s, f, g)

IsDerived(d) == d = [value |-> d.value, key |-> d.key, inflight |-> d.inflight]

Shaped(caches) ==
  caches = [c \in Caches |-> caches[c]] /\ \A c \in Caches : IsDerived(caches[c])

DataInvariant ==
  /\ generation \in Nat /\ style \in Styles /\ Shaped(cache)
  /\ JobsRight(jobs, session, filter, generation)
  /\ CachesRight(cache, session, filter, generation)

----------------------------------------------------------------------------
LEMMA BagUnionHas == ASSUME NEW a, NEW b PROVE BagToSet(a (+) b) = BagToSet(a) \cup BagToSet(b)
BY DEF BagToSet, (+)

LEMMA BagMinusHas == ASSUME NEW a, NEW b PROVE BagToSet(a (-) b) \subseteq BagToSet(a)
BY DEF BagToSet, (-)

LEMMA SetBagHas == ASSUME NEW S PROVE BagToSet(SetToBag(S)) = S
BY DEF BagToSet, SetToBag

\* What is right for one generation is out of date in the next.
LEMMA RightLater ==
  ASSUME NEW c \in Keyed, NEW k, NEW v, NEW s, NEW f, NEW g \in Nat, Right(c, k, v, s, f, g),
         NEW s2, NEW f2
  PROVE  Right(c, k, v, s2, f2, g + 1)
<1>1. PICK h \in Nat, st \in Styles : k = KeyOf(c, f, h, st) /\ h <= g BY DEF Right
<1>2. KeyOf(c, f, h, st) = KeyOf(c, f2, h, st) BY DEF KeyOf, Keyed
<1>3. h <= g + 1 /\ h # g + 1 BY <1>1
<1> QED BY <1>1, <1>2, <1>3 DEF Right

\* ensure_derived adds tasks that are right for the state they were asked in.
LEMMA EnsureKeepsRight ==
  ASSUME NEW s, NEW f, NEW g \in Nat, NEW st \in Styles, NEW t, NEW caches, NEW others,
         Shaped(caches), JobsRight(others, s, f, g), CachesRight(caches, s, f, g),
         Ensure(s, f, g, st, t, caches, others)
  PROVE  Shaped(cache') /\ JobsRight(jobs', s, f, g) /\ CachesRight(cache', s, f, g)
<1> DEFINE asked == {c \in Needs(ActiveView(s, t)) : s # None /\ Wanted(caches[c], KeyOf(c, f, g, st))}
           new == {BuildJob(c, KeyOf(c, f, g, st), s, f, st) : c \in asked}
<1>1. /\ jobs' = others (+) SetToBag(new)
      /\ cache' = [c \in Caches |->
                     IF c \in asked THEN [caches[c] EXCEPT !.inflight = KeyOf(c, f, g, st)]
                     ELSE caches[c]]
  BY DEF Ensure
<1>2. s # None \/ asked = {} OBVIOUS
<1> HIDE DEF asked
<1>3. \A c \in Caches : /\ cache'[c].value = caches[c].value /\ cache'[c].key = caches[c].key
                        /\ IsDerived(cache'[c])
  BY <1>1 DEF Shaped, IsDerived
<1>4. Shaped(cache') BY <1>1, <1>3 DEF Shaped
<1>5. CachesRight(cache', s, f, g) BY <1>3 DEF CachesRight, Keyed
<1>6. JobsRight(jobs', s, f, g)
  <2> SUFFICES ASSUME NEW job \in BagToSet(jobs'), job.do = "build", job.cache \in Keyed
               PROVE  Right(job.cache, job.key, job.result, s, f, g)
    BY DEF JobsRight
  <2>1. job \in BagToSet(others) \/ job \in new BY <1>1, BagUnionHas, SetBagHas
  <2>2. CASE job \in BagToSet(others) BY <2>2 DEF JobsRight
  <2>3. CASE job \in new
    <3>1. PICK c \in asked : job = BuildJob(c, KeyOf(c, f, g, st), s, f, st) BY <2>3
    <3>2. job.cache = c /\ job.key = KeyOf(c, f, g, st) /\ job.result = Built(c, s, f, st)
      BY <3>1 DEF BuildJob
    <3> QED BY <1>2, <3>2 DEF Right
  <2> QED BY <2>1, <2>2, <2>3
<1> QED BY <1>4, <1>5, <1>6

LEMMA AllRightLater ==
  ASSUME NEW tasks, NEW caches, NEW s, NEW f, NEW g \in Nat, NEW s2, NEW f2,
         JobsRight(tasks, s, f, g), CachesRight(caches, s, f, g)
  PROVE  JobsRight(tasks, s2, f2, g + 1) /\ CachesRight(caches, s2, f2, g + 1)
BY RightLater DEF JobsRight, CachesRight

LEMMA DataInitially == Init => DataInvariant
<1> SUFFICES ASSUME Init PROVE DataInvariant OBVIOUS
<1>1. generation \in Nat /\ style \in Styles BY ShellAssumption DEF Init
<1>2. Shaped(cache) BY DEF Init, Shaped, IsDerived, Fresh
<1>3. BagToSet(jobs) = {} BY SetBagHas DEF Init, EmptyBag
<1>4. \A c \in Caches : cache[c].key = None BY DEF Init, Fresh
<1> QED BY <1>1, <1>2, <1>3, <1>4 DEF DataInvariant, JobsRight, CachesRight, Keyed

\* refresh_analysis: a new generation makes everything before it out of date.
LEMMA RefreshKeepsRight ==
  ASSUME DataInvariant, NEW f, Refresh(f), UNCHANGED <<session, style>>
  PROVE  DataInvariant'
<1>1. /\ JobsRight(jobs, session, f, generation + 1)
      /\ CachesRight(cache, session, f, generation + 1)
  BY AllRightLater DEF DataInvariant
<1>2. generation + 1 \in Nat /\ style \in Styles /\ Shaped(cache) BY DEF DataInvariant
<1>3. Ensure(session, f, generation + 1, style, tab, cache, jobs) BY DEF Refresh
<1>4. /\ Shaped(cache') /\ JobsRight(jobs', session, f, generation + 1)
      /\ CachesRight(cache', session, f, generation + 1)
  BY <1>1, <1>2, <1>3, EnsureKeepsRight
<1> QED BY <1>2, <1>4 DEF Refresh, DataInvariant

\* Tasks that are taken away leave the others right.
LEMMA FewerTasks ==
  ASSUME NEW tasks, NEW b, NEW s, NEW f, NEW g, JobsRight(tasks, s, f, g)
  PROVE  JobsRight(tasks (-) b, s, f, g)
BY BagMinusHas DEF JobsRight

LEMMA UserKeepsRight == DataInvariant /\ User => DataInvariant'
<1> SUFFICES ASSUME DataInvariant, User PROVE DataInvariant' OBVIOUS
<1>1. ASSUME NEW time \in {0, 1}, SetTime(time) PROVE DataInvariant'
  BY <1>1, RefreshKeepsRight DEF SetTime
<1>2. ASSUME NEW spatial \in {0, 1}, SetSpatial(spatial) PROVE DataInvariant'
  BY <1>2, RefreshKeepsRight DEF SetSpatial
<1>3. CASE ClearFilters BY <1>3, RefreshKeepsRight DEF ClearFilters
<1>4. ASSUME NEW t \in 1 .. TabCount, SelectTab(t - 1) PROVE DataInvariant'
  <2>1. Ensure(session, filter, generation, style, t - 1, cache, jobs) BY <1>4 DEF SelectTab
  <2>2. /\ Shaped(cache') /\ JobsRight(jobs', session, filter, generation)
        /\ CachesRight(cache', session, filter, generation)
    BY <2>1, EnsureKeepsRight DEF DataInvariant
  <2> QED BY <1>4, <2>2 DEF SelectTab, DataInvariant
<1>5. ASSUME NEW frame \in Frames, OpenSourceTab(frame) PROVE DataInvariant'
  BY <1>5 DEF OpenSourceTab, DataInvariant
<1>6. ASSUME NEW i \in DOMAIN tabs, CloseTab(i) PROVE DataInvariant'
  BY <1>6 DEF CloseTab, DataInvariant
<1>7. ASSUME NEW st \in Styles, SetStyle(st) PROVE DataInvariant'
  <2>1. Ensure(session, filter, generation, st, tab, cache, jobs) BY <1>7 DEF SetStyle
  <2>2. /\ Shaped(cache') /\ JobsRight(jobs', session, filter, generation)
        /\ CachesRight(cache', session, filter, generation)
    BY <2>1, EnsureKeepsRight DEF DataInvariant
  <2> QED BY <1>7, <2>2 DEF SetStyle, DataInvariant
<1>8. ASSUME NEW r \in Recordings, OpenRecording(r) PROVE DataInvariant'
  <2>1. JobsRight(jobs', session, filter, generation)
    <3>1. CASE loading = None
      <4>1. jobs' = jobs (+) SetToBag({LoadJob(r)}) BY <1>8, <3>1 DEF OpenRecording, Open
      <4>2. BagToSet(jobs') = BagToSet(jobs) \cup {LoadJob(r)} BY <4>1, BagUnionHas, SetBagHas
      <4>3. LoadJob(r).do # "build" BY DEF LoadJob
      <4> QED BY <4>2, <4>3 DEF DataInvariant, JobsRight
    <3>2. CASE loading # None
      BY <1>8, <3>2 DEF OpenRecording, Open, DataInvariant
    <3> QED BY <3>1, <3>2
  <2> QED BY <1>8, <2>1 DEF OpenRecording, DataInvariant
<1> QED BY <1>1, <1>2, <1>3, <1>4, <1>5, <1>6, <1>7, <1>8 DEF User

LEMMA ExecutorKeepsRight == DataInvariant /\ Executor => DataInvariant'
<1> SUFFICES ASSUME DataInvariant, Executor PROVE DataInvariant' OBVIOUS
<1>1. ASSUME NEW r \in Recordings, LoadFails(r) PROVE DataInvariant'
  BY <1>1, FewerTasks DEF LoadFails, Done, DataInvariant
<1>2. ASSUME NEW r \in Recordings, Install(r) PROVE DataInvariant'
  <2> DEFINE rest == jobs (-) SetToBag({LoadJob(r)})
  <2>1. /\ generation' = generation + 1 /\ filter' = Unfiltered /\ session' = r /\ style' = style
        /\ Ensure(r, Unfiltered, generation + 1, style, HotspotsTab(r), Reset, rest)
    BY <1>2 DEF Install
  <2>2. generation \in Nat /\ style \in Styles BY DEF DataInvariant
  <2>3. JobsRight(rest, session, filter, generation) BY FewerTasks DEF DataInvariant
  <2> HIDE DEF rest
  <2>4. JobsRight(rest, r, Unfiltered, generation + 1)
    BY <2>2, <2>3, RightLater DEF JobsRight
  <2>5. Shaped(Reset) /\ \A c \in Caches : Reset[c].key = None
    BY DEF Reset, Shaped, IsDerived, Fresh
  <2>6. CachesRight(Reset, r, Unfiltered, generation + 1)
    BY <2>5 DEF CachesRight, Keyed
  <2>7. generation + 1 \in Nat BY <2>2
  <2>8. /\ Shaped(cache') /\ JobsRight(jobs', r, Unfiltered, generation + 1)
        /\ CachesRight(cache', r, Unfiltered, generation + 1)
    BY <2>1, <2>2, <2>4, <2>5, <2>6, <2>7, EnsureKeepsRight
  <2> QED BY <2>1, <2>2, <2>7, <2>8 DEF DataInvariant
<1>3. ASSUME NEW c \in Caches, NEW k \in Keys, BuildDone(c, k) PROVE DataInvariant'
  <2>1. PICK job \in BagToSet(jobs) :
          /\ job.do = "build" /\ job.cache = c /\ job.key = k
          /\ jobs' = jobs (-) SetToBag({job})
          /\ \/ UNCHANGED cache
             \/ cache' = [cache EXCEPT ![c].inflight = None]
             \/ cache' = [cache EXCEPT ![c] = [value |-> job.result, key |-> k, inflight |-> None]]
          /\ UNCHANGED <<session, loading, filter, generation, style, tab, tabs>>
    BY <1>3 DEF BuildDone, Done
  <2>2. JobsRight(jobs', session, filter, generation) BY <2>1, FewerTasks DEF DataInvariant
  <2>3. Shaped(cache') BY <2>1 DEF DataInvariant, Shaped, IsDerived
  <2>4. CachesRight(cache', session, filter, generation)
    <3> SUFFICES ASSUME NEW d \in Keyed, cache'[d].key # None
                 PROVE  Right(d, cache'[d].key, cache'[d].value, session, filter, generation)
      BY DEF CachesRight
    <3>1. d \in Caches BY DEF Keyed
    <3>2. CASE cache'[d].key = cache[d].key /\ cache'[d].value = cache[d].value
      BY <3>2 DEF DataInvariant, CachesRight
    <3>3. CASE d = c /\ cache'[d].key = job.key /\ cache'[d].value = job.result
      BY <2>1, <3>3 DEF DataInvariant, JobsRight
    <3>4. \/ cache'[d].key = cache[d].key /\ cache'[d].value = cache[d].value
          \/ d = c /\ cache'[d].key = job.key /\ cache'[d].value = job.result
      BY <2>1, <3>1 DEF DataInvariant, Shaped, IsDerived
    <3> QED BY <3>2, <3>3, <3>4
  <2> QED BY <2>1, <2>2, <2>3, <2>4 DEF DataInvariant
<1> QED BY <1>1, <1>2, <1>3 DEF Executor

LEMMA DataInductive == DataInvariant /\ [Next]_vars => DataInvariant'
<1>1. ASSUME DataInvariant, UNCHANGED vars PROVE DataInvariant' BY <1>1 DEF vars, DataInvariant
<1> QED BY <1>1, UserKeepsRight, ExecutorKeepsRight DEF Next

\* Derived::install and the keys of the datasets: results that arrive late, in any order
\* and for any earlier filter, style or recording are never shown as current.
THEOREM CurrentDatasetsRight == Spec => []CurrentIsRight
<1>1. DataInvariant => CurrentIsRight
  <2> SUFFICES ASSUME DataInvariant, NEW c \in Keyed, cache[c].key = Key(c), session # None
               PROVE  cache[c].value = Built(c, session, filter, style)
    BY DEF CurrentIsRight, Keyed
  <2>1. generation \in Nat /\ style \in 0 .. 3 BY ShellAssumption DEF DataInvariant
  <2>2. Key(c) \in Nat /\ Key(c) = IF c = "flame" THEN generation * 4 + style ELSE generation
    BY <2>1 DEF Key, KeyOf, Keyed
  <2>3. PICK h \in Nat, st \in Styles :
          /\ cache[c].key = KeyOf(c, filter, h, st)
          /\ h = generation => cache[c].value = Built(c, session, filter, st)
    BY <2>2, ShellAssumption DEF DataInvariant, CachesRight, Right
  <2>4. st \in 0 .. 3 BY ShellAssumption
  <2>5. h = generation /\ (c = "flame" => st = style)
    BY <2>1, <2>2, <2>3, <2>4 DEF KeyOf, Keyed
  <2>6. Built(c, session, filter, st) = Built(c, session, filter, style)
    BY <2>5 DEF Built
  <2> QED BY <2>3, <2>5, <2>6
<1> QED BY <1>1, DataInitially, DataInductive, PTL DEF Spec

----------------------------------------------------------------------------
(* Tabs *)

TabInvariant ==
  /\ session \in Recordings \cup {None}
  /\ tab \in Nat /\ tabs \in Seq(Frames)
  /\ session # None => tab < Len(ViewsOf[session]) + Len(tabs)

LEMMA SomeView == \A r \in Recordings : Len(ViewsOf[r]) \in Nat /\ Len(ViewsOf[r]) >= 1
<1> SUFFICES ASSUME NEW r \in Recordings PROVE Len(ViewsOf[r]) \in Nat /\ Len(ViewsOf[r]) >= 1
  OBVIOUS
<1>1. ViewsOf[r] \in Seq(Views) /\ ViewsOf[r] # <<>> BY ShellAssumption
<1> QED BY <1>1

LEMMA ClosedTabs ==
  ASSUME NEW seq \in Seq(Frames), NEW i \in DOMAIN seq
  PROVE  Without(seq, i) \in Seq(Frames) /\ Len(Without(seq, i)) = Len(seq) - 1
<1>1. Len(seq) \in Nat /\ i \in 1 .. Len(seq) OBVIOUS
<1> DEFINE before == SubSeq(seq, 1, i - 1)
           after == SubSeq(seq, i + 1, Len(seq))
<1>2. before \in Seq(Frames) /\ Len(before) = i - 1 BY <1>1
<1>3. after \in Seq(Frames) /\ Len(after) = Len(seq) - i BY <1>1
<1>4. Without(seq, i) = before \o after BY DEF Without
<1> HIDE DEF before, after
<1>5. before \o after \in Seq(Frames) /\ Len(before \o after) = Len(before) + Len(after)
  BY <1>2, <1>3
<1>6. Len(before) + Len(after) = Len(seq) - 1 BY <1>1, <1>2, <1>3
<1> QED BY <1>4, <1>5, <1>6

LEMMA TabInductive == TabInvariant /\ [Next]_vars => TabInvariant'
<1> SUFFICES ASSUME TabInvariant, [Next]_vars PROVE TabInvariant' OBVIOUS
<1>1. CASE \/ \E time \in {0, 1} : SetTime(time)
           \/ \E spatial \in {0, 1} : SetSpatial(spatial)
           \/ ClearFilters
           \/ \E st \in Styles : SetStyle(st)
           \/ \E r \in Recordings : OpenRecording(r)
           \/ \E r \in Recordings : LoadFails(r)
           \/ \E c \in Caches, k \in Keys : BuildDone(c, k)
           \/ UNCHANGED vars
  <2>1. UNCHANGED <<session, tab, tabs>>
    BY <1>1 DEF SetTime, SetSpatial, ClearFilters, SetStyle, OpenRecording, LoadFails, BuildDone, vars
  <2> QED BY <2>1 DEF TabInvariant
<1>2. ASSUME NEW t \in 1 .. TabCount, SelectTab(t - 1) PROVE TabInvariant'
  <2>1. t - 1 \in Nat BY SomeView DEF TabInvariant, TabCount
  <2> QED BY <1>2, <2>1 DEF SelectTab, TabInvariant, TabCount
<1>3. ASSUME NEW frame \in Frames, OpenSourceTab(frame) PROVE TabInvariant'
  <2>1. session \in Recordings /\ Len(ViewsOf[session]) \in Nat /\ Len(ViewsOf[session]) >= 1
    BY <1>3, SomeView DEF OpenSourceTab, TabInvariant
  <2>2. Len(tabs) \in Nat /\ DOMAIN tabs = 1 .. Len(tabs) BY DEF TabInvariant
  <2>3. CASE \E i \in DOMAIN tabs : tabs[i] = frame
    <3>1. PICK i \in DOMAIN tabs : tab' = Len(ViewsOf[session]) - 1 + i
      BY <1>3, <2>3 DEF OpenSourceTab
    <3> QED BY <1>3, <2>1, <2>2, <2>3, <3>1 DEF OpenSourceTab, TabInvariant
  <2>4. CASE ~\E i \in DOMAIN tabs : tabs[i] = frame
    <3>1. /\ tabs' = Append(tabs, frame) /\ tab' = Len(ViewsOf[session]) + Len(tabs)
          /\ session' = session
      BY <1>3, <2>4 DEF OpenSourceTab
    <3>2. tabs' \in Seq(Frames) /\ Len(tabs') = Len(tabs) + 1 BY <3>1 DEF TabInvariant
    <3>3. tab' \in Nat /\ tab' < Len(ViewsOf[session]) + Len(tabs')
      <4> DEFINE static == Len(ViewsOf[session])
                 open == Len(tabs)
                 opened == Len(tabs')
      <4>1. static \in Nat /\ open \in Nat BY <2>1, <2>2
      <4>2. tab' = static + open BY <3>1
      <4>3. opened = open + 1 BY <3>2
      <4> HIDE DEF static, open, opened
      <4>4. tab' \in Nat /\ tab' < static + opened BY <4>1, <4>2, <4>3
      <4> QED BY <4>4 DEF static, opened
    <3>4. session' \in Recordings BY <2>1, <3>1
    <3>5. Len(ViewsOf[session']) = Len(ViewsOf[session]) BY <3>1
    <3> QED BY <3>2, <3>3, <3>4, <3>5 DEF TabInvariant
  <2> QED BY <2>3, <2>4
<1>4. ASSUME NEW i \in DOMAIN tabs, CloseTab(i) PROVE TabInvariant'
  <2>1. session \in Recordings /\ Len(ViewsOf[session]) \in Nat /\ Len(ViewsOf[session]) >= 1
    BY <1>4, SomeView DEF CloseTab, TabInvariant
  <2>2. Len(tabs) \in Nat /\ i \in 1 .. Len(tabs) BY DEF TabInvariant
  <2>3. tabs' \in Seq(Frames) /\ Len(tabs') = Len(tabs) - 1
    BY <1>4, ClosedTabs DEF CloseTab, TabInvariant
  <2>4. tab' \in Nat /\ tab' < Len(ViewsOf[session]) + Len(tabs) - 1
    BY <1>4, <2>1, <2>2 DEF CloseTab, AfterClose, TabInvariant
  <2> QED BY <1>4, <2>1, <2>2, <2>3, <2>4 DEF CloseTab, TabInvariant
<1>5. ASSUME NEW r \in Recordings, Install(r) PROVE TabInvariant'
  <2>1. Len(ViewsOf[r]) \in Nat /\ Len(ViewsOf[r]) >= 1 /\ DOMAIN ViewsOf[r] = 1 .. Len(ViewsOf[r])
    BY SomeView, ShellAssumption
  <2>2. HotspotsTab(r) \in Nat /\ HotspotsTab(r) < Len(ViewsOf[r])
    BY <2>1 DEF HotspotsTab
  <2>3. session' = r /\ tabs' = <<>> /\ tab' = HotspotsTab(r) BY <1>5 DEF Install
  <2>4. tabs' \in Seq(Frames) /\ Len(tabs') = 0 BY <2>3
  <2> QED BY <2>1, <2>2, <2>3, <2>4 DEF TabInvariant
<1> QED BY <1>1, <1>2, <1>3, <1>4, <1>5 DEF Next, User, Executor

\* on_close of the tab bar, open_source_tab and install_session keep active_tab an index
\* of the tabs drawn, for any recordings and any number of source tabs.
THEOREM ActiveTabIsOffered == Spec => []ActiveTabExists
<1>1. Init => TabInvariant
  <2>1. <<>> \in Seq(Frames) /\ 0 \in Nat OBVIOUS
  <2> QED BY <2>1 DEF Init, TabInvariant
<1>2. TabInvariant => ActiveTabExists BY DEF TabInvariant, ActiveTabExists, TabCount
<1> QED BY <1>1, <1>2, TabInductive, PTL DEF Spec
============================================================================
