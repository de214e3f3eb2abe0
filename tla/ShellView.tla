----------------------------- MODULE ShellView -----------------------------
(***************************************************************************)
(* The profile viewer's ShellView: one window that loads recordings and    *)
(* computes derived datasets on a background executor while the user goes  *)
(* on filtering, switching tabs and opening other recordings.              *)
(*                                                                         *)
(* A dataset is the description of what it was computed from.  The four    *)
(* Derived caches stand for the ways one is keyed: "analysis" (generation, *)
(* needed by every view), "flame" (generation and style), "cpu_lanes"      *)
(* (also scope: the filter without its time range, built or not) and       *)
(* "balance" (also allocation_sites: generation, built or not).  What only *)
(* changes how a dataset is drawn (menus, sort order, hover, selection,    *)
(* zoom, error dialogs, the listing in a source tab) is left out.          *)
(***************************************************************************)
EXTENDS Naturals, Sequences, FiniteSets, Bags

CONSTANTS
  None,           \* no value
  Recordings,     \* recording directories
  ViewsOf,        \* the static views a recording offers, in order
  Frames,         \* functions that can be opened in a source tab
  Styles,         \* stacks * 2 + weight of the flame graph
  Empty,          \* spatial filters that leave nothing to show
  MaxGeneration,  \* bound: filter generations
  MaxJobs         \* bound: tasks on the executor

Views == {"Summary", "Hotspots", "Flame", "Cores"}

ASSUME ShellAssumption ==
  /\ None \notin Recordings /\ None \notin Nat
  /\ ViewsOf \in [Recordings -> Seq(Views)]
  /\ \A r \in Recordings : ViewsOf[r] # <<>> /\ ViewsOf[r][1] = "Summary"
  /\ Styles \subseteq 0 .. 3 /\ 0 \in Styles
  /\ MaxGeneration \in Nat /\ MaxJobs \in Nat

VARIABLES
  session,     \* the recording installed
  loading,     \* the one being loaded
  filter,      \* the global filter: its time range and everything else
  generation,  \* filter_generation
  style,       \* flame_stacks and flame_weight
  cache,       \* the Derived caches
  tab,         \* active_tab
  tabs,        \* source_tabs
  jobs         \* tasks on the background executor

vars == <<session, loading, filter, generation, style, cache, tab, tabs, jobs>>

Caches == {"analysis", "flame", "cpu_lanes", "balance"}

Unfiltered == [time |-> 0, spatial |-> 0]

Fresh == [value |-> None, key |-> None, inflight |-> None]   \* Derived::default

\* What cache c holds when it is built for recording s.
Built(c, s, f, st) ==
  IF c \in {"cpu_lanes", "balance"} /\ f.spatial \in Empty
    THEN None
    ELSE [of |-> s,
          spatial |-> f.spatial,
          time |-> IF c = "cpu_lanes" THEN 0 ELSE f.time,
          style |-> IF c = "flame" THEN st ELSE 0]

\* Mutant of KeyOf: the style of the flame graph is not part of its key.
KeyOfUnstyled(c, f, g, st) == IF c = "cpu_lanes" THEN f.spatial ELSE g

\* analysis_key, flame_key and spatial_key.
KeyOf(c, f, g, st) ==
  CASE c = "flame" -> g * 4 + st
    [] c = "cpu_lanes" -> f.spatial
    [] OTHER -> g

Key(c) == KeyOf(c, filter, generation, style)

ActiveView(s, t) ==
  IF s # None /\ t < Len(ViewsOf[s]) THEN ViewsOf[s][t + 1] ELSE None

\* Mutant of Needs: only the tab that shows a dataset asks for it.
NeedsShown(view) ==
  CASE view = "Flame" -> {"flame"}
    [] view = "Cores" -> {"cpu_lanes", "balance"}
    [] OTHER -> {"analysis"}

\* The datasets ensure_derived asks for.
Needs(view) ==
  {"analysis"} \cup (CASE view = "Flame" -> {"flame"}
                       [] view = "Cores" -> {"cpu_lanes", "balance"}
                       [] OTHER -> {})

BuildJob(c, k, s, f, st) == [do |-> "build", cache |-> c, key |-> k, result |-> Built(c, s, f, st)]

\* Derived::request.
Wanted(d, k) == d.key # k /\ d.inflight # k

\* ensure_derived, on the state its caller has just set, with `others` on the
\* executor.
Ensure(s, f, g, st, t, caches, others) ==
  LET asked == {c \in Needs(ActiveView(s, t)) :
                  s # None /\ Wanted(caches[c], KeyOf(c, f, g, st))}
  IN /\ BagCardinality(others) + Cardinality(asked) <= MaxJobs
     /\ cache' = [c \in Caches |->
                    IF c \in asked THEN [caches[c] EXCEPT !.inflight = KeyOf(c, f, g, st)]
                    ELSE caches[c]]
     /\ jobs' = others (+) SetToBag({BuildJob(c, KeyOf(c, f, g, st), s, f, st) : c \in asked})

----------------------------------------------------------------------------
(* Filters *)

\* refresh_analysis with filter f.
Refresh(f) ==
  /\ session # None
  /\ generation < MaxGeneration
  /\ filter' = f
  /\ generation' = generation + 1
  /\ Ensure(session, f, generation + 1, style, tab, cache, jobs)

\* commit_time_filter.
SetTime(time) ==
  /\ time # filter.time
  /\ Refresh([filter EXCEPT !.time = time])
  /\ UNCHANGED <<session, loading, style, tab, tabs>>

\* A thread, a module, a region or the text of the symbol filter.
SetSpatial(spatial) ==
  /\ Refresh([filter EXCEPT !.spatial = spatial])
  /\ UNCHANGED <<session, loading, style, tab, tabs>>

\* clear_filters, from clear_stage or the button, which is also there when only a
\* function is selected.
ClearFilters ==
  /\ Refresh(Unfiltered)
  /\ UNCHANGED <<session, loading, style, tab, tabs>>

----------------------------------------------------------------------------
(* Tabs *)

TabCount == IF session = None THEN 0 ELSE Len(ViewsOf[session]) + Len(tabs)

\* set_active_tab.
SelectTab(t) ==
  /\ t < TabCount
  /\ tab' = t
  /\ Ensure(session, filter, generation, style, t, cache, jobs)
  /\ UNCHANGED <<session, loading, filter, generation, style, tabs>>

\* open_source_tab: an open tab is only brought to the front.
OpenSourceTab(frame) ==
  /\ session # None
  /\ IF \E i \in DOMAIN tabs : tabs[i] = frame
       THEN /\ tab' = Len(ViewsOf[session]) - 1
                      + (CHOOSE i \in DOMAIN tabs : tabs[i] = frame)
            /\ UNCHANGED tabs
       ELSE /\ tabs' = Append(tabs, frame)
            /\ tab' = Len(ViewsOf[session]) + Len(tabs)
  /\ UNCHANGED <<session, loading, filter, generation, style, cache, jobs>>

Without(s, i) == SubSeq(s, 1, i - 1) \o SubSeq(s, i + 1, Len(s))

\* Mutant of AfterClose: the tabs behind the closed one have not moved up.
AfterCloseInPlace(static, closed) == IF tab = closed THEN static - 1 ELSE tab

\* The active tab after on_close of the tab bar has removed the one at `closed`.
AfterClose(static, closed) ==
  IF tab = closed THEN static - 1 ELSE IF tab > closed THEN tab - 1 ELSE tab

CloseTab(i) ==
  /\ session # None
  /\ i \in DOMAIN tabs
  /\ tabs' = Without(tabs, i)
  /\ tab' = AfterClose(Len(ViewsOf[session]), Len(ViewsOf[session]) + i - 1)
  /\ UNCHANGED <<session, loading, filter, generation, style, cache, jobs>>

----------------------------------------------------------------------------
(* The flame graph *)

SetStyle(st) ==
  /\ ActiveView(session, tab) = "Flame"
  /\ st # style
  /\ style' = st
  /\ Ensure(session, filter, generation, st, tab, cache, jobs)
  /\ UNCHANGED <<session, loading, filter, generation, tab, tabs>>

----------------------------------------------------------------------------
(* Recordings *)

LoadJob(r) == [do |-> "load", recording |-> r]

\* open_recording, which does nothing while another one is loading.
Open(r) ==
  IF loading = None
    THEN /\ loading' = r
         /\ jobs' = jobs (+) SetToBag({LoadJob(r)})
    ELSE UNCHANGED <<loading, jobs>>

\* From the command line, the recents menu or the welcome page.
OpenRecording(r) ==
  /\ Open(r)
  /\ UNCHANGED <<session, filter, generation, style, cache, tab, tabs>>

Done(job) == /\ BagIn(job, jobs)
             /\ jobs' = jobs (-) SetToBag({job})

LoadFails(r) ==
  /\ Done(LoadJob(r))
  /\ loading' = None
  /\ UNCHANGED <<session, filter, generation, style, cache, tab, tabs>>

HotspotsTab(r) ==
  IF \E i \in DOMAIN ViewsOf[r] : ViewsOf[r][i] = "Hotspots"
    THEN (CHOOSE i \in DOMAIN ViewsOf[r] : ViewsOf[r][i] = "Hotspots") - 1
    ELSE 0

\* Derived::reset of every cache.
Reset == [c \in Caches |-> Fresh]

\* install_session, which ends in refresh_analysis.
Install(r) ==
  /\ BagIn(LoadJob(r), jobs)
  /\ generation < MaxGeneration
  /\ loading' = None
  /\ session' = r
  /\ filter' = Unfiltered
  /\ generation' = generation + 1
  /\ tabs' = <<>>
  /\ tab' = HotspotsTab(r)
  /\ Ensure(r, Unfiltered, generation + 1, style, HotspotsTab(r), Reset,
            jobs (-) SetToBag({LoadJob(r)}))
  /\ UNCHANGED style

----------------------------------------------------------------------------
(* Results of the background executor *)

Accepts(d, k) == d.inflight = k

\* Derived::install.
BuildDone(c, k) ==
  \E job \in BagToSet(jobs) :
    /\ job.do = "build" /\ job.cache = c /\ job.key = k
    /\ Done(job)
    /\ \/ /\ ~Accepts(cache[c], k)
          /\ UNCHANGED cache
       \/ /\ Accepts(cache[c], k)
          /\ job.result = None
          /\ cache' = [cache EXCEPT ![c].inflight = None]
       \/ /\ Accepts(cache[c], k)
          /\ job.result # None
          /\ cache' = [cache EXCEPT ![c] = [value |-> job.result, key |-> k, inflight |-> None]]
    /\ UNCHANGED <<session, loading, filter, generation, style, tab, tabs>>

----------------------------------------------------------------------------
Init ==
  /\ session = None /\ loading = None
  /\ filter = Unfiltered /\ generation = 0 /\ style = 0
  /\ cache = [c \in Caches |-> Fresh]
  /\ tab = 0 /\ tabs = <<>>
  /\ jobs = EmptyBag

User ==
  \/ \E time \in {0, 1} : SetTime(time)
  \/ \E spatial \in {0, 1} : SetSpatial(spatial)
  \/ ClearFilters
  \/ \E t \in 1 .. TabCount : SelectTab(t - 1)
  \/ \E frame \in Frames : OpenSourceTab(frame)
  \/ \E i \in DOMAIN tabs : CloseTab(i)
  \/ \E st \in Styles : SetStyle(st)
  \/ \E r \in Recordings : OpenRecording(r)

Keys == 0 .. 4 * MaxGeneration + 3

Executor ==
  \/ \E r \in Recordings : LoadFails(r) \/ Install(r)
  \/ \E c \in Caches, k \in Keys : BuildDone(c, k)

Next == User \/ Executor

Spec == Init /\ [][Next]_vars

\* The executor runs every task; what the user does is up to the user.
Fairness ==
  /\ \A r \in Recordings : WF_vars(LoadFails(r) \/ Install(r))
  /\ \A c \in Caches : WF_vars(\E k \in Keys : BuildDone(c, k))

FairSpec == Spec /\ Fairness

----------------------------------------------------------------------------
(* Properties *)

\* A dataset that counts as current was built from the recording, the filter
\* and the style now in force, whatever was requested, abandoned and delivered
\* late before.
CurrentIsRight ==
  \A c \in Caches \ {"cpu_lanes"} :
    cache[c].key = Key(c) /\ session # None =>
      cache[c].value = Built(c, session, filter, style)

\* The same for the datasets keyed by the filter alone.
LanesAreRight ==
  cache["cpu_lanes"].key = Key("cpu_lanes") /\ session # None =>
    cache["cpu_lanes"].value = Built("cpu_lanes", session, filter, style)

\* The active tab is one of those offered, through closing tabs and recordings
\* with fewer views.
ActiveTabExists == session # None => tab < TabCount

\* The hotspots, which feed selection and status, follow every change.
AnalysisSettles ==
  session # None /\ cache["analysis"].key # Key("analysis")
    ~> cache["analysis"].key = Key("analysis")

============================================================================
