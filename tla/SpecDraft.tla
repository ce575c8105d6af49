------------------------------ MODULE SpecDraft ------------------------------
(***************************************************************************)
(* The search specification of a draft: the controls of                    *)
(* components/SearchSpecEditor.tsx that change it, and collector.ts, which *)
(* brings a specification that was read from a task pack, a job or a file  *)
(* into the form the editor needs, and again before it is compared or      *)
(* saved.  Views stands for the four metrics.  Keyword lists are text      *)
(* inputs and modelled in RuleDraft.                                       *)
(***************************************************************************)
EXTENDS Integers, FiniteSetsExt

CONSTANTS
  Numbers,   \* bound: the numbers users type and files hold
  Slices     \* bound: the time slices users choose, of TIME_SLICE_MINUTES

VARIABLES spec
specVars == <<spec>>

Absent == -1                            \* null, undefined or a blank input
Modes == {"any", "gte", "lte", "between"}
RawQueries == {"", "words", "time"}     \* time: holds since: or until:; blanks around it are left out
MaxDays == 100
TimeSlices == {15, 30, 60, 120, 240}

ASSUME SpecAssumption == Numbers \subseteq Int /\ Slices \subseteq TimeSlices

OrElse(x, y) == IF x = Absent THEN y ELSE x
RangeOf(mode, min, max) == [mode |-> mode, min |-> min, max |-> max]
DefaultDays == RangeOf("lte", Absent, 1)
DefaultViews == RangeOf("gte", 200, Absent)

-----------------------------------------------------------------------------
\* Reading a specification.  A range of a file may be anything; None is no range at all.
None == RangeOf("none", Absent, Absent)

\* clampNonNegative, of a number
Clamp(n, maximum) == Min({Max({0, n}), maximum})

\* normalizeRangeFilter
NormalizeRange(value, fallback, maximum, legacy, legacyMode) ==
  LET mode == IF value.mode \in Modes THEN value.mode ELSE fallback.mode
      min == Clamp(OrElse(value.min, OrElse(fallback.min, 0)), maximum)
      max == Clamp(OrElse(value.max, OrElse(fallback.max, min)), maximum)
  IN CASE value = None /\ legacy > 0 /\ legacyMode = "gte" -> RangeOf("gte", Clamp(legacy, maximum), Absent)
       [] value = None /\ legacy > 0 /\ legacyMode = "lte" -> RangeOf("lte", Absent, Clamp(legacy, maximum))
       [] value = None /\ legacy <= 0 -> fallback
       [] value # None /\ mode = "gte" ->
            RangeOf("gte", Clamp(OrElse(value.min, OrElse(value.max, OrElse(fallback.min, 0))), maximum), Absent)
       [] value # None /\ mode = "lte" ->
            RangeOf("lte", Absent, Clamp(OrElse(value.max, OrElse(value.min, OrElse(fallback.max, 0))), maximum))
       [] value # None /\ mode = "between" -> RangeOf("between", Min({min, max}), Max({min, max}))
       [] value # None /\ mode = "any" -> RangeOf("any", Absent, Absent)

NormalizeTimeSlice(minutes) == IF minutes \in TimeSlices THEN minutes ELSE 60

Unbounded == 1000000                    \* no maximum: more than any number

\* normalizeSearchSpecForUi, cloneSearchSpec.  days and views are the numbers of the old form,
\* which count when there is no range; what is written there is derived from the ranges.
NormalizeSource(source, days_number, views_number) ==
  LET days == NormalizeRange(source.days_filter, DefaultDays, MaxDays, days_number, "lte")
      views == NormalizeRange(source.views_filter, DefaultViews, Unbounded, views_number, "gte")
  IN [days_filter |-> days, views_filter |-> views,
      slice |-> NormalizeTimeSlice(source.slice),
      max_results |-> Min({100, Max({1, OrElse(source.max_results, 100)})}),
      raw_query |-> source.raw_query]

\* DEFAULT_SEARCH_SPEC
DefaultSpec ==
  [days_filter |-> DefaultDays, views_filter |-> DefaultViews, slice |-> 60, max_results |-> 100,
   raw_query |-> ""]

NormalizeSpec(source) == NormalizeSource(source, 0, 0)

-----------------------------------------------------------------------------
\* Editing it.

\* normalizeNumberInput
TypedNumber(n, maximum) == IF n = Absent THEN Absent ELSE Clamp(n, maximum)

\* (mutant of BuildRange) what is typed is kept within the maximum, the order is not looked at
BuildRangeUnordered(mode, current, min, max, maximum) ==
  LET left == OrElse(TypedNumber(OrElse(min, current.min), maximum), 0)
  IN CASE mode = "any" -> RangeOf("any", Absent, Absent)
       [] mode = "gte" -> RangeOf("gte", left, Absent)
       [] mode = "lte" -> RangeOf("lte", Absent, OrElse(TypedNumber(OrElse(max, current.max), maximum), 0))
       [] mode = "between" -> RangeOf("between", left, OrElse(TypedNumber(OrElse(max, current.max), maximum), left))

\* buildRangeValue: a blank input keeps the number that was there.
BuildRange(mode, current, min, max, maximum) ==
  LET low == TypedNumber(OrElse(min, current.min), maximum)
      high == TypedNumber(OrElse(max, current.max), maximum)
      left == OrElse(low, 0)
      right == OrElse(high, left)
  IN CASE mode = "any" -> RangeOf("any", Absent, Absent)
       [] mode = "gte" -> RangeOf("gte", left, Absent)
       [] mode = "lte" -> RangeOf("lte", Absent, OrElse(high, 0))
       [] mode = "between" -> RangeOf("between", Min({left, right}), Max({left, right}))

\* RangeField: the mode is chosen, or a number of the mode is typed.
ChangedRanges(current, maximum) ==
  {BuildRange(mode, current, Absent, Absent, maximum) : mode \in Modes}
  \cup (IF current.mode \in {"gte", "between"}
        THEN {BuildRange(current.mode, current, TypedNumber(n, Unbounded), Absent, maximum) : n \in Numbers} ELSE {})
  \cup (IF current.mode \in {"lte", "between"}
        THEN {BuildRange(current.mode, current, Absent, TypedNumber(n, Unbounded), maximum) : n \in Numbers} ELSE {})

EditDays == \E range \in ChangedRanges(spec.days_filter, MaxDays) : spec' = [spec EXCEPT !.days_filter = range]

\* updateMetric
EditViews == \E range \in ChangedRanges(spec.views_filter, Unbounded) : spec' = [spec EXCEPT !.views_filter = range]

\* The slice cannot be chosen while it would have no effect.
EditSlice ==
  /\ spec.days_filter.mode \notin {"any", "gte"}
  /\ spec.raw_query # "time"
  /\ \E minutes \in Slices : spec' = [spec EXCEPT !.slice = minutes]

UpdateMaxResults(n) == spec' = [spec EXCEPT !.max_results = Max({1, OrElse(TypedNumber(n, 100), 1)})]

EditRawQuery == \E raw \in RawQueries : spec' = [spec EXCEPT !.raw_query = raw]

\* A specification of a pack, a job or a file is loaded into the editor.
FileRanges == {RangeOf(mode, min, max) : mode \in Modes \cup {"unknown"}, min, max \in Numbers}

LoadSpec ==
  \/ \E range \in FileRanges :
       \/ spec' = NormalizeSpec([DefaultSpec EXCEPT !.days_filter = range, !.max_results = range.min])
       \/ spec' = NormalizeSpec([DefaultSpec EXCEPT !.views_filter = range, !.slice = range.max])
  \/ \E n \in Numbers :
       spec' = NormalizeSource([DefaultSpec EXCEPT !.days_filter = None, !.views_filter = None], n, n)

\* The draft is saved, and read again from what was saved.
SaveAndReload == spec' = NormalizeSpec(spec)

SpecInit == spec = NormalizeSpec(DefaultSpec)

SpecNext ==
  \/ EditDays \/ EditViews \/ EditSlice \/ EditRawQuery
  \/ \E n \in Numbers : UpdateMaxResults(n)
  \/ LoadSpec \/ SaveAndReload

-----------------------------------------------------------------------------
\* Whatever was loaded and edited, normalising the draft again changes nothing a search goes by:
\* what is compared with the task pack, saved, and read back is what the editor shows
\* (normalizeSearchSpecForUi, buildRangeValue, which each have their own rules for the bounds).
SpecIsNormal == NormalizeSpec(spec) = spec
==============================================================================
