------------------------------ MODULE SplitPane ------------------------------
(***************************************************************************)
(* The two panes of the jobs and the results page and the border between   *)
(* them, which can be dragged while they are side by side                  *)
(* (hooks/useSplitPaneResize.ts).                                          *)
(***************************************************************************)
EXTENDS Integers, FiniteSetsExt

CONSTANTS
  WindowWidths,  \* bound: widths the window is given; the layout has this width, too
  Breakpoint, MinLeft, MinRight, ResizerWidth,
  PointerAt      \* bound: where the pointer goes

VARIABLES window, leftPane, bounds
paneVars == <<window, leftPane, bounds>>

AutoWidth == -1        \* no width of its own
NoBounds == -1    \* nothing is dragged

IsSplit(width) == width > Breakpoint

\* startResizing
StartResizing ==
  /\ IsSplit(window)
  /\ bounds' = window
  /\ UNCHANGED <<window, leftPane>>

\* updateDraggedWidth
DragPane(x) ==
  /\ bounds # NoBounds
  /\ leftPane' = Min({Max({x, MinLeft}), Max({MinLeft, bounds - MinRight - ResizerWidth})})
  /\ UNCHANGED <<window, bounds>>

StopResizingPane == bounds' = NoBounds /\ UNCHANGED <<window, leftPane>>

\* (mutant of ResizeWindow) a drag goes on
ResizeWindowOnly(width) ==
  /\ window' = width
  /\ leftPane' = IF IsSplit(width) THEN leftPane ELSE AutoWidth
  /\ UNCHANGED bounds

\* handleWindowResize, and the effect of a layout that is split no more
ResizeWindow(width) ==
  /\ window' = width
  /\ leftPane' = IF IsSplit(width) THEN leftPane ELSE AutoWidth
  /\ bounds' = IF IsSplit(width) THEN bounds ELSE NoBounds

PaneInit == window \in WindowWidths /\ leftPane = AutoWidth /\ bounds = NoBounds

PaneNext ==
  \/ StartResizing \/ StopResizingPane
  \/ \E x \in PointerAt : DragPane(x)
  \/ \E width \in WindowWidths : ResizeWindow(width)

-----------------------------------------------------------------------------
\* Panes that are stacked have no width of their own and take none, although the window becomes
\* narrow while the border is dragged and the pointer moves on (the effect on isSplitLayout).
StackedPanesAreFree == ~IsSplit(window) => leftPane = AutoWidth /\ bounds = NoBounds
==============================================================================
