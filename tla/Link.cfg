SPECIFICATION LinkSpec
CONSTANTS
  MaxStarts = 2
  MaxPosts = 2
  MaxEvents = 2
INVARIANTS PanelAgrees RefusalTold RingsHonoured
PROPERTIES LayoutCurrent
\* nothing happens once every start has settled and every child is gone
CHECK_DEADLOCK FALSE
