\* A history of two points for two bars and three quotes of each source.
CONSTANTS
  Keys <- MCKeys
  MaxHistory = 2
  Ticks = {1, 3, 5}
  Minutes = {2, 4}
SPECIFICATION Spec
INVARIANTS TypeOK PanelShowsSelection SelectedIsRequested ChartHoldsAll
PROPERTIES DialsAgain
