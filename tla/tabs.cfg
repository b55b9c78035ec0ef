SPECIFICATION Spec
CONSTANTS
  main = main
  popup1 = popup1
  popup2 = popup2
  popup3 = popup3
  Tabs <- MCTabs
  MainTab = main
  MaxSteps = 3
SYMMETRY Symmetry
INVARIANTS
  TypeOK
  CurrentIsOpenAndInside
  NoTabLeftBehind
PROPERTY
  PromptTabsCredited
