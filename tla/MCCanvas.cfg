SPECIFICATION CanvasSpec
CONSTANTS
  Notes <- MCNotes
  Others = {"system"}
  Strangers = {"stranger"}
  Shapes = {"s1", "s2"}
  Drawn = Drawn
  Places = {Drawn}
  Scenes = {design, plan}
  Types = {"text", "box"}
  Texts = {"milk", "MILK", "blank"}
  Normal <- MCNormal
  Files <- MCFiles
  NoSubject = NoSubject
  Broken = Broken
  NoPlace = NoPlace
  MaxBindings = 2
  Spare = 2
SYMMETRY MCSymmetry
INVARIANTS
  RetryCompletes
  StrippedResolves
  ReimportIsNoop
  BindingsUnique
CHECK_DEADLOCK FALSE
