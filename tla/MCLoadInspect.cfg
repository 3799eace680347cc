CONSTANTS
  Absent = Absent
  Text = Text
  Alignment = 8
  Inputs <- MCInputs
  ElemBytes = 2
  FloatBytes = 4
  IdBytes = 4
  ElemDtype = "BF16"
  MaxHeader = 4
  MaxSplits = 3
  Slack = 0
  Unwritten = Unwritten
SPECIFICATION Spec
INVARIANTS InspectionSuffices
