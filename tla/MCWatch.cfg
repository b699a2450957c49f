SPECIFICATION FairSpec
CONSTANTS
  Texts = {a, b}
  Grain = 2
  Racy = 2
  ScanEvery = 2
  LastSave = 3
  MaxEdits = 3
  Removes = FALSE
  None = None
  Failed = Failed
PROPERTY SaveStartsRun
