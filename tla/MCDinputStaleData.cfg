SPECIFICATION Spec
CONSTANTS
  Size = 2
  Act <- MCAct
  Grp = {g1}
  EdgeChoices <- MCBoth
  Null = Null
  User = User
INVARIANT CallbackDataNotFreed
