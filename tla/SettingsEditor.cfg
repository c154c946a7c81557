SPECIFICATION EditorSpec
CONSTANTS
  MaxVisible = 2
  TypedNames <- MCTypedNames
  FreshNames <- MCFreshNames
  DefaultName <- MCDefaultName
  TypedTexts <- MCTexts
  AddedRule <- MCAddedRule
  Globs <- MCGlobs
  AddedGlob = "example"
  Words = {"e"}
  Ports = {"0", "9090"}
  PageRows = 2
  DefaultDoc <- BaseDoc
  Matches <- MCMatches
  BadGlobs = {"bad"}
  StartDocs <- MCStartDocs
  Mutations <- MCMutations
  Urls <- MCUrls
  MaxEdits = 2
PROPERTIES PolicyFollowsDocument EditsKeepItValid CursorFollowsTheRule UnseenIsUnsaid
CHECK_DEADLOCK FALSE
