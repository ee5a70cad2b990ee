SPECIFICATION Spec
CONSTANTS
  s1 = s1  s2 = s2  g1 = g1  g2 = g2  v1 = v1  v2 = v2  f1 = f1  f2 = f2
  BuilderSteps = {s1, s2}
  MaxStock = 2
  MaxClicks = 2
  CartGoods = {g1, g2}
  LineStock = 2
  LineMin = 2
  LineMax = 4
  LineStep = 2
  MaxCartCalls = 2
  MaxCartActs = 3
  BulkVariants = {v1, v2}
  BulkStock = 1
  BulkTop = 2
  MaxPosts = 2
  MaxBulkActs = 3
  ProductVariants = {1, 2}
  RuleMax = 1
  MaxSelections = 2
  MaxAdds = 1
  MaxCartChanges = 1
  FilterSets = {f1, f2}
  SearchTerms <- MCSearchTerms
  MaxFilterActs = 4
  MaxTyping = 4
  LastExport = 2
  MaxPolls = 2
  SetCount = 1
  ProductCount = 2
  MaxLists = 2
  MaxEditors = 2
INVARIANTS
  WholeOrNothing PageShowsCart LastQuantityCounts OffersWhatIsSelected SearchAgrees
  ScreenKeepsFaith StopsForCause
CHECK_DEADLOCK FALSE
