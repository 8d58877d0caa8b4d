SPECIFICATION Spec
CONSTANTS
  k1 = k1  e1 = e1  src = src  tgt = tgt  t1 = t1  t2 = t2  i1 = i1  r1 = r1  r2 = r2
  Keys = {k1}
  Envs = {e1}
  Locales = {src, tgt}
  SourceLocale = src
  Texts = {t1, t2}
  Inputs = {i1}
  Bundles <- SealedBundles
  Requests = {r1, r2}
  MaxRemovals = 1
  MaxArrivals = 4
  TranslatorFails = TRUE
  Absent = Absent
INVARIANTS TypeOK RowsConsistent StaleReviewsFlagged
PROPERTIES ImplementsOwnership SavedTextLands
CHECK_DEADLOCK FALSE
SYMMETRY RequestSymmetry
