SPECIFICATION Spec
CONSTANTS
  k1 = k1  e1 = e1  en = en  sv = sv  de = de  t1 = t1  t2 = t2  i1 = i1  r1 = r1
  Keys = {k1}
  Envs = {e1}
  Locales = {en, sv, de}
  SourceLocale = en
  Texts = {t1, t2}
  Inputs = {i1}
  Bundles = {}
  Requests = {r1}
  MaxRemovals = 0
  MaxArrivals = 3
  TranslatorFails = TRUE
  Absent = Absent
INVARIANT ReviewPromise
CHECK_DEADLOCK FALSE
