------------------------- MODULE MCTranslationCells -------------------------
(* Small instances of TranslationCells for TLC.                             *)
EXTENDS TranslationCells, TLC

\* Sealed versions: what a person wrote is for one locale or for the other,
\* and in the target locale it was still to be reviewed.
Sealed(forSource, forTarget) ==
  [kl \in Keys \X Locales |-> IF kl[2] = SourceLocale THEN forSource ELSE forTarget]
Row(value, source, status) ==
  [value |-> value, source |-> source, aiLocked |-> source = "manual", status |-> status]
SealedBundles ==
  LET old == CHOOSE t \in Texts : TRUE
  IN  UNION {{Sealed(Row(SourceValue(old), "code", "source"), Row(InputValue(i), "manual", "needs-review")),
              Sealed(Row(InputValue(i), "manual", "manual"), Row(AiValue(old), "ai", "ai"))}
             : i \in Inputs}

\* Requests are interchangeable: every property below quantifies over them.
RequestSymmetry == Permutations(Requests)
=============================================================================
