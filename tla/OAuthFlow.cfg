SPECIFICATION FairSpec
CONSTANTS
  Clicks = {k1}
  Uploads = {u1}
  Lists = {l1}
  Downloads = {d1}
  preflight = preflight
  Inlines = {"empty", "malformed", "lacking", "good"}
  Codes = {c1, c2}
  Refusals = TRUE
INVARIANT TypeOK
INVARIANT TornOnlyWhileSaving
PROPERTY SavedIsFound
PROPERTY BoundedWait
