SPECIFICATION FairSpec
CONSTANTS
  Clicks = {k1}
  Uploads = {u1}
  Lists = {l1}
  Downloads = {d1}
  preflight = preflight
  Inlines = {"empty"}
  Codes = {c1}
  Refusals = FALSE
PROPERTY SuccessMeansToken
