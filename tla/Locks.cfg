SPECIFICATION FairSpec
CONSTANTS
  Workers = {w1}
  Handlers = {h1}
  ticker = ticker
INVARIANT TypeOK
INVARIANT NoCircularWait
INVARIANT FieldsAreGuarded
PROPERTY StatusIsAnswered
PROPERTY CallsReturn
