SPECIFICATION Spec
CONSTANTS
  d1 = d1
  d2 = d2
  c1 = c1
  c2 = c2
  s1 = s1
  lv1 = lv1
  lv2 = lv2
  eth = eth
  btc = btc
  usd = usd
  NoRow = NoRow
  Nobody = Nobody
  NoManifest = NoManifest
  Pids = {d1, d2}
  Clients = {c1, c2}
  Strategies = {s1}
  Levels = {lv1, lv2}
  Tokens <- MCTokens
  Markets <- MCMarkets
  Slippages = {0, 1}
  Configs <- MCConfigs
SYMMETRY Symmetry
INVARIANTS
  TypeOK
  LevelsFitTheirStrategy
  ServingIsFound
  TradesOnlyChecked
