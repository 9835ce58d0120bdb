CONSTANTS
  t1 = t1
  t2 = t2
  home = home
  away = away
  f1 = f1
  f2 = f2
  eve = eve
  right = right
  wrong = wrong
  Proc = {t1, t2}
  Path = {f1, f2}
  Dir = {home, away}
  Password = {right, wrong}
  Stranger = {eve}
  Identity <- Ids
  PinKey <- Keys
  Setup <- Setups
  MaxStarts = 2
SPECIFICATION FairCliSpec
INVARIANTS CliTypeOK PinObeyed PeersNotRefused
PROPERTIES ProfileStays IdentityKept QuitEnds LossEnds
CHECK_DEADLOCK FALSE
