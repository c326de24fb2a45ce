SPECIFICATION Spec
CONSTANTS
  Emails = {ada}
  Workers = {w1, w2}
  NoWorker = NoWorker
  NoAccount = NoAccount
  Passwords = {pending, chosen}
  Placeholder = pending
  MaxFailed = 2
  MaxVersion = 3
  MaxAttempts = 3
SYMMETRY Symmetry
INVARIANTS
  TypeOK
  GuessesAreBounded
  TokensMatchPassword
