SPECIFICATION Spec
CONSTANTS
  None = None
  Users = {u1, u2}
  Wallets = {plug, dfinity, bitfinity}
  Extensions = {plug}
  Missing = {bitfinity}
  Canisters = {c1}
  Tasks = {t1, t2}
SYMMETRY Symmetry
INVARIANT
  SignerFollowsWallet
