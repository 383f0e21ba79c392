SPECIFICATION Spec
CONSTANTS
  Template <- MCTemplate
  Wallet <- MCWallet
  Username <- MCUsername
  Mask <- MCMask
  Nonce = {10, 11}
  Spelling = {lower, upper}
  Firmware = {"fixed", "bip310", "whole", "xor", "silent", "sparing"}
  NoJob = NoJob
  MaxFound = 2
SYMMETRY Letters
INVARIANTS TypeOK MinerReadsCoinbase WorkRebuilt DuplicateIsSameWork NodeTakesBlock
