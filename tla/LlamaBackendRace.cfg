SPECIFICATION Spec
CONSTANTS
  Threads = {t1, t2}
  Inits = {"init"}
INVARIANT
  ProofOfInitialization
