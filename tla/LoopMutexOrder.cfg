SPECIFICATION MutexSpec
CONSTANTS
  LockFibers = {f1, f2, f3, f4}
PROPERTIES ServedInTurn
