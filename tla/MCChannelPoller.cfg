\* Two fds for three channels: fds are used again while a third channel lives.
SPECIFICATION Spec
CONSTANTS
  Channels = {ch1, ch2, ch3}
  Fds = {fd1, fd2}
  None = None
SYMMETRY Symmetry
INVARIANTS
  TypeOK
  CtlNeverFails
  Consistent
  Quiet
  NoDanglingChannel
