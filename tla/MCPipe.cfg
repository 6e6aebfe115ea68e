\* Two processes with two descriptors each, three entries of ftable, one page for a pipe of two bytes.  The
\* system may stop: a process may read an empty pipe that it alone could write.
CONSTANTS
  Procs = {p1, p2}
  First = p1
  Fds = {0, 1}
  Files = {0, 1, 2}
  Pages = {c1}
  PIPESIZE = 2
  Wrap = 6
  Values = 3
  Counts = {1, 3}
  None = None
CHECK_DEADLOCK FALSE
SPECIFICATION Spec
INVARIANTS
  EndsMatchDescriptors
  SleepersHaveReason
PROPERTIES
  ImplementsChannel
  OtherEndClosedEndsCall
