\* One pipe with two bytes and two reads at a time; two threads, two streams on one
\* handle, two operations.
SPECIFICATION IoSpec
CONSTANTS
  pipe1 = pipe1
  memory = memory
  main = main
  t1 = t1
  t2 = t2
  s1 = s1
  s2 = s2
  h1 = h1
  o1 = o1
  o2 = o2
  null = null
  Stream = {pipe1}
  Client = {main}
  Buffer = {memory}
  BufferOf <- OneBuffer
  BufferLength = 1
  Outstanding = 2
  MaxOps = 3
  MaxBytes = 2
  Thread = {t1, t2}
  Object = {s1, s2}
  Handle = {h1}
  Operation = {o1, o2}
  MaxWakes = 1
INVARIANTS CrashNeedsCause DanglingHasCause
CHECK_DEADLOCK FALSE
