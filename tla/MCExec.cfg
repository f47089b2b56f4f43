\* Two pipes, two bytes in all, two starts of the command.
SPECIFICATION FairExecSpec
CONSTANTS
  out = out
  err = err
  outBuffer = outBuffer
  errBuffer = errBuffer
  main = main
  Stream = {out, err}
  Client = {main}
  Buffer = {outBuffer, errBuffer}
  BufferOf <- TwoBuffers
  BufferLength = 1
  Outstanding = 1
  MaxOps = 3
  MaxBytes = 2
  MaxStarts = 2
INVARIANT ListsAreSound
PROPERTIES ResultIsTheChilds OutputArrives WaitReturns ImplementsStreams
CHECK_DEADLOCK FALSE
