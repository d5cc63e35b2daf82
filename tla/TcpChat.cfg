\* One client of each program, and either server.
CONSTANTS
  MacClients = {m1}
  WinClients = {w1}
  ServerPrograms = {"mac", "win"}
  LineMax = 2
  ReplyMax = 2
  StreamMax = 3
SPECIFICATION Spec
CHECK_DEADLOCK FALSE
INVARIANTS TypeOK NoCrossWait
PROPERTIES StopsOnReset ServedClientIsAnswered HangUpIsNoticed QueueMoves
