SPECIFICATION Spec
CONSTANTS
  None = None
  Listeners = {l1, l2}
  Functions = {"print"}
  Methods = {"receive"}
  Events = {"EventA", "EventB"}
  ReceiveOf <- ReceiveStub
  Receives <- ReceivesEventA
SYMMETRY Names
INVARIANTS
  TypeOK
  Subscribed
  CalledOnce
  ExpiredSwept
