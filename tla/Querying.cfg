\* Creation, any method of any client, and bytes of every message type.
CONSTANTS
  None = None
  Schema <- MCSchema
  Calls = {c1}
  AnswersOf <- SampleAnswers
  ReadingsOf <- SampleReadings
SPECIFICATION Spec
INVARIANTS
  TypeOK
  ReadsWhatIsMeant
  ReadersStayInside
  CutsAreNoticed
  MethodsMeetTheirProcedures
  NothingIsCalledEarly
PROPERTY CreationSettles
CHECK_DEADLOCK FALSE
