SPECIFICATION Spec
CONSTANTS
  sub = sub
  super = super
  m1 = m1
  m2 = m2
  m3 = m3
  Classes = {sub, super}
  IsA <- MCIsA
  Mappings = {m1, m2, m3}
  ClassOf <- MCClassOf
  Handlers = {h1, h2}
  None = None
INVARIANTS
  NoLostMapping
  AnswersAgree
PROPERTIES
  HandlerAnswers
CHECK_DEADLOCK FALSE
