SPECIFICATION Spec
CONSTANTS
  IfAddr <- MCIfAddr
  MaxIfs = 2
  Questions <- MCQuestions
  MaxQuestions = 2
  MaxDatagrams = 1
  MaxExpired = 1
INVARIANTS
  TypeOK
  CountsMatch
  NoneTwice
  AddressesReach
  GoodbyeClears
PROPERTIES
  Resolvable
  AnswersAsked
  QuestionsRead
