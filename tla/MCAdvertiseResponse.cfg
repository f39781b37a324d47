SPECIFICATION Spec
CONSTANTS
  IfAddr <- MCLan
  MaxIfs = 2
  Questions <- MCQuestions
  MaxQuestions = 1
  MaxDatagrams = 1
  MaxExpired = 1
PROPERTIES
  ResponsesUnanswered
