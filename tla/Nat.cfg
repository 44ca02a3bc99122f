\* Two clients and two ports; two entries for three flows, so that flows are
\* evicted; time passes an entry's 120 seconds and comes to a port's reuse.
SPECIFICATION Spec
CONSTANTS
  a = a  b = b  x = x  y = y  None = None  Portal = portal
  Client = {a, b}  Port = {257, 258}  Dest = {x, y}  Target <- AloneTargets
  MaxEntries = 2  CtTimeout = 1  ReuseAfter = 1  MaxAge = 2
INVARIANTS TypeOK AnswersComeFromAsked PromptAnswersTranslated
