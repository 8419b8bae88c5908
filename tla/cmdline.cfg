SPECIFICATION Spec
CONSTANTS
  Words <- MCWords
  Lex <- MCLex
  Atoll <- MCAtoll
  InvalidNames = {"", "-la", "l=a"}
  Declarations <- MCDeclarations
  MaxArgs = 4
  None = None
\* The program has started, or has ended.
CHECK_DEADLOCK FALSE
INVARIANT TypeOK
INVARIANT ParsedRight
