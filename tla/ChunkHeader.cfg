\* Two method bits and four bits each for value and offset: ten bits that every
\* combination is stored in.
SPECIFICATION Spec
CONSTANTS
  Methods = 4
  ValueHalf = 8
  Magic = 89
INVARIANTS
  HeaderFits
  HeaderReadsBack
