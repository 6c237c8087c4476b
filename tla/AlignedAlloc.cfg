\* Three places that chunks of 192 bytes fit in, each with every offset from a
\* multiple of 64.  48 bytes and an alignment of 16 fill a chunk of 64; 112 bytes
\* and any alignment are above the limit of the set.
SPECIFICATION Spec
CONSTANTS
  Address = {64, 72, 80, 88, 96, 104, 112, 120,
             512, 520, 528, 536, 544, 552, 560, 568,
             1024, 1032, 1040, 1048, 1056, 1064, 1072, 1080}
  Size = {1, 48, 112}
  Alignment = {8, 16, 64}
  SetLimit = 128
  MaxHeld = 2
INVARIANTS
  RedirectInside
  CopyInside
  ContentsKept
  NoChunkLost
