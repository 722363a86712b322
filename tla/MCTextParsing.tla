--------------------------- MODULE MCTextParsing ---------------------------
(* All contents of up to MaxBytes bytes over a letter, a space, the leaders  *)
(* of two, three and four bytes whose second byte is constrained from below  *)
(* and from above, and two continuation bytes on either side of those        *)
(* constraints; longer ones with every leader in one piece.                  *)
EXTENDS TextParsing

CONSTANT MaxBytes

Letter == 66
Space == 32
Alphabet == {Letter, Space, 195, 224, 244, 133, 165}

Long ==
  {<<Letter, 240, 159, 146, 150, Letter>>, <<237, 159, 191, 237, 160, 128, 95>>,
   <<240, 144, 128, 240, 143, 128, 128>>, <<Letter, Letter, Letter, 226, 130, 172, Letter>>,
   <<194, 255, 192, 193, 245, Letter, 194>>}

MCContents == BoundedSeq(Alphabet, MaxBytes) \cup Long
MCRewrites ==
  {<<>>, <<Letter, Letter>>, <<Space, Letter, 195>>, <<165, Letter, Space>>,
   <<Letter, Letter, Space, Letter>>}
=============================================================================
