------------------------------- MODULE Pages -------------------------------
(***************************************************************************)
(* Address arithmetic: the fields of a virtual address (splitter.cpp), the *)
(* bounds of the address space (pmt.h, pmt.cpp) and the alignment test     *)
(* (utility.cpp).  The shifts and masks of the code are written with       *)
(* powers of two, on unsigned words of WordBits bits.                      *)
(***************************************************************************)
EXTENDS Integers

CONSTANTS
  Page1BitNum,   \* bits of the index in the first-level table (7)
  Page2BitNum,   \* bits of the index in a second-level table (7)
  OffsetBitNum,  \* bits of the offset in a page (10)
  WordBits       \* bits of an unsigned long (32)

ASSUME BitsAssumption ==
  /\ {Page1BitNum, Page2BitNum, OffsetBitNum, WordBits} \subseteq Nat \ {0}
  /\ Page1BitNum + Page2BitNum + OffsetBitNum < WordBits

PageSize == 2 ^ OffsetBitNum
PagesNum == 2 ^ (Page1BitNum + Page2BitNum)
MaxVirtualAddress == PagesNum * PageSize - 1
Word(n) == n % 2 ^ WordBits

PageIds == 0 .. PagesNum - 1
TableIds == 0 .. 2 ^ Page1BitNum - 1

page1FromPage(page) == (page \div 2 ^ Page2BitNum) % 2 ^ Page1BitNum
page2FromPage(page) == page % 2 ^ Page2BitNum
pageFromPage1AndPage2(page1, page2) == page1 * 2 ^ Page2BitNum + page2
pageFromVA(address) == address \div PageSize
virtualAddressFromPage(page) == Word(page * PageSize)

checkVirtualAddressBounds(address) == address <= MaxVirtualAddress
isVirtualAddressAligned(address) == address % PageSize = 0

\* The test of allocateEmptySegment: the sum is taken in an unsigned word.
segmentFits(address, size) ==
  /\ isVirtualAddressAligned(address)
  /\ Word(address + size * PageSize - 1) <= MaxVirtualAddress

\* The pages of one second-level table
pagesOfTable(page1) == {page \in PageIds : page1FromPage(page) = page1}

\* What follows from BitsAssumption about powers of two, stated because the
\* provers do not compute with ^.
ASSUME PowersAssumption ==
  /\ {2 ^ Page1BitNum, 2 ^ Page2BitNum, PageSize, 2 ^ WordBits} \subseteq Nat \ {0}
  /\ PagesNum = 2 ^ Page1BitNum * 2 ^ Page2BitNum
  /\ PagesNum * PageSize <= 2 ^ WordBits
=============================================================================
