-------------------------------- MODULE Util --------------------------------
(***************************************************************************)
(* src/src/util.c: the counted allocator (xmalloc, xcalloc, xrealloc,      *)
(* xfree, xmalloc_size, xstrdup, memory_used) and the string helpers built *)
(* on it (is_integer, parse_int, remove_occur, number_len,                 *)
(* update_integer_string, append_string).  Every block carries a size_t    *)
(* header holding its size, and the global counter `memory` is meant to    *)
(* hold the bytes of all live blocks, headers included.  A block holds     *)
(* either a NUL-terminated string, as the sequence of its characters, or   *)
(* uninitialised bytes (Garbage).                                          *)
(***************************************************************************)
EXTENDS Integers, Sequences, SequencesExt, FiniteSetsExt

CONSTANTS
  Ptrs,       \* addresses malloc and realloc may return (model values)
  Chars,      \* characters strings are made of, beside the digits
  Literals,   \* strings handed to the helpers from outside the heap
  Sizes,      \* byte counts passed to xmalloc, xcalloc and xrealloc
  Nums,       \* increments passed to update_integer_string
  IntBits,    \* width of the C int parse_int and update_integer_string use
  MaxLen,     \* bound: append_string builds no string longer than this
  MaxMemory,  \* bound: no call takes the counter `memory` past this
  Garbage     \* contents of memory nobody has written

HeaderSize == 8                         \* sizeof(size_t) on the build target
DigitChars == <<"0", "1", "2", "3", "4", "5", "6", "7", "8", "9">>
IsDigit(ch) == ch \in Range(DigitChars)
DigitValue(ch) == CHOOSE d \in 0..9 : DigitChars[d + 1] = ch

\* two's-complement wrap-around of a C int, what the build does on overflow
IntMin == -(2 ^ (IntBits - 1))
IntMax == 2 ^ (IntBits - 1) - 1
Wrap(n) == ((n - IntMin) % (2 ^ IntBits)) + IntMin

ASSUME Literals \subseteq Seq(Chars \cup Range(DigitChars))
ASSUME Sizes \subseteq Nat \ {0} /\ Nums \subseteq Int /\ IntBits \in 4..16

-----------------------------------------------------------------------------
(* The string helpers.                                                     *)

\* is_integer (lines 91-96): every character is a digit (the empty string too)
IsInteger(s) == \A i \in DOMAIN s : IsDigit(s[i])

\* parse_int (lines 100-108): n = n * 10 + digit over the leading digits,
\* in int arithmetic
RECURSIVE ParseIntFrom(_, _)
ParseIntFrom(s, n) ==
  IF s # <<>> /\ IsDigit(Head(s))
  THEN ParseIntFrom(Tail(s), Wrap(n * 10 + DigitValue(Head(s))))
  ELSE n
ParseInt(s) == ParseIntFrom(s, 0)

\* remove_occur (lines 110-122), in place: *pp = *p++ copies the character
\* p reads over the one pp writes, and pp moves on unless it wrote c; the
\* NUL then ends the string at pp.
\* mutant: pp is tested against the character the write overwrote
RECURSIVE RemoveOccurLoopStale(_, _, _, _)
RemoveOccurLoopStale(buf, p, pp, c) ==
  IF p > Len(buf) THEN SubSeq(buf, 1, pp - 1)
  ELSE LET b == [buf EXCEPT ![pp] = buf[p]]
       IN  RemoveOccurLoopStale(b, p + 1, IF buf[pp] # c THEN pp + 1 ELSE pp, c)
RECURSIVE RemoveOccurLoop(_, _, _, _)
RemoveOccurLoop(buf, p, pp, c) ==
  IF p > Len(buf) THEN SubSeq(buf, 1, pp - 1)
  ELSE LET b == [buf EXCEPT ![pp] = buf[p]]
       IN  RemoveOccurLoop(b, p + 1, IF b[pp] # c THEN pp + 1 ELSE pp, c)
RemoveOccur(s, c) == RemoveOccurLoop(s, 1, 1, c)

\* number_len (lines 159-166): starts at 1 and adds one per decimal digit
RECURSIVE NumberLenFrom(_, _)
NumberLenFrom(x, len) == IF x = 0 THEN len ELSE NumberLenFrom(x \div 10, len + 1)
\* mutant: the count starts at 0
NumberLenZero(x) == NumberLenFrom(x, 0)
NumberLen(x) == NumberLenFrom(x, 1)

\* number_len takes a size_t: a negative int converts to 2^64 + n, which
\* has 20 decimal digits for every n of a 32-bit or narrower int
NumberLenOfInt(n) == IF n >= 0 THEN NumberLen(n) ELSE 1 + 20

\* sprintf(tmp, "%d", n)
RECURSIVE DecimalDigits(_)
DecimalDigits(k) ==
  IF k < 10 THEN <<DigitChars[k + 1]>>
  ELSE Append(DecimalDigits(k \div 10), DigitChars[(k % 10) + 1])
Decimal(n) == IF n < 0 THEN <<"-">> \o DecimalDigits(-n) ELSE DecimalDigits(n)

-----------------------------------------------------------------------------
(* The counted allocator.  heap[p] is the block at address p: whether it   *)
(* is live, the size its header records and its contents.                  *)

VARIABLES heap, memory
vars == <<heap, memory>>

Alphabet == Chars \cup Range(DigitChars) \cup {"-"}
Str == Seq(Alphabet)
Block == [live : BOOLEAN, size : Nat, str : Str \cup {Garbage}]

\* an address free() has returned to the C library
Freed == [live |-> FALSE, size |-> 0, str |-> Garbage]

Live == {p \in Ptrs : heap[p].live}
FreePtrs == Ptrs \ Live
\* the strings a caller can pass: literals and the strings in live blocks
Strings == Literals \cup {heap[p].str : p \in {q \in Live : heap[q].str # Garbage}}

\* xmalloc_size (lines 282-295): the size the block header records
XMallocSize(p) == heap[p].size
\* memory_used (lines 315-317)
MemoryUsed == memory

\* xmalloc (lines 190-204), the counting and the header; malloc's NULL
\* return changes nothing and is left out
Malloc(p, size, contents) ==
  /\ memory + size + HeaderSize <= MaxMemory
  /\ heap' = [heap EXCEPT ![p] = [live |-> TRUE, size |-> size, str |-> contents]]
  /\ memory' = memory + size + HeaderSize

\* realloc keeps the bytes that fit; a string whose NUL is cut off is
\* no longer a string
Resized(contents, size) ==
  IF contents # Garbage /\ Len(contents) + 1 <= size THEN contents ELSE Garbage

\* xrealloc (lines 227-252) of live block p, which realloc moves to q
\* (q = p when it grows or shrinks in place), with its contents afterwards
Realloc(p, q, size, contents) ==
  IF size = heap[p].size
  THEN /\ heap' = [heap EXCEPT ![p].str = contents]
       /\ UNCHANGED memory
  ELSE /\ memory + (-heap[p].size) + size + HeaderSize <= MaxMemory
       /\ heap' = [heap EXCEPT ![p] = Freed,
                               ![q] = [live |-> TRUE, size |-> size, str |-> contents]]
       /\ memory' = memory + (-heap[p].size) + size + HeaderSize

XMalloc ==
  \E p \in FreePtrs, size \in Sizes : Malloc(p, size, Garbage)

\* xcalloc (lines 210-221): len * size zeroed bytes, an empty string
XCalloc ==
  \E p \in FreePtrs, len \in Sizes, size \in Sizes :
    /\ len * size \in Sizes
    /\ Malloc(p, len * size, <<>>)

XRealloc ==
  \E p \in Live, size \in Sizes :
    \E q \in FreePtrs \cup {p} : Realloc(p, q, size, Resized(heap[p].str, size))

\* mutant: a block freed a second time
XFreeAny ==
  \E p \in Ptrs :
    /\ heap' = [heap EXCEPT ![p] = Freed]
    /\ memory' = memory - (XMallocSize(p) + HeaderSize)
\* xfree (lines 260-275) of a live block
XFree ==
  \E p \in Live :
    /\ heap' = [heap EXCEPT ![p] = Freed]
    /\ memory' = memory - (XMallocSize(p) + HeaderSize)

\* xstrdup (lines 302-313)
XStrdup ==
  \E p \in FreePtrs, s \in Strings : Malloc(p, Len(s) + 1, s)

\* mutant: the block leaves no room for the NUL
AppendStringNoNul(src, dst, chunklen) ==
  \E p \in FreePtrs :
    Malloc(p, Len(src) + chunklen, src \o SubSeq(dst, 1, chunklen))
\* append_string (lines 146-153): src followed by chunklen bytes of dst, in
\* a new block of srclen + chunklen + 1 bytes
AppendStringTo(src, dst, chunklen) ==
  \E p \in FreePtrs :
    Malloc(p, Len(src) + chunklen + 1, src \o SubSeq(dst, 1, chunklen))
AppendString ==
  \E src, dst \in Strings, chunklen \in 0..MaxLen :
    /\ chunklen <= Len(dst)
    /\ Len(src) + chunklen <= MaxLen
    /\ AppendStringTo(src, dst, chunklen)

\* update_integer_string (lines 124-139) of the string in live block p:
\* parse, add num in int arithmetic, print with %d into tmp, xrealloc the
\* block to strlen(tmp) + 1 and copy tmp in
UpdateIntegerStringOf(p, num) ==
  /\ heap[p].str # Garbage
  /\ LET tmp == Decimal(Wrap(ParseInt(heap[p].str) + num))
     IN  \E q \in FreePtrs \cup {p} : Realloc(p, q, Len(tmp) + 1, tmp)
UpdateIntegerString ==
  \E p \in Live, num \in Nums : UpdateIntegerStringOf(p, num)

\* remove_occur (lines 110-122) of the string in live block p, in place
RemoveOccurOf(p, c) ==
  /\ heap[p].str # Garbage
  /\ heap' = [heap EXCEPT ![p].str = RemoveOccur(@, c)]
  /\ UNCHANGED memory
RemoveOccurIn ==
  \E p \in Live, c \in Chars : RemoveOccurOf(p, c)

Init ==
  /\ heap = [p \in Ptrs |-> Freed]
  /\ memory = 0

Next ==
  \/ XMalloc
  \/ XCalloc
  \/ XRealloc
  \/ XFree
  \/ XStrdup
  \/ AppendString
  \/ UpdateIntegerString
  \/ RemoveOccurIn

Spec == Init /\ [][Next]_vars

-----------------------------------------------------------------------------
(* Properties.                                                             *)

TypeOK ==
  /\ heap \in [Ptrs -> Block]
  /\ memory \in Nat

\* Every live block that holds a string holds its NUL too: xstrdup,
\* append_string and update_integer_string size their blocks for the
\* terminator, and an xrealloc that cuts it off leaves no string behind.
StringFits ==
  \A p \in Live : heap[p].str # Garbage => Len(heap[p].str) + 1 <= XMallocSize(p)

\* The comment on xmalloc (lines 183-189): the header lets the allocator
\* "track the memory usage at every allocation", so memory_used() is the
\* bytes of the live blocks, headers included, after any sequence of
\* xmalloc, xcalloc, xrealloc, xfree and the helpers that call them.
MemoryAccounted ==
  MemoryUsed = MapThenSumSet(LAMBDA p : XMallocSize(p) + HeaderSize, Live)

\* update_integer_string sizes tmp as number_len(n) + 1 for what
\* sprintf("%d", n) writes, the NUL included, on every call (a negative
\* n reaches number_len as a huge size_t).
TmpBufferFits ==
  [][\A p \in Live, num \in Nums :
       UpdateIntegerStringOf(p, num)
         => LET n == Wrap(ParseInt(heap[p].str) + num)
            IN  Len(Decimal(n)) + 1 <= NumberLenOfInt(n) + 1]_vars

\* remove_occur's two-pointer compaction leaves exactly the characters
\* other than c of the string it rewrites, in their order.
RemoveOccurCorrect ==
  [][\A p \in Live, c \in Chars :
       RemoveOccurOf(p, c) => heap'[p].str = SelectSeq(heap[p].str, LAMBDA x : x # c)]_vars

\* update_integer_string(str, num) adds num, in int arithmetic, to the
\* counter a string of digits holds: after the call, parse_int reads the
\* block it returns as the value str spells plus num, wrapped to IntBits
\* as n += num (line 127) wraps it.
DecimalValue(s) == FoldLeft(LAMBDA n, ch : n * 10 + DigitValue(ch), 0, s)
UpdateAddsNum ==
  [][\A p \in Live, num \in Nums :
       UpdateIntegerStringOf(p, num) /\ IsInteger(heap[p].str)
         => \E q \in Ptrs : heap'[q].live /\ heap'[q] # heap[q]
                            /\ ParseInt(heap'[q].str) = Wrap(DecimalValue(heap[p].str) + num)]_vars


====
