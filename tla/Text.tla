---------------------------------- MODULE Text ---------------------------------
(***************************************************************************)
(* Strings: the helpers of the assertion engine (src/src/core/assert.c)    *)
(* and SimpleString (src/src/shim/simplestring.cpp).                       *)
(*                                                                         *)
(* A C string is the sequence of its characters before the NUL.            *)
(***************************************************************************)
EXTENDS Integers, SequencesExt, FiniteSetsExt

NUL == "NUL"
Newline == "\n"
Tab == "\t"

(* The characters that the model tells apart: letters of which two differ  *)
(* in case only, control characters, and what their escapes are made of.   *)
Lower == [c \in {"A", "N"} |-> IF c = "A" THEN "a" ELSE "n"]
ToLower(c) == IF c \in DOMAIN Lower THEN Lower[c] ELSE c
Lowered(s) == [i \in DOMAIN s |-> ToLower(s[i])]

(* The character at an index from 0, NUL at the end.                       *)
At(s, i) == IF i < Len(s) THEN s[i + 1] ELSE NUL

(* Do the characters of t stand at index i of s?                           *)
StandsAt(s, t, i) == i + Len(t) <= Len(s) /\ SubSeq(s, i + 1, i + Len(t)) = t

(* Where strstr finds t in s.                                              *)
Places(s, t) == {i \in 0 .. Len(s) : StandsAt(s, t, i)}

-------------------------------------------------------------------------------
(* assert.c *)

(* strcasecmp_c: equal as far as the first place where they differ or end. *)
SameIgnoringCase(s, t) ==
  LET stop == Min({i \in 0 .. Len(s) : At(s, i) = NUL \/ ToLower(At(s, i)) # ToLower(At(t, i))})
  IN  ToLower(At(s, stop)) = ToLower(At(t, stop))

(* strcasestr_c: an empty needle is found, and otherwise one that starts   *)
(* before the end.                                                         *)
FoundIgnoringCase(haystack, needle) ==
  \/ needle = <<>>
  \/ \E i \in 0 .. Len(haystack) - 1 :
       \A k \in 0 .. Len(needle) - 1 : ToLower(At(haystack, i + k)) = ToLower(At(needle, k))

(* cu_str_printable: a control character as the two of its escape.         *)
Printable(s) ==
  FlattenSeq([i \in DOMAIN s |->
    CASE s[i] = Newline -> <<"\\", "n">> [] s[i] = Tab -> <<"\\", "t">> [] OTHER -> <<s[i]>>])

(* How far the scan for the first difference gets: it stops at the end.    *)
FirstDifference(s, t) == Min({i \in 0 .. Len(s) : At(s, i) # At(t, i) \/ At(s, i) = NUL})

Blank == " "
Blanks(n) == [i \in 1 .. n |-> Blank]

CONSTANTS WINDOW  \* 20: the characters shown around a difference

ASSUME WindowAssumption == WINDOW \in Nat

Half == WINDOW \div 2

(* sb_difference_at_pos: the part of the actual text around offset, and    *)
(* the place of the caret below.                                           *)
DifferenceAtPos(actual, offset) ==
  LET padded == Blanks(Half) \o actual \o Blanks(Half)
  IN  [shown |-> SubSeq(padded, offset + 1, Min({offset + WINDOW, Len(padded)})), caret |-> Half + 1]

(* cu_str_from_binary, a byte as its two digits: two for each but the      *)
(* last blank.                                                             *)
FromBinary(bytes) ==
  LET all == FlattenSeq([i \in DOMAIN bytes |-> bytes[i] \o <<Blank>>])
  IN  IF all = <<>> THEN <<>> ELSE Front(all)

(* cu_str_from_masked_bits, of a value as the set of the bits that are 1.  *)
FromMaskedBits(value, mask, bits) ==
  [k \in 1 .. bits |-> LET b == bits - k IN IF b \notin mask THEN "x" ELSE IF b \in value THEN "1" ELSE "0"]

-------------------------------------------------------------------------------
(* SimpleString: len_ characters and a NUL behind them.  The functions of  *)
(* string.h see those before the first NUL.                                *)

CString(s) == SubSeq(s, 1, Min({i \in 0 .. Len(s) : At(s, i) = NUL}))

Repeated(value, repeatCount) == FlattenSeq([i \in 1 .. repeatCount |-> value])

TextContains(s, other) == Places(CString(s), CString(other)) # {}
StartsWith(s, other) == CString(SubSeq(s, 1, Min({Len(s), Len(other)}))) = CString(other)
EndsWith(s, other) ==
  /\ Len(s) >= Len(other)
  /\ CString(SubSeq(s, Len(s) - Len(other) + 1, Len(s))) = CString(other)

SubString(s, beginPos, amount) ==
  IF beginPos > Len(s) THEN <<>> ELSE SubSeq(s, beginPos + 1, Min({beginPos + amount, Len(s)}))

Npos == -1

FindFrom(s, start, ch) ==
  LET found == {i \in start .. Len(s) - 1 : At(s, i) = ch}
  IN  IF found = {} THEN Npos ELSE Min(found)

SubStringFromTill(s, startChar, lastExcludedChar) ==
  LET begin == FindFrom(s, 0, startChar)
      end == FindFrom(s, begin, lastExcludedChar)
  IN  CASE begin = Npos -> <<>>
        [] begin # Npos /\ end = Npos -> SubString(s, begin, Len(s))
        [] OTHER -> SubString(s, begin, end - begin)

(* count: occurrences, overlapping ones too.                               *)
Occurrences(s, sub) == {i \in Places(CString(s), CString(sub)) : i < Len(CString(s))}

(* split: each token ends with the first character of a delimiter, and the *)
(* next one is looked for behind that; what follows the last one is a      *)
(* token unless the string ends with it.                                   *)
Split(s, delimiter) ==
  LET places == Occurrences(s, delimiter)
      num == Cardinality(places)
      ends[i \in 0 .. num] == IF i = 0 THEN -1 ELSE Min({p \in places : p > ends[i - 1]})
  IN  [i \in 1 .. num |-> SubSeq(CString(s), ends[i - 1] + 2, ends[i] + 1)]
        \o IF EndsWith(s, delimiter) THEN <<>>
           ELSE <<SubSeq(CString(s), ends[num] + 2, Len(CString(s)))>>

ReplaceChar(s, to, with) == [i \in DOMAIN s |-> IF s[i] = to THEN with ELSE s[i]]

(* replace of a text: from the front, behind each replaced occurrence.     *)
Replaced(s, to, with) ==
  LET rest[i \in 0 .. Len(s) + Len(to)] ==
        IF i >= Len(s) THEN <<>>
        ELSE IF to # <<>> /\ StandsAt(s, to, i) THEN with \o rest[i + Len(to)]
        ELSE <<s[i + 1]>> \o rest[i + 1]
  IN  rest[0]

(* Mutant: only the growth is provided for.                                *)
ReplaceSizeOnce(s, to, with) == Len(s) + Len(with) - Len(to)

(* The characters that replace allocates, less the NUL.                    *)
ReplaceSize(s, to, with) == Len(s) + (Len(with) - Len(to)) * Cardinality(Occurrences(s, to))

Replace(s, to, with) ==
  IF Occurrences(s, to) = {} THEN s ELSE Replaced(CString(s), to, with)

CopyToBuffer(s, bufferSize) == SubSeq(s, 1, Min({bufferSize - 1, Len(s)}))

PadToSameLength(s1, s2, pad) ==
  [k \in 1 .. 2 |-> LET s == IF k = 1 THEN s1 ELSE s2
                    IN  Repeated(<<pad>>, Max({Len(s1), Len(s2)}) - Len(s)) \o s]
===============================================================================
