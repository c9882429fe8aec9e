------------------------------ MODULE StringOps ------------------------------
(***************************************************************************)
(* The algorithms of ema::String (src/string/str.cpp): replace and split,    *)
(* whose loops are steps, and trim and from_wstring, each one step.  A        *)
(* behaviour is one call, on one of all short strings.  Positions count from *)
(* 0, as in the code; a string is a sequence of characters.  Module           *)
(* MCSequential extends this module beside others, hence the names           *)
(* StringInit, StringNext and StringSpec.                                   *)
(***************************************************************************)
EXTENDS Integers, FiniteSets, Sequences, SequencesExt

CONSTANTS
  Char,     \* the characters
  Space,    \* those that isspace accepts
  High,     \* other characters, for trim alone: bytes from 0x80 on
  Wide,     \* those that take two bytes in UTF-8
  MaxText,  \* length of the longest text
  MaxPat,   \* length of the longest pattern, delimiter and replacement
  MaxLen,   \* model bound on a text that grows
  nul      \* the byte a string is filled with

ASSUME StringAssumption ==
  /\ Space \subseteq Char /\ Wide \subseteq Char \ Space
  /\ High \cap Char = {}
  /\ MaxText \in Nat /\ MaxPat \in Nat /\ MaxLen \in Nat
  /\ nul \notin Char \X {1, 2}

NPOS == MaxLen + MaxText + 1

VARIABLES
  call,    \* the call and its arguments
  text,    \* the string itself, which replace and trim change
  pos,     \* start_pos of replace, prev of split
  tokens,  \* what split has collected; what from_wstring returns
  done,    \* the call has returned
  aborted  \* the program was ended in the call

strVars == <<call, text, pos, tokens, done, aborted>>

Call ==
  [op : {"replace"}, text : BoundedSeq(Char, MaxText), pat : BoundedSeq(Char, MaxPat),
   to : BoundedSeq(Char, MaxPat)]
  \cup [op : {"split"}, text : BoundedSeq(Char, MaxText), pat : BoundedSeq(Char, MaxPat),
        keep_empty : BOOLEAN]
  \cup [op : {"trim"}, text : BoundedSeq(Char \cup High, MaxText)]
  \cup [op : {"from_wstring"}, text : BoundedSeq(Char, MaxText)]

StringInit ==
  /\ call \in Call
  /\ text = call.text
  /\ pos = 0
  /\ tokens = <<>>
  /\ done = FALSE
  /\ aborted = FALSE

-----------------------------------------------------------------------------
Occurs(s, pat, i) == i + Len(pat) <= Len(s) /\ SubSeq(s, i + 1, i + Len(pat)) = pat

(* std::string::find: an empty pattern is found wherever it is looked for.   *)
Find(s, pat, from) ==
  LET at == {i \in from .. Len(s) : Occurs(s, pat, i)}
  IN IF at = {} THEN NPOS ELSE CHOOSE i \in at : \A j \in at : i <= j

(* Variant: the search goes on inside the replacement.                      *)
AfterReplace(p, pat, to) == p

(* Variant: the search goes on after as many characters as were replaced.   *)
AfterPattern(p, pat, to) == p + Len(pat)

(* Where the search goes on after a replacement at p.                       *)
Resume(p, pat, to) == p + Len(to)

ReplaceStep ==
  LET p == Find(text, call.pat, pos)
  IN /\ call.op = "replace" /\ ~done
     /\ \/ /\ p = NPOS
           /\ done' = TRUE
           /\ UNCHANGED <<text, pos>>
        \/ /\ p # NPOS
           /\ Len(text) + Len(call.to) <= MaxLen
           /\ text' = SubSeq(text, 1, p) \o call.to \o SubSeq(text, p + Len(call.pat) + 1, Len(text))
           /\ pos' = Resume(p, call.pat, call.to)
           /\ UNCHANGED done
     /\ UNCHANGED <<call, tokens, aborted>>

(* Variant: the loop ends when the text does, before its last token.         *)
MoreEarly(p, next) == next + 1 < Len(text)

(* The condition of split's loop.                                           *)
More(p, next) == p < Len(text) /\ next < Len(text)

SplitStep ==
  LET found == Find(text, call.pat, pos)
      p == IF found = NPOS THEN Len(text) ELSE found
      token == SubSeq(text, pos + 1, p)
      next == p + Len(call.pat)
  IN /\ call.op = "split" /\ ~done
     /\ Len(tokens) < MaxLen
     /\ IF text = <<>>
        THEN done' = TRUE /\ UNCHANGED <<tokens, pos>>
        ELSE /\ tokens' = IF token # <<>> \/ call.keep_empty THEN Append(tokens, token) ELSE tokens
             /\ pos' = next
             /\ done' = ~More(p, next)
     /\ UNCHANGED <<call, text, aborted>>

(* Where trim's two searches stop: at the first character that is no space,   *)
(* counted from 1, and at the last, 0 for none.  The second hands a plain     *)
(* char to ::isspace, which is undefined for the characters of High: each     *)
(* may be taken for a space or not.                                         *)
StartsAt(i) ==
  /\ \A j \in 1 .. i - 1 : text[j] \in Space
  /\ i <= Len(text) => text[i] \notin Space

EndsAt(k) ==
  /\ \A j \in k + 1 .. Len(text) : text[j] \in Space \cup High
  /\ k > 0 => text[k] \notin Space

(* Variant: a text of nothing but spaces is left as it is.                  *)
KeptBlank(i, k) == IF i > k THEN text ELSE SubSeq(text, i, k)

(* What is assigned: nothing when the searches have crossed.                 *)
Trimmed(i, k) == IF i > k THEN <<>> ELSE SubSeq(text, i, k)

(* A build with assertions ends the program when ::isspace is handed a        *)
(* character of High, and when iterators that clear() has invalidated are     *)
(* compared; another build goes on.                                         *)
Trim ==
  /\ call.op = "trim" /\ ~done /\ ~aborted
  /\ \E i \in 1 .. Len(text) + 1, k \in 0 .. Len(text) :
       /\ StartsAt(i) /\ EndsAt(k)
       /\ \/ text' = Trimmed(i, k) /\ done' = TRUE /\ UNCHANGED aborted
          \/ /\ i > k \/ \E j \in (k .. Len(text)) \ {0} : text[j] \in High
             /\ aborted' = TRUE /\ UNCHANGED <<text, done>>
  /\ UNCHANGED <<call, pos, tokens>>

(* How many bytes of UTF-8 come before character i: one or two for each.      *)
BytesBefore(s, i) == i - 1 + Cardinality({j \in 1 .. i - 1 : s[j] \in Wide})

(* UTF-8: the one or two bytes of every character, in order.                 *)
Encoded(s) ==
  [k \in 1 .. BytesBefore(s, Len(s) + 1) |->
     CHOOSE x \in Char \X {1, 2} :
       \E i \in 1 .. Len(s) :
         /\ x[1] = s[i]
         /\ k = BytesBefore(s, i) + x[2]
         /\ x[2] = 2 => s[i] \in Wide]

(* Variant: one byte is kept for a terminator.                              *)
RoomShort(s) == Len(s) - 1

(* The size of the buffer that from_wstring tells the second call of          *)
(* WideCharToMultiByte: as many bytes as the text has characters.             *)
Room(s) == Len(s)

(* from_wstring: the buffer has the bytes that are needed.  When the room is  *)
(* too small for them the conversion fails, having written a part.           *)
FromWstring ==
  LET utf8 == Encoded(text)
      size_need == Len(utf8)
  IN /\ call.op = "from_wstring" /\ ~done
     /\ \E n \in 0 .. Room(text) :
          /\ size_need <= Room(text) => n = size_need
          /\ tokens' = [i \in 1 .. size_need |-> IF i <= n THEN utf8[i] ELSE nul]
     /\ done' = TRUE
     /\ UNCHANGED <<call, text, pos, aborted>>

StringNext == ReplaceStep \/ SplitStep \/ Trim \/ FromWstring

(* A call runs on until it returns.                                         *)
StringSpec == StringInit /\ [][StringNext]_strVars /\ WF_strVars(StringNext)

-----------------------------------------------------------------------------
(***************************************************************************)
(* Reference.  The occurrences that a scan from the left uses are the one    *)
(* sequence of occurrences that do not overlap and that overlap every other  *)
(* one from its left.                                                       *)
(***************************************************************************)
Cuts(s, pat) ==
  LET All == {i \in 0 .. Len(s) : Occurs(s, pat, i)}
  IN {c \in BoundedSeq(All, Len(s)) :
        /\ \A k, l \in 1 .. Len(c) : k < l => c[k] + Len(pat) <= c[l]
        /\ \A i \in All : \E k \in 1 .. Len(c) : c[k] <= i /\ i < c[k] + Len(pat)}

(* Around the cuts c the text s has Len(c) + 1 pieces: piece k, from 0, is     *)
(* the characters after Left(k), up to Right(k).                             *)
Left(c, pat, k) == IF k = 0 THEN 0 ELSE c[k] + Len(pat)
Right(s, c, k) == IF k = Len(c) THEN Len(s) ELSE c[k + 1]
Piece(s, pat, c, k) == SubSeq(s, Left(c, pat, k) + 1, Right(s, c, k))

(* replace puts the replacement in the place of every occurrence of the       *)
(* pattern that a scan from the left meets, and never looks into what it put  *)
(* there, even if that contains the pattern or makes a new one with what      *)
(* follows (str.cpp 88-95).                                                  *)
ReplaceRight ==
  (call.op = "replace" /\ done) =>
    \E c \in Cuts(call.text, call.pat) :
      LET Shift(k) == k * Len(call.to) - k * Len(call.pat)
      IN /\ Len(text) = Len(call.text) + Shift(Len(c))
         /\ \A k \in 0 .. Len(c) : \A i \in Left(c, call.pat, k) + 1 .. Right(call.text, c, k) :
              text[i + Shift(k)] = call.text[i]
         /\ \A k \in 1 .. Len(c) : \A i \in 1 .. Len(call.to) :
              text[c[k] + Shift(k - 1) + i] = call.to[i]

(* split returns the pieces between the delimiters, without the empty ones    *)
(* unless they are asked for.  An empty piece after a delimiter at the end    *)
(* is never returned, and neither is the one piece of an empty text           *)
(* (str.cpp 97-109).                                                        *)
SplitRight ==
  (call.op = "split" /\ done) =>
    IF call.text = <<>> THEN tokens = <<>>
    ELSE \E c \in Cuts(call.text, call.pat) :
           LET piece(k) == Piece(call.text, call.pat, c, k)
               kept == {k \in 0 .. Len(c) : piece(k) # <<>> \/ (call.keep_empty /\ k < Len(c))}
           IN \E f \in [1 .. Len(tokens) -> kept] :
                /\ \A i, j \in 1 .. Len(tokens) : i < j => f[i] < f[j]
                /\ kept = {f[i] : i \in 1 .. Len(tokens)}
                /\ \A i \in 1 .. Len(tokens) : tokens[i] = piece(f[i])

(* trim returns the part of the text from its first character that is no      *)
(* space to its last, and nothing if there is none.  At the end of a text     *)
(* with characters of High it may cut off some of those too, and no others    *)
(* (str.cpp 75-86).                                                         *)
TrimRight ==
  (call.op = "trim" /\ done) =>
    \E i \in 0 .. Len(call.text) :
      /\ i + Len(text) <= Len(call.text)
      /\ text = SubSeq(call.text, i + 1, i + Len(text))
      /\ \A j \in 1 .. i : call.text[j] \in Space
      /\ \A j \in i + Len(text) + 1 .. Len(call.text) : call.text[j] \in Space \cup High
      /\ text # <<>> => text[1] \notin Space /\ text[Len(text)] \notin Space

(* from_wstring returns the whole text in UTF-8 if every character takes one  *)
(* byte, and never otherwise: the length it gives as the buffer's size is the *)
(* number of characters (str.cpp 115-123).                                  *)
FromWstringRight ==
  (call.op = "from_wstring" /\ done) =>
    (tokens = Encoded(call.text) <=> \A i \in 1 .. Len(call.text) : call.text[i] \notin Wide)

(* Every call returns, whatever the replacement contains, unless replace or   *)
(* split is given an empty pattern, which is found again and again at the    *)
(* same place, or a build with assertions ends the program in trim            *)
(* (str.cpp 75-123).                                                        *)
Returns ==
  (call.op \in {"replace", "split"} => call.pat # <<>> \/ (call.op = "split" /\ call.text = <<>>))
    => <>(done \/ aborted)
=============================================================================
