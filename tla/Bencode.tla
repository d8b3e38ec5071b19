------------------------------- MODULE Bencode -------------------------------
(***************************************************************************)
(* The bencode decoder of orc-core (parse_bencode_with_depth) as pure      *)
(* operators over byte sequences.  A byte is a one-character string; the   *)
(* limits of the code (MAX_BENCODE_DEPTH, MAX_BENCODE_SIZE, max_int_len,   *)
(* max_len_str, MAX_BYTE_STRING_SIZE, MAX_LIST_ITEMS / MAX_DICT_ITEMS) are *)
(* CONSTANTS so that a model can make every one of them reachable.         *)
(*                                                                         *)
(* Positions are 1-based: the code's index i is position i+1 here.  A      *)
(* result is [ok, val, next]: next is the position after the value (the    *)
(* code's returned index).  Error messages are not modelled: every Err is  *)
(* ok = FALSE.  Values mirror BVal: Int(n), Bytes(b), List(items) and      *)
(* Dict(entries), an entry being <<key bytes, value>>.                     *)
(***************************************************************************)
EXTENDS Naturals, Integers, Sequences, SequencesExt

CONSTANTS
    MaxDepth,      \* MAX_BENCODE_DEPTH
    MaxInput,      \* MAX_BENCODE_SIZE
    MaxIntLen,     \* max_int_len (digit run of an integer)
    MaxLenDigits,  \* max_len_str (digit run of a length prefix)
    MaxStrLen,     \* MAX_BYTE_STRING_SIZE
    MaxItems       \* MAX_LIST_ITEMS and MAX_DICT_ITEMS

ASSUME MaxDepth \in Nat /\ MaxInput \in Nat
\* Integers of up to 18 characters always fit in an i64, so overflow is out of reach.
ASSUME MaxIntLen \in 1 .. 18 /\ MaxLenDigits \in 1 .. 18
ASSUME MaxStrLen \in Nat /\ MaxItems \in Nat

DigitChars == <<"0", "1", "2", "3", "4", "5", "6", "7", "8", "9">>
Digit(k) == DigitChars[k + 1]
Digits == {Digit(k) : k \in 0 .. 9}
DigitValue(c) == CHOOSE k \in 0 .. 9 : Digit(k) = c

\* str::parse of a run of ASCII digits
NumVal(ds) == FoldLeft(LAMBDA acc, c : 10 * acc + DigitValue(c), 0, ds)

AllDigits(ds) == Len(ds) > 0 /\ \A k \in 1 .. Len(ds) : ds[k] \in Digits

\* str::parse::<i64>: an optional sign, then at least one digit
IsI64(body) ==
    IF Len(body) > 0 /\ body[1] \in {"-", "+"} THEN AllDigits(Tail(body)) ELSE AllDigits(body)

I64Value(body) ==
    CASE Len(body) > 0 /\ body[1] = "-" -> -NumVal(Tail(body))
      [] Len(body) > 0 /\ body[1] = "+" -> NumVal(Tail(body))
      [] OTHER                          -> NumVal(body)

\* str::parse::<usize> of a run that starts with a digit
IsUsize(body) == AllDigits(body)

IntV(n)      == [t |-> "int", n |-> n]
BytesV(b)    == [t |-> "bytes", b |-> b]
ListV(items) == [t |-> "list", items |-> items]
DictV(ents)  == [t |-> "dict", ents |-> ents]

Fail == [ok |-> FALSE, val |-> BytesV(<<>>), next |-> 0]
Ok(v, next) == [ok |-> TRUE, val |-> v, next |-> next]

(***************************************************************************)
(* The digit-run loops of the int and bytes arms: from start, the first    *)
(* position that is past the input, holds the stop byte, or is max bytes   *)
(* after start.                                                            *)
(***************************************************************************)
RunEnd(s, start, stop, max) ==
    LET C == {j \in start .. start + max : j > Len(s) \/ s[j] = stop \/ j = start + max}
    IN  CHOOSE j \in C : \A k \in C : j <= k

\* the nesting guard at the top of parse_bencode_with_depth
TooDeep(depth) == depth > MaxDepth

\* the element-count guard written with > instead of >=
FullLax(items) == Len(items) > MaxItems

\* the element-count guard of the list and dict loops
Full(items) == Len(items) >= MaxItems

\* the end of a byte string computed without skipping the ':'
BytesNextShort(j, len) == j + len

\* the position after a byte string whose ':' is at j
BytesNext(j, len) == j + len + 1

(***************************************************************************)
(* The 'i' arm; start is the position after the 'i'.                       *)
(***************************************************************************)
ParseInt(s, start) ==
    LET j    == RunEnd(s, start, "e", MaxIntLen)
        body == SubSeq(s, start, j - 1)
    IN  IF j > Len(s) THEN Fail                                \* unterminated int
        ELSE IF j - start >= MaxIntLen /\ s[j] # "e" THEN Fail \* integer too long
        ELSE IF ~IsI64(body) THEN Fail
        ELSE Ok(IntV(I64Value(body)), j + 1)

(***************************************************************************)
(* The digit arm; start is the first digit of the length prefix.           *)
(***************************************************************************)
ParseBytes(s, start) ==
    LET j    == RunEnd(s, start, ":", MaxLenDigits)
        body == SubSeq(s, start, j - 1)
        len  == NumVal(body)
    IN  IF j > Len(s) THEN Fail                                \* invalid bytes length
        ELSE IF j - start >= MaxLenDigits /\ s[j] # ":" THEN Fail
        ELSE IF ~IsUsize(body) THEN Fail
        ELSE IF len > MaxStrLen THEN Fail
        ELSE IF BytesNext(j, len) - 1 > Len(s) THEN Fail       \* bytes out of range
        ELSE Ok(BytesV(SubSeq(s, j + 1, j + len)), BytesNext(j, len))

RECURSIVE Parse(_, _, _), ParseList(_, _, _, _), ParseDict(_, _, _, _)

(***************************************************************************)
(* The 'l' loop: items until an 'e', each parsed one level deeper.         *)
(***************************************************************************)
ParseList(s, i, depth, items) ==
    IF i > Len(s) THEN Fail                                    \* unterminated list
    ELSE IF s[i] = "e" THEN Ok(ListV(items), i + 1)
    ELSE IF Full(items) THEN Fail
    ELSE LET r == Parse(s, i, depth + 1)
         IN  IF r.ok THEN ParseList(s, r.next, depth, Append(items, r.val)) ELSE Fail

(***************************************************************************)
(* The 'd' loop: a key that must be a byte string, then its value.         *)
(***************************************************************************)
ParseDict(s, i, depth, ents) ==
    IF i > Len(s) THEN Fail                                    \* unterminated dict
    ELSE IF s[i] = "e" THEN Ok(DictV(ents), i + 1)
    ELSE IF Full(ents) THEN Fail
    ELSE LET k == Parse(s, i, depth + 1)
         IN  IF ~k.ok \/ k.val.t # "bytes" THEN Fail
             ELSE LET v == Parse(s, k.next, depth + 1)
                  IN  IF v.ok THEN ParseDict(s, v.next, depth, Append(ents, <<k.val.b, v.val>>))
                      ELSE Fail

Parse(s, i, depth) ==
    IF TooDeep(depth) \/ Len(s) > MaxInput \/ i > Len(s) THEN Fail
    ELSE CASE s[i] = "i"     -> ParseInt(s, i + 1)
           [] s[i] = "l"     -> ParseList(s, i + 1, depth, <<>>)
           [] s[i] = "d"     -> ParseDict(s, i + 1, depth, <<>>)
           [] s[i] \in Digits -> ParseBytes(s, i)
           [] OTHER          -> Fail                           \* invalid bencode prefix

\* parse_bencode
Decode(s) == Parse(s, 1, 0)

=============================================================================
