---------------------------- MODULE InfoHashScan ----------------------------
(***************************************************************************)
(* extract_info_hash_from_torrent_bytes: find the first "4:info" marker,   *)
(* then scan forward from the 'd' after it, counting nesting and skipping  *)
(* length-prefixed strings, until the depth returns to 0.  The bytes       *)
(* [dictStart, dictEnd) are what the code hashes with SHA-1; the digest    *)
(* itself is left out (two equal ranges give equal hashes).                *)
(*                                                                         *)
(* Each iteration of the scanning loop is one step, with the loop's locals *)
(* as variables.  The input is fixed in Init by the model that uses this   *)
(* module.                                                                 *)
(***************************************************************************)
EXTENDS Bencode, FiniteSetsExt

VARIABLES
    input,      \* the torrent bytes
    phase,      \* "marker", "scan", "done", or "panicked"
    pos,        \* the loop index i
    depth,      \* depth
    inString,   \* in_string
    stringLen,  \* string_len
    stringPos,  \* string_pos
    dictStart,  \* dict_start
    dictEnd     \* dict_end (0 = None)

scanVars == <<phase, pos, depth, inString, stringLen, stringPos, dictStart, dictEnd>>

Marker == <<"4", ":", "i", "n", "f", "o">>

\* the positions where the marker starts, for an input at least as long as it
MarkerAt(s) == {k \in 1 .. Len(s) - (Len(Marker) - 1) : SubSeq(s, k, k + Len(Marker) - 1) = Marker}

\* the end of the digit run starting at k (the inner while loop over j)
DigitRunEnd(s, k) ==
    CHOOSE j \in k .. Len(s) + 1 :
        /\ j > Len(s) \/ s[j] \notin Digits
        /\ \A m \in k .. j - 1 : s[m] \in Digits

\* a digit run followed by ':' (then len_str.parse() succeeds)
LengthPrefixAt(s, k) ==
    LET j == DigitRunEnd(s, k) IN j <= Len(s) /\ s[j] = ":"

\* dict_end one byte past the closing 'e'
DictEndPastClose(k) == k + 2

\* dict_end = Some(i + 1): the position after the closing 'e'
DictEndAt(k) == k + 1

ScanInit ==
    /\ phase = "marker"
    /\ pos = 1 /\ depth = 0 /\ inString = FALSE /\ stringLen = 0 /\ stringPos = 0
    /\ dictStart = 0 /\ dictEnd = 0

(***************************************************************************)
(* The marker loop `for i in 0..=len.saturating_sub(6)` slices             *)
(* bytes[i..i+6]; on an input shorter than six bytes that slice is out of  *)
(* range and the thread panics.  Otherwise the first marker is taken, and  *)
(* the scan starts only if a 'd' follows it.                               *)
(***************************************************************************)
FindMarker ==
    /\ phase = "marker"
    /\ IF Len(input) < Len(Marker)
       THEN /\ phase' = "panicked"
            /\ UNCHANGED <<pos, dictStart>>
       ELSE IF MarkerAt(input) = {}
       THEN /\ phase' = "done"
            /\ UNCHANGED <<pos, dictStart>>
       ELSE LET st == Min(MarkerAt(input)) + Len(Marker)
            IN  IF st > Len(input) \/ input[st] # "d"
                THEN /\ phase' = "done"
                     /\ UNCHANGED <<pos, dictStart>>
                ELSE /\ phase' = "scan"
                     /\ pos' = st
                     /\ dictStart' = st
    /\ UNCHANGED <<input, depth, inString, stringLen, stringPos, dictEnd>>

\* in_string: count one byte of the string; leave the string when enough were counted
ScanSkip ==
    /\ phase = "scan" /\ pos <= Len(input) /\ inString
    /\ pos' = pos + 1
    /\ IF stringPos + 1 >= stringLen
       THEN /\ inString' = FALSE /\ stringPos' = 0 /\ stringLen' = 0
       ELSE /\ stringPos' = stringPos + 1
            /\ UNCHANGED <<inString, stringLen>>
    /\ UNCHANGED <<input, phase, depth, dictStart, dictEnd>>

\* a length prefix: enter the string (the next iteration is the byte after this digit)
ScanLength ==
    /\ phase = "scan" /\ pos <= Len(input) /\ ~inString
    /\ input[pos] \in Digits /\ LengthPrefixAt(input, pos)
    /\ pos' = pos + 1
    /\ inString' = TRUE
    /\ stringLen' = NumVal(SubSeq(input, pos, DigitRunEnd(input, pos) - 1))
    /\ stringPos' = 0
    /\ UNCHANGED <<input, phase, depth, dictStart, dictEnd>>

\* 'd' or 'l' opens a container
ScanOpen ==
    /\ phase = "scan" /\ pos <= Len(input) /\ ~inString
    /\ input[pos] \in {"d", "l"}
    /\ pos' = pos + 1
    /\ depth' = depth + 1
    /\ UNCHANGED <<input, phase, inString, stringLen, stringPos, dictStart, dictEnd>>

\* 'e' closes one; at depth 0 the info dictionary ends here
ScanClose ==
    /\ phase = "scan" /\ pos <= Len(input) /\ ~inString
    /\ input[pos] = "e"
    /\ depth' = depth - 1
    /\ IF depth - 1 = 0
       THEN /\ dictEnd' = DictEndAt(pos)
            /\ phase' = "done"
            /\ UNCHANGED pos
       ELSE /\ pos' = pos + 1
            /\ UNCHANGED <<dictEnd, phase>>
    /\ UNCHANGED <<input, inString, stringLen, stringPos, dictStart>>

\* any other byte, including a digit run not followed by ':'
ScanOther ==
    /\ phase = "scan" /\ pos <= Len(input) /\ ~inString
    /\ input[pos] \notin {"d", "l", "e"}
    /\ ~(input[pos] \in Digits /\ LengthPrefixAt(input, pos))
    /\ pos' = pos + 1
    /\ UNCHANGED <<input, phase, depth, inString, stringLen, stringPos, dictStart, dictEnd>>

\* the loop runs out of input: dict_end stays None, the function returns Ok(None)
ScanExhausted ==
    /\ phase = "scan" /\ pos > Len(input)
    /\ phase' = "done"
    /\ UNCHANGED <<input, pos, depth, inString, stringLen, stringPos, dictStart, dictEnd>>

ScanNext ==
    \/ FindMarker
    \/ ScanSkip \/ ScanLength \/ ScanOpen \/ ScanClose \/ ScanOther
    \/ ScanExhausted

\* the byte range that is hashed, or <<>> for Ok(None)
ScanResult == IF dictEnd = 0 THEN <<>> ELSE <<dictStart, dictEnd>>

=============================================================================
