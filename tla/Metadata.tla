------------------------------ MODULE Metadata ------------------------------
(***************************************************************************)
(* The rest of the Metadata Decoder of orc-core, as pure operators:        *)
(*   prepare_add_input              which input an add request carries;   *)
(*   extract_info_hash_from_magnet  the xt=urn:btih: hash, lower-cased;   *)
(*   parse_trackers_from_magnet     every tr= value, percent-decoded;     *)
(*   parse_trackers_from_torrent_bytes  announce and announce-list;      *)
(*   dedup_preserve                 and integrate_added_torrent's list.   *)
(*                                                                         *)
(* Strings are byte sequences as in Bencode (a byte is a one-character     *)
(* string).  from_utf8_lossy is the identity on the ASCII bytes the models *)
(* use.  The only whitespace byte they use is " ", so trim().is_empty()    *)
(* is "every byte is a space".                                             *)
(***************************************************************************)
EXTENDS Bencode

CONSTANTS
    HashLen,         \* the 40 hex digits of an info-hash
    MaxMagnetLen,    \* MAX_MAGNET_LENGTH
    MaxB64Size,      \* MAX_BASE64_SIZE
    MaxDecodedSize   \* MAX_DECODED_SIZE

MagnetPrefix    == <<"m", "a", "g", "n", "e", "t", ":", "?">>
XtMarker        == <<"x", "t", "=", "u", "r", "n", ":", "b", "t", "i", "h", ":">>
TrKey           == <<"t", "r">>
AnnounceKey     == <<"a", "n", "n", "o", "u", "n", "c", "e">>
AnnounceListKey == AnnounceKey \o <<"-", "l", "i", "s", "t">>

\* str::find of a substring: the first position where t starts in s, 0 if none
FindSub(s, t) ==
    LET At == {k \in 1 .. Len(s) - Len(t) + 1 : SubSeq(s, k, k + Len(t) - 1) = t}
    IN  IF At = {} THEN 0 ELSE Min(At)

\* str::find of one byte
FindByte(s, c) == SelectInSeq(s, LAMBDA x : x = c)

\* str::split on one byte
RECURSIVE SplitOn(_, _)
SplitOn(s, c) ==
    LET k == FindByte(s, c)
    IN  IF k = 0 THEN <<s>> ELSE <<SubSeq(s, 1, k - 1)>> \o SplitOn(SubSeq(s, k + 1, Len(s)), c)

\* part.splitn(2, '='): the key, and the value ("" when there is no '=')
KeyOf(part)   == LET k == FindByte(part, "=") IN IF k = 0 THEN part ELSE SubSeq(part, 1, k - 1)
ValueOf(part) == LET k == FindByte(part, "=") IN IF k = 0 THEN <<>> ELSE SubSeq(part, k + 1, Len(part))

HexLower == <<"0", "1", "2", "3", "4", "5", "6", "7", "8", "9", "a", "b", "c", "d", "e", "f">>
HexUpper == <<"0", "1", "2", "3", "4", "5", "6", "7", "8", "9", "A", "B", "C", "D", "E", "F">>

\* from_hex is Some, and its value
IsHexDigit(c) == c \in Range(HexLower) \cup Range(HexUpper)
FromHex(c) == CHOOSE v \in 0 .. 15 : HexLower[v + 1] = c \/ HexUpper[v + 1] = c

\* the byte values of the characters that percent-escapes in the models stand for
CharCode == ("u" :> 117) @@ ("%" :> 37) @@ ("&" :> 38) @@ (" " :> 32) @@ ("=" :> 61)
ByteChar(b) == CHOOSE c \in DOMAIN CharCode : CharCode[c] = b

IsBlank(s) == \A k \in DOMAIN s : s[k] = " "

\* an escape with one byte of room only
EscapeFitsShort(i, n) == i + 2 < n

\* b'%' if i + 2 < bytes.len(), with the code's 0-based i at position i here
EscapeFits(i, n) == i + 2 <= n

\* percent_decode's loop from position i
RECURSIVE DecodeFrom(_, _)
DecodeFrom(s, i) ==
    IF i > Len(s) THEN <<>>
    ELSE IF s[i] = "%" /\ EscapeFits(i, Len(s)) /\ IsHexDigit(s[i + 1]) /\ IsHexDigit(s[i + 2])
         THEN <<ByteChar(16 * FromHex(s[i + 1]) + FromHex(s[i + 2]))>> \o DecodeFrom(s, i + 3)
         ELSE <<s[i]>> \o DecodeFrom(s, i + 1)

PercentDecode(s) == DecodeFrom(s, 1)

ParseTrackersFromMagnet(m) ==
    LET q     == FindByte(m, "?")
        Keep(acc, part) ==
            LET v == PercentDecode(ValueOf(part))
            IN  IF KeyOf(part) = TrKey /\ ~IsBlank(v) THEN Append(acc, v) ELSE acc
    IN  IF q = 0 THEN <<>>
        ELSE FoldLeft(LAMBDA acc, part : Keep(acc, part), <<>>, SplitOn(SubSeq(m, q + 1, Len(m)), "&"))

\* hash.to_lowercase() (the hash is all hex digits here)
HashTextRaw(h) == h
HashText(h) == [k \in DOMAIN h |-> IF h[k] \in Range(HexUpper) THEN HexLower[FromHex(h[k]) + 1] ELSE h[k]]

NoHash == <<>>

MagnetAccepted(m) == IsPrefix(MagnetPrefix, m) /\ Len(m) <= MaxMagnetLen

ExtractInfoHashFromMagnet(m) ==
    LET x    == FindSub(m, XtMarker)
        rest == SubSeq(m, x + Len(XtMarker), Len(m))
        amp  == FindByte(rest, "&")
        hash == IF amp = 0 THEN rest ELSE SubSeq(rest, 1, amp - 1)
    IN  IF ~MagnetAccepted(m) \/ x = 0 THEN NoHash
        ELSE IF Len(hash) = HashLen /\ \A k \in DOMAIN hash : IsHexDigit(hash[k])
        THEN HashText(hash)
        ELSE NoHash

-----------------------------------------------------------------------------

NoValue == [t |-> "none"]

\* get_dict_value: the value of the first entry with key k
GetDictValue(ents, k) ==
    LET I == {j \in DOMAIN ents : ents[j][1] = k}
    IN  IF I = {} THEN NoValue ELSE ents[Min(I)][2]

NonBlank(urls) == SelectSeq(urls, LAMBDA u : ~IsBlank(u))

\* one announce-list tier: the byte strings of a list, or a bare byte string
TierUrls(tier) ==
    CASE tier.t = "list"  -> FoldLeft(LAMBDA acc, u : IF u.t = "bytes" THEN Append(acc, u.b) ELSE acc,
                                      <<>>, tier.items)
      [] tier.t = "bytes" -> <<tier.b>>
      [] OTHER            -> <<>>

ParseTrackersFromTorrentBytes(bytes) ==
    LET r     == Decode(bytes)
        a     == GetDictValue(r.val.ents, AnnounceKey)
        al    == GetDictValue(r.val.ents, AnnounceListKey)
        first == IF a.t = "bytes" THEN <<a.b>> ELSE <<>>
        tiers == IF al.t = "list" THEN FlattenSeq([k \in DOMAIN al.items |-> TierUrls(al.items[k])])
                 ELSE <<>>
    IN  IF r.ok /\ r.val.t = "dict" THEN NonBlank(first \o tiers) ELSE <<>>

\* v.retain(|s| seen.insert(s))
DedupPreserve(v) == FoldLeft(LAMBDA acc, s : IF s \in Range(acc) THEN acc ELSE Append(acc, s), <<>>, v)

-----------------------------------------------------------------------------
(***************************************************************************)
(* An add request carries a magnet or a torrent_b64 (validate refuses     *)
(* both and neither).  req.str is the magnet, or the bytes torrent_b64     *)
(* encodes; the base64 text is 4 * ceil(n / 3) bytes long.  An invalid     *)
(* base64 text is not among the inputs.                                    *)
(***************************************************************************)
B64Len(n) == 4 * ((n + 2) \div 3)

Err == [kind |-> "err"]

PrepareAddInput(req) ==
    IF req.kind = "torrent"
    THEN IF B64Len(Len(req.str)) > MaxB64Size \/ Len(req.str) > MaxDecodedSize THEN Err
         ELSE [kind |-> "bytes", str |-> req.str]
    ELSE IF Len(req.str) > MaxMagnetLen \/ ~IsPrefix(MagnetPrefix, req.str) THEN Err
         ELSE [kind |-> "url", str |-> req.str]

\* integrate_added_torrent: the record's runtime.trackers
IntegrateTrackers(req) ==
    DedupPreserve(IF req.kind = "magnet" THEN ParseTrackersFromMagnet(req.str)
                  ELSE ParseTrackersFromTorrentBytes(req.str))

=============================================================================
