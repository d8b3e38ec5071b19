----------------------------- MODULE MC_Bencode -----------------------------
(***************************************************************************)
(* Checks the bencode decoder and the info-hash scanner against reference  *)
(* definitions written from the bencode format, not from the code:        *)
(*   Encode     prints a value in canonical bencode;                       *)
(*   RefEnd     the position after the value starting at i, by the grammar *)
(*              alone (no limits);                                         *)
(*   RefInfo    the byte range of the root dictionary's "info" value,      *)
(*              which is what a BitTorrent engine hashes.                  *)
(* A behaviour fixes one input in Init (either the encoding of a value     *)
(* from Trees, or a raw byte string) and then runs the scanner on it.      *)
(***************************************************************************)
EXTENDS InfoHashScan

CONSTANT WithDecoy   \* whether the inputs include a torrent whose string value contains "4:info"

VARIABLES
    tree,   \* the value whose encoding is the input, or NoTree for raw bytes
    req     \* the add request the input comes from, when it is one (kind "none" otherwise)

vars == <<input, tree, req, scanVars>>

MagnetHashLen == 2

\* the decoder with limits wide enough for torrents that list trackers
MD == INSTANCE Metadata WITH MaxDepth <- 3, MaxInput <- 48, MaxIntLen <- 2, MaxLenDigits <- 2,
                             MaxStrLen <- 13, MaxItems <- 3,
                             HashLen <- MagnetHashLen, MaxMagnetLen <- 30, MaxB64Size <- 52, MaxDecodedSize <- 40

NoTree == [t |-> "none"]

-----------------------------------------------------------------------------
(* References *)

RECURSIVE NatChars(_)
NatChars(n) == IF n < 10 THEN <<Digit(n)>> ELSE NatChars(n \div 10) \o <<Digit(n % 10)>>

IntChars(n) == IF n < 0 THEN <<"-">> \o NatChars(-n) ELSE NatChars(n)

RECURSIVE Encode(_)
Encode(v) ==
    CASE v.t = "int"   -> <<"i">> \o IntChars(v.n) \o <<"e">>
      [] v.t = "bytes" -> NatChars(Len(v.b)) \o <<":">> \o v.b
      [] v.t = "list"  -> <<"l">> \o FlattenSeq([k \in DOMAIN v.items |-> Encode(v.items[k])])
                               \o <<"e">>
      [] v.t = "dict"  -> <<"d">> \o FlattenSeq([k \in DOMAIN v.ents |->
                                        Encode(BytesV(v.ents[k][1])) \o Encode(v.ents[k][2])])
                               \o <<"e">>

\* the code accepts a value iff every limit holds at every level
RECURSIVE WithinLimits(_, _)
WithinLimits(v, d) ==
    /\ d <= MaxDepth
    /\ CASE v.t = "int"   -> Len(IntChars(v.n)) <= MaxIntLen
         [] v.t = "bytes" -> Len(v.b) <= MaxStrLen /\ Len(NatChars(Len(v.b))) <= MaxLenDigits
         [] v.t = "list"  -> Len(v.items) <= MaxItems
                             /\ \A k \in DOMAIN v.items : WithinLimits(v.items[k], d + 1)
         [] v.t = "dict"  -> Len(v.ents) <= MaxItems
                             /\ \A k \in DOMAIN v.ents : WithinLimits(BytesV(v.ents[k][1]), d + 1)
                                                         /\ WithinLimits(v.ents[k][2], d + 1)

Accepted(v) == Len(Encode(v)) <= MaxInput /\ WithinLimits(v, 0)

\* the limits that bound a decoded value, whatever its bytes looked like
RECURSIVE Bounded(_, _)
Bounded(v, d) ==
    /\ d <= MaxDepth
    /\ CASE v.t = "int"   -> TRUE
         [] v.t = "bytes" -> Len(v.b) <= MaxStrLen
         [] v.t = "list"  -> Len(v.items) <= MaxItems /\ \A k \in DOMAIN v.items : Bounded(v.items[k], d + 1)
         [] v.t = "dict"  -> Len(v.ents) <= MaxItems /\ \A k \in DOMAIN v.ents : Bounded(v.ents[k][2], d + 1)

RECURSIVE RefEnd(_, _), RefItemsEnd(_, _)
RefEnd(s, i) ==
    IF i > Len(s) THEN 0
    ELSE CASE s[i] = "i" ->
                LET E == {j \in i + 1 .. Len(s) : s[j] = "e"}
                IN  IF E = {} THEN 0 ELSE Min(E) + 1
           [] s[i] \in {"l", "d"} -> RefItemsEnd(s, i + 1)
           [] s[i] \in Digits ->
                LET j == DigitRunEnd(s, i)
                IN  IF j <= Len(s) /\ s[j] = ":" /\ j + NumVal(SubSeq(s, i, j - 1)) <= Len(s)
                    THEN j + NumVal(SubSeq(s, i, j - 1)) + 1 ELSE 0
           [] OTHER -> 0

RefItemsEnd(s, i) ==
    IF i > Len(s) THEN 0
    ELSE IF s[i] = "e" THEN i + 1
    ELSE LET k == RefEnd(s, i) IN IF k = 0 THEN 0 ELSE RefItemsEnd(s, k)

InfoKey == <<"i", "n", "f", "o">>

\* walk the root dictionary's entries from p, looking for the key "info" with a dict value
RECURSIVE RefFindInfo(_, _)
RefFindInfo(s, p) ==
    IF p > Len(s) \/ s[p] = "e" THEN <<>>
    ELSE LET kEnd == RefEnd(s, p)
             vEnd == IF kEnd = 0 THEN 0 ELSE RefEnd(s, kEnd)
         IN  IF vEnd = 0 THEN <<>>
             ELSE IF SubSeq(s, p, kEnd - 1) = Encode(BytesV(InfoKey)) /\ s[kEnd] = "d"
             THEN <<kEnd, vEnd>>
             ELSE RefFindInfo(s, vEnd)

\* the info range of a well-formed torrent (a root dictionary spanning the input)
RefInfo(s) ==
    IF Len(s) > 0 /\ s[1] = "d" /\ RefEnd(s, 1) = Len(s) + 1 THEN RefFindInfo(s, 2) ELSE <<>>

\* the distinct elements of s in the order they first occur
RefDedup(s) ==
    LET firsts == SetToSortSeq({k \in DOMAIN s : \A j \in 1 .. k - 1 : s[j] # s[k]}, <)
    IN  [n \in DOMAIN firsts |-> s[firsts[n]]]

RefBlank(u) == \A k \in DOMAIN u : u[k] = " "

(***************************************************************************)
(* A magnet link is "magnet:?" and its parameters joined by '&'.  A        *)
(* parameter is [key, text, url]: text is what the link carries, url the   *)
(* tracker URL a tr= parameter stands for.  Percent-encoding (RFC 3986)    *)
(* writes a byte as '%' and two hex digits of either case; '%' and '&'     *)
(* must be encoded inside a value, other bytes may be.                     *)
(***************************************************************************)
RefHexDigit(v, upper) == IF upper THEN MD!HexUpper[v + 1] ELSE MD!HexLower[v + 1]

PctEncodings(c) ==
    {<<"%", RefHexDigit(MD!CharCode[c] \div 16, up), RefHexDigit(MD!CharCode[c] % 16, up)>> :
        up \in BOOLEAN}
    \cup (IF c \in {"%", "&"} THEN {} ELSE {<<c>>})

RECURSIVE Encodings(_)
Encodings(u) == IF u = <<>> THEN {<<>>}
                ELSE {e \o r : e \in PctEncodings(Head(u)), r \in Encodings(Tail(u))}

RECURSIVE JoinTexts(_)
JoinTexts(ps) == IF Len(ps) <= 1 THEN FlattenSeq([k \in DOMAIN ps |-> ps[k].text])
                 ELSE ps[1].text \o <<"&">> \o JoinTexts(Tail(ps))

MagnetOf(ps) == MD!MagnetPrefix \o JoinTexts(ps)

\* the hash of the first xt parameter naming a BitTorrent info-hash, lower-cased, if it is one
RefHash(ps) ==
    LET I == {k \in DOMAIN ps : ps[k].key = "xt"}
        h == IF I = {} THEN <<>> ELSE ps[Min(I)].hash
    IN  IF Len(h) = MagnetHashLen /\ \A k \in DOMAIN h : MD!IsHexDigit(h[k])
        THEN [k \in DOMAIN h |-> MD!HexLower[MD!FromHex(h[k]) + 1]]
        ELSE MD!NoHash

\* BEP 12: the announce URL, then every URL of every tier (a bare URL counts as a tier of one)
RefTorrentUrls(v) ==
    LET Val(key) == LET I == {k \in DOMAIN v.ents : v.ents[k][1] = key}
                    IN  IF I = {} THEN IntV(0) ELSE v.ents[Min(I)][2]
        a  == Val(MD!AnnounceKey)
        al == Val(MD!AnnounceListKey)
        Urls(x) == IF x.t = "bytes" THEN <<x.b>>
                   ELSE IF x.t = "list"
                   THEN LET bs == SelectSeq(x.items, LAMBDA y : y.t = "bytes")
                        IN  [j \in DOMAIN bs |-> bs[j].b]
                   ELSE <<>>
        tiers == IF al.t = "list" THEN al.items ELSE <<>>
    IN  IF v.t # "dict" THEN <<>>
        ELSE (IF a.t = "bytes" THEN <<a.b>> ELSE <<>>)
             \o FlattenSeq([k \in DOMAIN tiers |-> Urls(tiers[k])])

\* the trackers a record must list: every tracker URL of the request, blank ones left out,
\* each once, in first-seen order
RefTrackers(r) ==
    LET urls == IF r.kind = "magnet"
                THEN [k \in DOMAIN SelectSeq(r.ref, LAMBDA p : p.key = "tr") |->
                        SelectSeq(r.ref, LAMBDA p : p.key = "tr")[k].url]
                ELSE RefTorrentUrls(r.ref)
    IN  RefDedup(SelectSeq(urls, LAMBDA u : ~RefBlank(u)))

-----------------------------------------------------------------------------
(* Inputs *)

RawBytes == {"d", "l", "i", "e", ":", "0", "1", "-", "x"}
RawLen == 5

Leaves == {IntV(n) : n \in {-10, -1, 0, 1, 10}}
          \cup {BytesV(b) : b \in {<<>>, <<"x">>, <<"e">>, <<"x", "x", "x">>}}

Short(S) == {v \in S : Len(Encode(v)) <= MaxInput + 2}

Level1 == Leaves \cup Short({ListV(s) : s \in SeqOf(Leaves, 3)})
                 \cup {DictV(<<>>)} \cup {DictV(<<<<<<"x">>, v>>>>) : v \in Leaves}
Level2 == Short({ListV(<<v>>) : v \in Level1} \cup {DictV(<<<<<<"x">>, v>>>>) : v \in Level1})
Level3 == Short({ListV(<<v>>) : v \in Level2})

InfoDicts == {DictV(<<>>)} \cup {DictV(<<<<<<"x">>, v>>>>) : v \in Leaves}
Decoy == DictV(<<<<<<"x">>, BytesV(Marker)>>, <<InfoKey, DictV(<<>>)>>>>)
Torrents == {DictV(<<<<InfoKey, d>>>>) : d \in InfoDicts} \cup (IF WithDecoy THEN {Decoy} ELSE {})

Trees == Level1 \cup Level2 \cup Level3 \cup Torrents

\* the marker and an info dictionary with no root around them, or cut off after its 'd'
BareInfos == {Marker \o Encode(d) : d \in InfoDicts} \cup {Marker \o <<"d">>}

NoReq == [kind |-> "none"]

\* magnets: up to two parameters, tr= values over a few URL bytes in every encoding
UrlChars == {"u", "%", "&", " ", "="}
TrParams == UNION {{[key |-> "tr", url |-> u, text |-> MD!TrKey \o <<"=">> \o e] : e \in Encodings(u)} :
                    u \in SeqOf(UrlChars, 2)}
XtParams == {[key |-> "xt", hash |-> h, text |-> MD!XtMarker \o h] :
                h \in {<<"A", "0">>, <<"f", "c">>, <<"0">>, <<"g", "0">>}}
OtherParams == {[key |-> "dn", text |-> <<"d", "n", "=", "u">>],
                [key |-> "tr", url |-> <<>>, text |-> MD!TrKey]}
MagnetReqs ==
    {[kind |-> "magnet", str |-> MagnetOf(ps), ref |-> ps] :
        ps \in SeqOf(TrParams \cup XtParams \cup OtherParams, 2)}
    \cup {[kind |-> "magnet", str |-> <<"m", "?", "t", "r", "=", "u">>, ref |-> <<>>]}

\* torrents: announce and announce-list with well- and ill-typed entries, with or without
\* a trailing byte after the root value
TItems == {BytesV(u) : u \in {<<"u">>, <<" ">>, <<"u", " ">>}} \cup {IntV(1)}
Tiers  == {ListV(s) : s \in SeqOf(TItems, 2)} \cup TItems
AnnounceEnts == {<<MD!AnnounceKey, x>> : x \in TItems}
ListEnts == {<<MD!AnnounceListKey, ListV(s)>> : s \in SeqOf(Tiers, 2)}
            \cup {<<MD!AnnounceListKey, BytesV(<<"u">>)>>}
TrackerTorrents ==
    {v \in {DictV(<<>>), ListV(<<BytesV(<<"u">>)>>)}
           \cup {DictV(<<e>>) : e \in AnnounceEnts \cup ListEnts}
           \cup {DictV(<<e, f>>) : e \in AnnounceEnts, f \in ListEnts} : Len(Encode(v)) <= 44}
TorrentReqs ==
    {[kind |-> "torrent", str |-> Encode(v) \o pad, ref |-> v] :
        v \in TrackerTorrents, pad \in {<<>>, <<"x">>}}

(***************************************************************************)
(* File names of an engine add answer, as integrate_added_torrent passes   *)
(* them to split_path_components: up to four characters, among them both   *)
(* separators, the dot, the space, an alphanumeric and an unsafe one.      *)
(* The caps are 2 characters per component and 1 component, so that names *)
(* this short reach both.                                                  *)
(***************************************************************************)
NameComponentCap == 2
NamePathDepthCap == 1

PS == INSTANCE PathSanitize WITH Alnum <- {"a", "f", "i", "l", "e"},
                                 ComponentCap <- NameComponentCap, PathDepthCap <- NamePathDepthCap

NameChars == {"a", ".", " ", "/", "\\", "*"}

FileReqs == {[kind |-> "file", name |-> n] : n \in BoundedSeq(NameChars, 4)}

Init ==
    /\ ScanInit
    /\ \/ /\ req = NoReq
          /\ \/ /\ tree \in Trees
                /\ input = Encode(tree)
             \/ /\ tree = NoTree
                /\ input \in SeqOf(RawBytes, RawLen) \cup BareInfos
       \/ /\ req \in MagnetReqs
          /\ tree = NoTree /\ input = <<>>
       \/ /\ req \in TorrentReqs
          /\ tree = NoTree /\ input = req.str
       \/ /\ req \in FileReqs
          /\ tree = NoTree /\ input = <<>>

\* h_add_torrent scans torrent bytes for the info-hash; a magnet is not scanned
Next == req.kind \notin {"magnet", "file"} /\ ScanNext /\ UNCHANGED <<tree, req>>

Spec == Init /\ [][Next]_vars

-----------------------------------------------------------------------------
(* Properties *)

(***************************************************************************)
(* Type invariant; the range the scanner hands to SHA-1 lies inside the    *)
(* input.                                                                  *)
(***************************************************************************)
TypeOK ==
    /\ req.kind \in {"none", "magnet", "torrent", "file"}
    /\ phase \in {"marker", "scan", "done", "panicked"}
    /\ pos \in 1 .. Len(input) + 1
    /\ depth \in Int /\ inString \in BOOLEAN
    /\ stringLen \in Nat /\ stringPos \in 0 .. stringLen
    /\ dictEnd # 0 => 1 <= dictStart /\ dictStart < dictEnd /\ dictEnd <= Len(input) + 1

(***************************************************************************)
(* parse_bencode decodes the canonical encoding of every value back to     *)
(* that value, consuming exactly its bytes, when the value is within every *)
(* limit (depth, input size, digit runs, string length, item count); and   *)
(* rejects it when any limit is exceeded.                                  *)
(***************************************************************************)
DecodeRoundTrip ==
    tree # NoTree =>
        LET r == Decode(input)
        IN  /\ r.ok = Accepted(tree)
            /\ r.ok => r.val = tree /\ r.next = Len(input) + 1

(***************************************************************************)
(* On any byte string, a successful parse_bencode returns a value within   *)
(* the depth, string-length and item-count limits, and stops exactly      *)
(* where the bencode grammar says the value ends.                          *)
(***************************************************************************)
DecodeSound ==
    LET r == Decode(input)
    IN  r.ok => Bounded(r.val, 0) /\ r.next = RefEnd(input, 1)

(***************************************************************************)
(* Spec 4.5: the info-hash is the hash of exactly the root dictionary's    *)
(* info value, the bytes an engine hashes.  When the scanner finishes on a *)
(* well-formed torrent, the range it hashes is that range.                 *)
(***************************************************************************)
ScanMatchesReference ==
    phase = "done" /\ RefInfo(input) # <<>> => ScanResult = RefInfo(input)

(***************************************************************************)
(* Spec 7: a decode failure while extracting the info-hash is swallowed,   *)
(* never fatal to the add request; the scanner never panics, whatever the  *)
(* bytes.                                                                  *)
(***************************************************************************)
ScanNeverPanics == phase # "panicked"

(***************************************************************************)
(* Spec 4.5 and 8: for a magnet link prepare_add_input accepts,            *)
(* extract_info_hash_from_magnet returns the hash of its xt=urn:btih:      *)
(* parameter in lower case when it is HashLen hex digits, and none         *)
(* otherwise, whatever tr= and dn= parameters come before or after it.     *)
(***************************************************************************)
MagnetHashMatches ==
    req.kind = "magnet" /\ MD!PrepareAddInput(req).kind # "err" =>
        MD!ExtractInfoHashFromMagnet(req.str) = RefHash(req.ref)

(***************************************************************************)
(* Spec 4.5: integrate_added_torrent gives the record every tracker URL   *)
(* of the request (each tr= parameter percent-decoded, or announce then    *)
(* the announce-list tiers of the torrent), blank ones left out, each      *)
(* once, in first-seen order.                                              *)
(***************************************************************************)
TrackersMatch ==
    req.kind \in {"magnet", "torrent"} /\ MD!PrepareAddInput(req).kind # "err" =>
        MD!IntegrateTrackers(req) = RefTrackers(req)


(***************************************************************************)
(* Spec 4.1 add: file paths are sanitized.  Whatever name the engine       *)
(* reports, split_path_components yields at least one and at most          *)
(* MAX_PATH_DEPTH components, and each is non-empty, within the length    *)
(* cap (unless it is the "file" placeholder), made of safe characters only *)
(* (no separator among them) and free                                      *)
(* of leading and trailing spaces.                                         *)
(***************************************************************************)
PathComponentsSafe ==
    req.kind = "file" =>
        LET parts == PS!SplitPathComponents(req.name)
        IN  /\ Len(parts) \in 1 .. NamePathDepthCap
            /\ \A k \in DOMAIN parts :
                 LET p == parts[k]
                 IN  /\ p # <<>>
                     /\ p # PS!FileComponent => Len(p) <= NameComponentCap
                     /\ \A j \in DOMAIN p : PS!SafeChar(p[j])
                     /\ p[1] # " " /\ p[Len(p)] # " "

(***************************************************************************)
(* Spec 4.1 add: "." and ".." segments are dropped from file paths.  The  *)
(* code drops them before sanitizing, and sanitizing can turn a segment   *)
(* such as " ." or ".*" into ".", so this is stated and not checked.      *)
(***************************************************************************)
NoDotSegments ==
    req.kind = "file" =>
        \A k \in DOMAIN PS!SplitPathComponents(req.name) :
            PS!NotDotSegment(PS!SplitPathComponents(req.name)[k])

=============================================================================
