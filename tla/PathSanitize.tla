---------------------------- MODULE PathSanitize ----------------------------
(***************************************************************************)
(* split_path_components and sanitize_path_component, which turn a file    *)
(* name of the engine's add answer into the path components of a          *)
(* TorrentFileEntry (integrate_added_torrent).  A name is a sequence of    *)
(* characters; a component is a sequence of characters.                    *)
(*                                                                         *)
(* Characters are one-character strings.  Alnum stands for the characters *)
(* is_alphanumeric accepts; the punctuation the code lists is spelled out. *)
(* Among the safe characters only the space is white space, so str::trim  *)
(* strips spaces.  MAX_PATH_DEPTH and the 255-character cap are constants  *)
(* so that a check can reach them with short names.                        *)
(***************************************************************************)
EXTENDS Naturals, Sequences, SequencesExt

CONSTANTS
    Alnum,          \* characters for which char::is_alphanumeric holds
    ComponentCap,   \* the .take(255) of sanitize_path_component
    PathDepthCap    \* MAX_PATH_DEPTH

ASSUME ComponentCap \in Nat \ {0} /\ PathDepthCap \in Nat \ {0}

\* the split predicate: c == '/' || c == '\\'
Separators == {"/", "\\"}

\* the matches! list of sanitize_path_component
Punctuation == {" ", ".", "-", "_", "(", ")", "[", "]", "&", "#", "@", "!", "%", "+", "="}

SafeChar(c) == c \in Alnum \cup Punctuation

\* the placeholder of a name with no usable component
FileComponent == <<"f", "i", "l", "e">>

\* str::split on the separators: the segments between them, empty ones included
SplitSegments(name) ==
    FoldLeft(LAMBDA segs, c : IF c \in Separators THEN Append(segs, <<>>)
                              ELSE [segs EXCEPT ![Len(segs)] = Append(@, c)],
             <<<<>>>>, name)

\* .take(n) of an iterator
Take(s, n) == SubSeq(s, 1, IF n < Len(s) THEN n ELSE Len(s))

NotSpace(c) == c # " "

\* str::trim
Trim(s) ==
    IF \A i \in DOMAIN s : s[i] = " " THEN <<>>
    ELSE SubSeq(s, SelectInSeq(s, NotSpace), SelectLastInSeq(s, NotSpace))

\* Seeded fault: the component trimmed before it is capped.
SanitizeTrimFirst(comp) == Take(Trim(SelectSeq(comp, SafeChar)), ComponentCap)

\* sanitize_path_component: keep the safe characters, take 255, trim
Sanitize(comp) == Trim(Take(SelectSeq(comp, SafeChar), ComponentCap))

NonEmpty(s) == s # <<>>

NotDotSegment(s) == s \notin {<<".">>, <<".", ".">>}

\* split_path_components: the chain of split, filters, map and take
SplitPathComponents(name) ==
    LET kept  == SelectSeq(SelectSeq(SplitSegments(name), NonEmpty), NotDotSegment)
        clean == SelectSeq([k \in DOMAIN kept |-> Sanitize(kept[k])], NonEmpty)
        parts == Take(clean, PathDepthCap)
    IN  IF parts = <<>> THEN <<FileComponent>> ELSE parts

====
