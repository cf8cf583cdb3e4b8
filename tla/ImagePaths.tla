----------------------------- MODULE ImagePaths -----------------------------
(***************************************************************************)
(* What becomes of a file name on its way to a path in the image           *)
(* directory: buildStoredImagePath of home.go makes a path of it, and      *)
(* cleanImagePath of database/images.go decides whether a path is taken    *)
(* and which.  A character stands for all those the functions treat alike. *)
(* The machine at the end types the name, so that a run tries every name   *)
(* of up to MaxName characters, and every path of up to MaxPath.           *)
(***************************************************************************)
EXTENDS Integers, Sequences, FiniteSets, SequencesExt

CONSTANTS MaxName, MaxPath

VARIABLE filename

PathChars == {"a", ".", "/", "\\"}
Chars == PathChars \cup {"A", "7", "-", " "}

Invalid == <<>>          \* "", beside ErrInvalidImagePath
Image == <<"a">>         \* "image", as any word
Stamp == <<"7">>         \* UnixNano, as any number
Uploads == <<"a">>       \* "uploads"

-----------------------------------------------------------------------------
\* From packages strings, filepath and path.
ToLower(s) == ReplaceAll(s, "A", "a")

LastIndex(s, c) == SelectLastInSeq(s, LAMBDA x : x = c)

Trim(s, c) ==
    LET first == SelectInSeq(s, LAMBDA x : x # c)
    IN  IF first = 0 THEN <<>> ELSE SubSeq(s, first, SelectLastInSeq(s, LAMBDA x : x # c))
TrimSpace(s) == Trim(s, " ")

TrimSuffix(s, suffix) == IF IsSuffix(suffix, s) THEN SubSeq(s, 1, Len(s) - Len(suffix)) ELSE s

Base(s) ==
    LET t == SubSeq(s, 1, SelectLastInSeq(s, LAMBDA x : x # "/"))
    IN  IF s = <<>> THEN <<".">>
        ELSE IF t = <<>> THEN <<"/">>
        ELSE SubSeq(t, LastIndex(t, "/") + 1, Len(t))

\* The base of a name has no slash but in front of the dot.
Ext(s) == IF LastIndex(s, ".") = 0 THEN <<>> ELSE SubSeq(s, LastIndex(s, "."), Len(s))

SplitStep(parts, x) ==
    IF x = "/" THEN Append(parts, <<>>) ELSE Append(Front(parts), Append(Last(parts), x))
Split(s) == FoldLeft(SplitStep, << <<>> >>, s)

Up == <<".", ".">>
Skipped == {<<>>, <<".">>}
CleanStep(out, part) ==
    CASE part \in Skipped -> out
      [] part = Up /\ out # <<>> /\ Last(out) # Up -> Front(out)
      [] OTHER -> Append(out, part)
Clean(s) == FoldLeft(CleanStep, <<>>, Split(s))

-----------------------------------------------------------------------------
\* Mutant: the flag stays up, so a name has one dash at most.
SlugOneDash(input) ==
    LET add(out, x) == IF x \in {"a", "7"} THEN Append(out, x)
                       ELSE IF "-" \in Range(out) THEN out ELSE Append(out, "-")
    IN  Trim(FoldLeft(add, <<>>, ToLower(TrimSpace(input))), "-")

\* lastDash says that the last of what was written is a dash.
SlugStep(out, x) ==
    IF x \in {"a", "7"} THEN Append(out, x)
    ELSE IF out # <<>> /\ Last(out) = "-" THEN out ELSE Append(out, "-")
slugFilename(input) == Trim(FoldLeft(SlugStep, <<>>, ToLower(TrimSpace(input))), "-")

BaseName(name) == LET base == Base(TrimSpace(name)) IN IF base = <<".">> THEN Image ELSE base

\* Mutant: the extension's characters are trimmed, not the extension.
SlugTrimRight(name) ==
    LET base == BaseName(name)
        ext == Range(ToLower(Ext(base)))
        slug == slugFilename(SubSeq(base, 1, SelectLastInSeq(base, LAMBDA x : x \notin ext)))
    IN  IF slug = <<>> THEN Image ELSE slug

Slug(name) ==
    LET base == BaseName(name)
        slug == slugFilename(TrimSuffix(base, ToLower(Ext(base))))
    IN  IF slug = <<>> THEN Image ELSE slug

StoredExt(name) ==
    LET ext == ToLower(Ext(BaseName(name))) IN IF ext = <<>> THEN <<".">> \o Image ELSE ext

\* Mutant: the name is kept as it was given.
StoredPathUnslugged(name) ==
    Uploads \o <<"/">> \o Stamp \o <<"-">> \o TrimSuffix(BaseName(name), Ext(BaseName(name))) \o StoredExt(name)

buildStoredImagePath(name) ==
    Uploads \o <<"/">> \o Stamp \o <<"-">> \o Slug(name) \o StoredExt(name)

-----------------------------------------------------------------------------
\* Mutant: backslashes become slashes after the path was cleaned.
CleanBeforeReplace(imagePath) ==
    LET trimmed == TrimSpace(imagePath)
        cleaned == Clean(trimmed)
    IN  IF trimmed = <<>> \/ Head(trimmed) \in {"/", "\\"} \/ cleaned = <<>> \/ Head(cleaned) = Up
        THEN Invalid
        ELSE FoldLeft(LAMBDA out, part : out \o Split(ReplaceAll(part, "\\", "/")), <<>>, cleaned)

\* The parts of the path below the image directory, or Invalid.
cleanImagePath(imagePath) ==
    LET normalized == ReplaceAll(TrimSpace(imagePath), "\\", "/")
        cleaned == Clean(normalized)
    IN  IF normalized = <<>> \/ Head(normalized) = "/" \/ cleaned = <<>> \/ Head(cleaned) = Up
        THEN Invalid ELSE cleaned

isPathWithinRoot(parts) == Head(parts) # Up

-----------------------------------------------------------------------------
NameInit == filename = <<>>
NameStep ==
    \E c \in Chars :
        /\ \/ Len(filename) < MaxName
           \/ Len(filename) < MaxPath /\ Range(Append(filename, c)) \subseteq PathChars
        /\ filename' = Append(filename, c)

-----------------------------------------------------------------------------
\* How deep the first i parts of a path lead.
Depth(parts, i) ==
    Cardinality({j \in 1..i : parts[j] \notin Skipped \cup {Up}})
        - Cardinality({j \in 1..i : parts[j] = Up})

\* A path is taken exactly if walking it from the image directory, ".." up and
\* names down, never leaves it and ends below it; what is taken has no ".." any
\* more, so the second check of resolveImagePath never refuses.
AcceptsExactlyInside ==
    LET path == ReplaceAll(TrimSpace(filename), "\\", "/")
        parts == Split(path)
        taken == cleanImagePath(filename)
    IN  /\ taken # Invalid <=>
               /\ path # <<>> /\ Head(path) # "/"
               /\ \A i \in DOMAIN parts : Depth(parts, i) >= 0
               /\ Depth(parts, Len(parts)) >= 1
        /\ taken # Invalid =>
               /\ Len(taken) = Depth(parts, Len(parts))
               /\ Up \notin Range(taken) /\ isPathWithinRoot(taken)

\* Whatever a file is called, the path made of its name is taken, and stays
\* below uploads in a file or directory of its own time.
StoredPathTaken ==
    LET taken == cleanImagePath(buildStoredImagePath(filename))
    IN  /\ taken # Invalid /\ Len(taken) >= 2
        /\ taken[1] = Uploads /\ IsPrefix(Stamp \o <<"-">>, taken[2])

\* The runs of letters and digits of s, in lower case, with one dash between two.
WordsOf(s) ==
    LET low == ToLower(s)
        wordy == {i \in DOMAIN low : low[i] \in {"a", "7"}}
        char(i) == IF i \notin wordy THEN <<>>
                   ELSE IF i - 1 \in wordy \/ \A j \in wordy : j >= i THEN <<low[i]>>
                   ELSE <<"-", low[i]>>
    IN  FlattenSeq([i \in DOMAIN low |-> char(i)])

\* A name without slashes is stored under its words before the extension and
\* under its extension; words of the extension join the former only if it has
\* a capital, when TrimSuffix does not find it.
NameAndExtensionKept ==
    Range(filename) \cap {"/", "\\"} = {} =>
        LET ext == Ext(BaseName(filename))
            stem == WordsOf(TrimSuffix(BaseName(filename), ext))
            file == cleanImagePath(buildStoredImagePath(filename))[2]
        IN  /\ IsPrefix(Stamp \o <<"-">> \o stem, file)
            /\ IsSuffix(ToLower(ext), file)
            /\ "A" \notin Range(ext) /\ stem # <<>> /\ ext # <<>> =>
                   file = Stamp \o <<"-">> \o stem \o ext
=============================================================================
