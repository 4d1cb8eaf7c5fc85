------------------------------ MODULE Strings -------------------------------
(***************************************************************************)
(* TokeniseString, Replace and Erase of WFPController, one iteration of    *)
(* their loops at a time, on every source and delimiter up to a length.    *)
(* Both loops look for the delimiter and go on behind it.  TokeniseString  *)
(* cuts the string down as it goes and looks ahead for its last token;     *)
(* Replace keeps the string and moves a position.  An empty delimiter is   *)
(* found wherever it is looked for.                                        *)
(***************************************************************************)
EXTENDS Integers, Sequences, SequencesExt

CONSTANTS
    Chars,        \* the characters
    MaxLength,    \* bound on the length of the source, for TLC
    MaxDelimiter, \* bound on the length of the delimiter and its replacement
    MaxResults    \* bound on the iterations of a loop, for TLC

VARIABLES
    source,       \* stringToTokenise, or source
    delimiter,    \* delimiter, or from
    to,           \* what Replace puts in its place
    tokenise,     \* is TokeniseString in its loop, or has it returned?
    intermediateString,
    results,
    replace,      \* is Replace in its loop, or has it returned?
    lastPos,
    newString

arguments == <<source, delimiter, to>>
tokens == <<tokenise, intermediateString, results>>
replaced == <<replace, lastPos, newString>>
vars == <<arguments, tokens, replaced>>

npos == -1

\* std::wstring::find, with positions from 0.
find(s, d, from) ==
    LET found == {p \in from..(Len(s) - Len(d)) : SubSeq(s, p + 1, p + Len(d)) = d}
    IN IF found = {} THEN npos ELSE CHOOSE p \in found : \A q \in found : p <= q

\* std::wstring::substr(pos).
substr(s, pos) == SubSeq(s, pos + 1, Len(s))

Init ==
    /\ source \in BoundedSeq(Chars, MaxLength)
    /\ delimiter \in BoundedSeq(Chars, MaxDelimiter)
    /\ to \in BoundedSeq(Chars, MaxDelimiter)
    /\ tokenise = "Loop" /\ intermediateString = source /\ results = <<>>
    /\ replace = "Loop" /\ lastPos = 0 /\ newString = <<>>

-----------------------------------------------------------------------------
(* TokeniseString.                                                         *)

\* The delimiter is nowhere: the whole string is the one token.
WholeString ==
    /\ tokenise = "Loop" /\ results = <<>>
    /\ find(source, delimiter, 0) = npos
    /\ results' = <<source>>
    /\ tokenise' = "Returned"
    /\ UNCHANGED <<arguments, intermediateString, replaced>>

\* Mutant: the position is not moved past the delimiter.
SplitBeforeDelimiter ==
    LET position == find(intermediateString, delimiter, 0)
        split == SubSeq(intermediateString, 1, position)
        rest == substr(intermediateString, position)
    IN /\ tokenise = "Loop" /\ position # npos /\ Len(results) < MaxResults
       /\ results' = Append(results, split)
       /\ intermediateString' = rest
       /\ UNCHANGED <<arguments, tokenise, replaced>>

\* Mutant: rfind for find.
SplitAtLast ==
    LET found == {p \in 0..Len(intermediateString) :
                     find(intermediateString, delimiter, p) = p}
        position == CHOOSE p \in found : \A q \in found : q <= p
        split == SubSeq(intermediateString, 1, position)
        rest == substr(intermediateString, position + Len(delimiter))
        last == find(rest, delimiter, 0) = npos
    IN /\ tokenise = "Loop" /\ found # {} /\ Len(results) < MaxResults
       /\ results' = results \o (IF last THEN <<split, rest>> ELSE <<split>>)
       /\ intermediateString' = rest
       /\ tokenise' = IF last THEN "Returned" ELSE "Loop"
       /\ UNCHANGED <<arguments, replaced>>

\* One iteration; the last one enters the remainder too.
Split ==
    LET position == find(intermediateString, delimiter, 0)
        split == SubSeq(intermediateString, 1, position)
        rest == substr(intermediateString, position + Len(delimiter))
        last == find(rest, delimiter, 0) = npos
    IN /\ tokenise = "Loop" /\ position # npos /\ Len(results) < MaxResults
       /\ results' = results \o (IF last THEN <<split, rest>> ELSE <<split>>)
       /\ intermediateString' = rest
       /\ tokenise' = IF last THEN "Returned" ELSE "Loop"
       /\ UNCHANGED <<arguments, replaced>>

-----------------------------------------------------------------------------
(* Replace and Erase.                                                      *)

\* Mutant: the replacement is empty when nothing stands before it.
ReplaceNotFirst ==
    LET findPos == find(source, delimiter, lastPos)
    IN /\ replace = "Loop" /\ findPos # npos
       /\ newString' = newString \o SubSeq(source, lastPos + 1, findPos)
                                 \o (IF findPos = 0 THEN <<>> ELSE to)
       /\ lastPos' = findPos + Len(delimiter)
       /\ UNCHANGED <<arguments, replace, tokens>>

\* One iteration.
ReplaceNext ==
    LET findPos == find(source, delimiter, lastPos)
    IN /\ replace = "Loop" /\ findPos # npos
       /\ Len(newString) < MaxResults
       /\ newString' = newString \o SubSeq(source, lastPos + 1, findPos) \o to
       /\ lastPos' = findPos + Len(delimiter)
       /\ UNCHANGED <<arguments, replace, tokens>>

\* What is behind the last one.
ReplaceEnd ==
    /\ replace = "Loop" /\ find(source, delimiter, lastPos) = npos
    /\ newString' = newString \o substr(source, lastPos)
    /\ replace' = "Returned"
    /\ UNCHANGED <<arguments, lastPos, tokens>>

\* The erase-remove idiom: what stays is moved forward, one character after the
\* other.
Erase(s, what) ==
    LET kept[n \in 0..Len(s)] ==
            IF n = 0 THEN <<>>
            ELSE IF s[n] = what THEN kept[n - 1] ELSE Append(kept[n - 1], s[n])
    IN kept[Len(s)]

-----------------------------------------------------------------------------
(* The specification.                                                      *)

TokeniseString == WholeString \/ Split
Replace == ReplaceNext \/ ReplaceEnd

Next == TokeniseString \/ Replace

Spec == Init /\ [][Next]_vars

-----------------------------------------------------------------------------
(* Properties.                                                             *)

\* What is between the tokens, put back.
Join(strings, between) ==
    LET joined[n \in 0..Len(strings)] ==
            IF n = 0 THEN <<>>
            ELSE IF n = 1 THEN strings[1] ELSE joined[n - 1] \o between \o strings[n]
    IN joined[Len(strings)]

TypeOK ==
    /\ \A s \in {source, delimiter, to, intermediateString, newString} : s \in Seq(Chars)
    /\ results \in Seq(Seq(Chars))
    /\ tokenise \in {"Loop", "Returned"} /\ replace \in {"Loop", "Returned"}
    /\ lastPos \in 0..Len(source)

\* No character is lost: the tokens and the rest, with the delimiter between
\* them, are the source at every iteration, an empty first or last token
\* included.
TokensJoin ==
    Join(IF tokenise = "Loop" THEN Append(results, intermediateString) ELSE results,
         delimiter) = source

\* The tokens end at the leftmost delimiters: none has one inside, nor one that
\* begins in it and ends in the delimiter behind it.
TokensLeftmost ==
    \A i \in 1..Len(results) :
        i < Len(results) \/ tokenise = "Loop" =>
            find(results[i] \o delimiter, delimiter, 0) = Len(results[i])

\* Replace, which never cuts its string, finds the delimiters TokeniseString
\* does: its result is the tokens with the replacement between them.
ReplacesBetweenTokens ==
    tokenise = "Returned" /\ replace = "Returned" => newString = Join(results, to)

\* To erase a character is to replace it by nothing.
ErasesLikeReplace ==
    replace = "Returned" /\ Len(delimiter) = 1 /\ to = <<>> =>
        newString = Erase(source, delimiter[1])

\* The tokens are the maximal pieces of the source between its delimiters.
TokensOfSource == TokensJoin /\ TokensLeftmost

\* Replace and Erase, which are written without TokeniseString, agree with it.
ReplaceAgrees == ReplacesBetweenTokens /\ ErasesLikeReplace

\* Every delimiter but the empty one lets both functions return; that one is
\* found in front of everything that is left, for ever.
EndsUnlessEmpty ==
    /\ delimiter # <<>> => <>(tokenise = "Returned" /\ replace = "Returned")
    /\ delimiter = <<>> =>
          [](/\ tokenise = "Loop" /\ intermediateString = source
             /\ replace = "Loop" /\ lastPos = 0)

-----------------------------------------------------------------------------
(* The inductive invariant of the proofs.                                  *)

\* The positions the source is cut at: its begin, and behind each delimiter that
\* is found from the one before.
Cuts(c) ==
    /\ c \in Seq(0..Len(source)) /\ c # <<>> /\ c[1] = 0
    /\ \A i \in 1..(Len(c) - 1) :
          /\ find(source, delimiter, c[i]) # npos
          /\ c[i + 1] = find(source, delimiter, c[i]) + Len(delimiter)

\* What is between these delimiters, and what is behind the last one.
Pieces(c) == [i \in 1..(Len(c) - 1) |->
                 SubSeq(source, c[i] + 1, find(source, delimiter, c[i]))]
Behind(c) == substr(source, c[Len(c)])

\* There is no other delimiter.
AllCut(c) == find(source, delimiter, c[Len(c)]) = npos

\* TokeniseString cuts there ...
TokenisePhases ==
    \E c : /\ Cuts(c)
          /\ IF tokenise = "Loop"
             THEN results = Pieces(c) /\ intermediateString = Behind(c)
             ELSE results = Append(Pieces(c), Behind(c)) /\ AllCut(c)

\* ... and so does Replace; to erase is not to copy.
ReplacePhases ==
    \E c : /\ Cuts(c)
          /\ IF replace = "Loop"
             THEN /\ newString = Join(Append(Pieces(c), <<>>), to)
                  /\ lastPos = c[Len(c)]
             ELSE newString = Join(Append(Pieces(c), Behind(c)), to) /\ AllCut(c)

ErasePhases ==
    Len(delimiter) = 1 /\ to = <<>> =>
        newString = Erase(IF replace = "Loop" THEN SubSeq(source, 1, lastPos) ELSE source,
                          delimiter[1])

IInv == TypeOK /\ TokensJoin /\ TokenisePhases /\ ReplacePhases /\ ErasePhases
=============================================================================
