------------------------------ MODULE Library -------------------------------
(***************************************************************************)
(* The two parts of WFPController that are a library to its commands: the  *)
(* class Socket and the string functions.  They share no state; `using'    *)
(* says which of them a behaviour is about.                                *)
(***************************************************************************)
EXTENDS Socket, Sequences

CONSTANTS
    Chars, MaxLength, MaxDelimiter, MaxResults    \* of Strings

VARIABLES
    using,
    source, delimiter, to,                        \* of Strings
    tokenise, intermediateString, results,
    replace, lastPos, newString

Strings == INSTANCE Strings

strings == <<source, delimiter, to, tokenise, intermediateString, results,
             replace, lastPos, newString>>
library == <<using, vars, strings>>

\* The arguments of the string functions do not matter to the sockets.
InitAll ==
    /\ using \in {"Socket", "Strings"}
    /\ Init /\ Strings!Init
    /\ using = "Socket" => source = <<>> /\ delimiter = <<>> /\ to = <<>>
    /\ using = "Strings" => object = CHOOSE o \in Objects : TRUE

UsingSocket(A) == using = "Socket" /\ A /\ UNCHANGED <<using, strings>>
UsingStrings(A) == using = "Strings" /\ A /\ UNCHANGED <<using, vars>>

NextAll == UsingSocket(Next) \/ UsingStrings(Strings!Next)

SpecAll == InitAll /\ [][NextAll]_library

\* A method or function that has been called goes on, and WinSock's functions
\* return.
FairSpecAll ==
    /\ SpecAll
    /\ WF_library(UsingSocket(ConnectStep))
    /\ WF_library(UsingStrings(Strings!TokeniseString))
    /\ WF_library(UsingStrings(Strings!Replace))

-----------------------------------------------------------------------------
(* Properties; those of Socket are stated there.                           *)

\* No character is lost, and the tokens end at the leftmost delimiters, at every
\* iteration.
TokensOfSource == Strings!TokensOfSource

\* Replace and Erase agree with TokeniseString about what there is to replace.
ReplaceAgrees == Strings!ReplaceAgrees

\* Connect comes to an end, by a connection, an exception or the end of the list
\* of addresses, and so do the loops of the string functions, unless the
\* delimiter is empty.
LoopsEnd == (~Idle ~> Idle) /\ Strings!EndsUnlessEmpty
=============================================================================
