----------------------- MODULE LineBasedFrameDecoder -----------------------
(***************************************************************************)
(* blueth/codec/LineBasedFrameDecoder.hpp, over texts whose symbols are    *)
(* one character each.  A frame is the position of its first character and *)
(* its length; the length -1 stands for the largest size_t.                *)
(***************************************************************************)
EXTENDS Integers, Sequences

TerminatorType == {"CarriageReturnNewLine", "NewLineNewLine"}

\* find_char_128_sse4_2(): the place of the first c from begin on, or the end.
find_char(text, begin, c) ==
    LET places == {i \in begin .. Len(text) : text[i] = c}
    IN  IF places = {} THEN Len(text) + 1 ELSE CHOOSE i \in places : \A j \in places : i <= j

Frame(begin, at) == [begin |-> begin, length |-> at - begin - 1]

\* Mutant: one character is skipped.
SkipsOne(frame) == frame.begin + frame.length + 2

\* Where the search goes on: two characters are skipped.
Resume(frame) == frame.begin + frame.length + 3

\* Does the terminator at a place end a frame?  In a text with CR LF the
\* character behind the CR counts, at the end of the text that is the one
\* beyond it.  In the other texts every LF does, unless there is a CR before
\* it, at the beginning of the text that is the character ahead of it.
Terminates(text, type, at, ahead, beyond) ==
    IF type = "CarriageReturnNewLine"
    THEN (IF at < Len(text) THEN text[at + 1] ELSE beyond) = "LF"
    ELSE (IF at > 1 THEN text[at - 1] ELSE ahead) # "CR"

\* The frames that are found from a place on.
Decode(text, from, type, ahead, beyond) ==
    LET c == IF type = "CarriageReturnNewLine" THEN "CR" ELSE "LF"
        frames[begin \in 1 .. Len(text) + 2] ==
            LET at    == find_char(text, begin, c)
                frame == Frame(begin, at)
            IN  IF at > Len(text) THEN <<>>
                ELSE IF ~ Terminates(text, type, at, ahead, beyond) THEN <<>>
                ELSE <<frame>> \o frames[Resume(frame)]
    IN  frames[from]
=============================================================================
