----------------------------- MODULE PubHelpers -----------------------------
(***************************************************************************)
(* pub.c: strencode() makes the link of a directory entry (no server here  *)
(* calls it); a request brings it back, strdecode() decodes it and the     *)
(* suffix gives the page its type (event_wb.c); get_line() takes lines     *)
(* from a blocking socket.  Characters are their codes.                    *)
(***************************************************************************)
EXTENDS Integers, Sequences, FiniteSetsExt

CONSTANTS
    Names,      \* directory entries
    Safe,       \* letters, digits, and those of "/_.-~"
    Types,      \* get_mime_type(): suffix to type
    Plain,      \* ... and the type of all others
    ToSize,     \* tosize of strencode()
    Size,       \* size of get_line()
    Stream      \* what the peer of get_line() sends

VARIABLES
    name, link, opened, type,   \* the entry, its link, what was opened
    arrived, gone,  \* of the Stream; the peer has closed
    used,       \* what get_line() has taken of it
    at,         \* get_line(): char, peek (after '\r'), or done
    line,       \* buf
    lineStart   \* where this line began

pubVars == <<name, link, opened, type, arrived, gone, used, at, line, lineStart>>

CR == 13
LF == 10

Init ==
    /\ name = <<>> /\ link = <<>> /\ opened = <<>> /\ type = Plain
    /\ arrived = 0 /\ gone = FALSE /\ used = 0 /\ at = "done" /\ line = <<>> /\ lineStart = 0

-----------------------------------------------------------------------------
HexDigit(d) == IF d < 10 THEN 48 + d ELSE 87 + d

IsXDigit(ch) == ch \in (48..57) \cup (65..70) \cup (97..102)

Hexit(ch) == CASE ch \in 48..57 -> ch - 48 [] ch \in 97..102 -> ch - 87 [] ch \in 65..70 -> ch - 55 [] OTHER -> 0

Escape(ch) == IF ch \in Safe THEN <<ch>> ELSE <<37, HexDigit(ch \div 16), HexDigit(ch % 16)>>

(* Slip: room for one character, not for an escape and the '\0'. *)
StrencodeTight(n) ==
    LET to[k \in 0..Len(n)] ==
          IF k = 0 THEN <<>> ELSE IF Len(to[k - 1]) + 1 < ToSize THEN to[k - 1] \o Escape(n[k]) ELSE to[k - 1]
    IN  to[Len(n)]

(* As long as there is room for an escape and the '\0'.                    *)
Strencode(n) ==
    LET to[k \in 0..Len(n)] ==
          IF k = 0 THEN <<>> ELSE IF Len(to[k - 1]) + 4 < ToSize THEN to[k - 1] \o Escape(n[k]) ELSE to[k - 1]
    IN  to[Len(n)]

Strdecode(s) ==
    LET from[k \in 1..(Len(s) + 1)] ==
          IF k > Len(s) THEN <<>>
          ELSE IF s[k] = 37 /\ k + 2 <= Len(s) /\ IsXDigit(s[k + 1]) /\ IsXDigit(s[k + 2])
               THEN <<Hexit(s[k + 1]) * 16 + Hexit(s[k + 2])>> \o from[k + 3]
               ELSE <<s[k]>> \o from[k + 1]
    IN  from[1]

(* By what stands behind the last dot.                                     *)
MimeType(n) ==
    LET dots == {k \in DOMAIN n : n[k] = 46}
        suffix == SubSeq(n, Max(dots), Len(n))
    IN  IF dots # {} /\ suffix \in DOMAIN Types THEN Types[suffix] ELSE Plain

List(n) ==
    /\ name' = n /\ link' = Strencode(n) /\ opened' = <<>> /\ type' = Plain
    /\ UNCHANGED <<arrived, gone, used, at, line, lineStart>>

Follow ==
    /\ opened' = Strdecode(link) /\ type' = MimeType(opened')
    /\ UNCHANGED <<name, link, arrived, gone, used, at, line, lineStart>>

-----------------------------------------------------------------------------
Arrive ==
    /\ ~gone
    /\ \/ arrived < Len(Stream) /\ arrived' = arrived + 1 /\ UNCHANGED gone
       \/ gone' = TRUE /\ UNCHANGED arrived
    /\ UNCHANGED <<name, link, opened, type, used, at, line, lineStart>>

More == used < arrived
Peek == Stream[used + 1]

GetLine ==
    /\ at = "done" /\ (gone => More)
    /\ at' = "char" /\ line' = <<>> /\ lineStart' = used
    /\ UNCHANGED <<name, link, opened, type, arrived, gone, used>>

(* Done at '\n' or when size - 1 characters are there.                     *)
Store(ch) ==
    /\ line' = Append(line, ch)
    /\ at' = IF ch = LF \/ Len(line') = Size - 1 THEN "done" ELSE "char"

RecvChar ==
    /\ at = "char" /\ More
    /\ used' = used + 1
    /\ IF Peek = CR THEN at' = "peek" /\ UNCHANGED line ELSE Store(Peek)
    /\ UNCHANGED <<name, link, opened, type, arrived, gone, lineStart>>

RecvEnd ==
    /\ at = "char" /\ ~More /\ gone
    /\ at' = "done"
    /\ UNCHANGED <<name, link, opened, type, arrived, gone, used, line, lineStart>>

(* A '\n' behind the '\r' is taken with it; the '\r' alone counts as one.  *)
PeekCr ==
    /\ at = "peek" /\ (More \/ gone)
    /\ used' = IF More /\ Peek = LF THEN used + 1 ELSE used
    /\ Store(LF)
    /\ UNCHANGED <<name, link, opened, type, arrived, gone, lineStart>>

Next ==
    \/ \E n \in Names : List(n)
    \/ Follow \/ Arrive \/ GetLine \/ RecvChar \/ RecvEnd \/ PeekCr

-----------------------------------------------------------------------------
(* Properties.                                                             *)

(* The link of an entry leads back to it, '%' in its name included; one    *)
(* that does not fit is cut between characters, never inside an escape or  *)
(* past the buffer (pub.c:109-121, 138-154).                               *)
LinkLeadsBack ==
    /\ Len(link) < ToSize
    /\ opened # <<>> => opened = SubSeq(name, 1, Len(opened)) /\ (opened = name => type = MimeType(name))
    /\ 3 * Len(name) + 1 < ToSize => Strdecode(link) = name

(* However the stream is cut into segments, a line is the next part of it, *)
(* up to the first line end whichever of the three it is, and takes        *)
(* nothing of the next line (pub.c:68-98).                                 *)
LineWhole ==
    LET part == SubSeq(Stream, lineStart + 1, used)
        ends == {k \in DOMAIN part : part[k] \in {CR, LF}}
        body == IF ends = {} THEN part ELSE SubSeq(part, 1, Min(ends) - 1)
    IN  at = "done" =>
          /\ line = body \o (IF ends = {} THEN <<>> ELSE <<LF>>)
          /\ ends # {} => SubSeq(part, Min(ends), Len(part)) \in {<<CR>>, <<LF>>, <<CR, LF>>}
          /\ Len(line) < Size
=============================================================================
