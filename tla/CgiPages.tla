------------------------------ MODULE CgiPages ------------------------------
(***************************************************************************)
(* The calculator pages (GET and POST, synchronous and asynchronous) and   *)
(* the CGI programs behind them, test_cgi.c and post-cgi.c.  boa runs one  *)
(* CGI process per request, so answers come in any order, or not at all.   *)
(***************************************************************************)
EXTENDS Integers, Sequences

CONSTANTS
    Fields,     \* what is typed into a field, as it arrives: [kind, number]
    Nothing,
    Half,       \* half the range of an int                    (2^31)
    MaxClicks   \* bound: clicks

(* The kind of a field: "int", a whole number; "cut", a number of which    *)
(* "%d" takes the start only (1.5, 1e3, 0x10); "none", one of which it     *)
(* takes nothing (an empty field, .5, Infinity, and in a URL anything that *)
(* begins with a blank, "%20"): number is what it takes, or 0; "nan", what *)
(* isNaN() is true for.                                                    *)

VARIABLES
    page,       \* the page the browser shows
    asked,      \* questions sent, in order
    waiting,    \* numbers of the questions not answered yet
    failed,     \* a request was answered with something else than 200
    results     \* [of, text]: what the page shows, and whose answer it is

cgiVars == <<page, asked, waiting, failed, results>>

Pages == {"getAsyn", "getSyn", "postAsyn", "postSyn"}

NoResult == [of |-> 0, text |-> Nothing]

Init == page = Nothing /\ asked = <<>> /\ waiting = {} /\ failed = FALSE /\ results = NoResult

Open(p) == page = Nothing /\ page' = p /\ UNCHANGED <<asked, waiting, failed, results>>

-----------------------------------------------------------------------------
(* Slip: the third argument of open() is true on every page. *)
ReadyAsyn == page # Nothing

(* A synchronous send() holds the page until the answer is there.          *)
Ready == page \in {"getAsyn", "postAsyn"} \/ (page \in {"getSyn", "postSyn"} /\ waiting = {})

(* compute(): a field that is not a number sends nothing.                  *)
Compute(a, op, b) ==
    /\ Ready /\ Len(asked) < MaxClicks
    /\ a.kind # "nan" /\ b.kind # "nan"
    /\ asked' = Append(asked, [a |-> a, op |-> op, b |-> b])
    /\ waiting' = waiting \cup {Len(asked) + 1}
    /\ UNCHANGED <<page, failed, results>>

-----------------------------------------------------------------------------
Ints     == (-Half)..(Half - 1)
AsInt(v) == ((v + Half) % (2 * Half)) - Half

(* What "%d" stores; a number that is no int may become any.               *)
Stored(f) == IF f.number \in Ints THEN {f.number} ELSE Ints

Value(op, x, y) == IF op = "+" THEN x + y ELSE x - y

(* "%d%c%d" of the query.  Without a first number the sign belongs to the  *)
(* second, and there is no operator; behind a first number that is not     *)
(* read to its end stands no operator either.  Without a second one data2  *)
(* stays 0, and what is not read of it does not matter.                    *)
Cgi(q) ==
    IF q.a.kind = "int"
    THEN {AsInt(Value(q.op, x, y)) : x \in Stored(q.a), y \in Stored(q.b)}
    ELSE {Nothing}

(* The synchronous POST page puts the operator behind the program's name,  *)
(* which boa does not find.                                                *)
Answer(k) ==
    /\ k \in waiting /\ page # "postSyn"
    /\ waiting' = waiting \ {k}
    /\ \E text \in Cgi(asked[k]) : results' = [of |-> k, text |-> text]
    /\ UNCHANGED <<page, asked, failed>>

Fail(k) ==
    /\ k \in waiting
    /\ waiting' = waiting \ {k}
    /\ failed' = TRUE
    /\ UNCHANGED <<page, asked, results>>

Next ==
    \/ \E p \in Pages : Open(p)
    \/ \E a, b \in Fields, op \in {"+", "-"} : Compute(a, op, b)
    \/ \E k \in waiting : Answer(k) \/ Fail(k)

-----------------------------------------------------------------------------
(* Properties.                                                             *)

(* What a page shows is the answer to a question that was asked: of two    *)
(* ints the right one, as an int has it, of other numbers what the first   *)
(* digits of the second make of it ("3+1.5" shows 4, test_cgi.c:21), and   *)
(* never a number when the first is not a whole one.  On the synchronous   *)
(* GET page it is the last question, unless a request failed.  (The        *)
(* asynchronous ones may show an older answer over a newer,                *)
(* ajax-asyn.js:6.)                                                        *)
ResultRight ==
    results.of # 0 =>
        LET q == asked[results.of]
        IN  /\ results.text # Nothing => q.a.kind = "int"
            /\ q.a.kind = "int" /\ q.a.number \in Ints /\ q.b.number \in Ints =>
                 \E turns \in -1..1 :
                     results.text = Value(q.op, q.a.number, q.b.number) + turns * 2 * Half
            /\ page = "getSyn" /\ waiting = {} /\ ~failed => results.of = Len(asked)
            /\ page # "postSyn"
=============================================================================
