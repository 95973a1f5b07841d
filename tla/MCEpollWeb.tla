----------------------------- MODULE MCEpollWeb -----------------------------
(* Small instances of EpollWeb.                                            *)
EXTENDS EpollWeb, TLC

CONSTANTS c1, c2

(* Requests of the safety run: a file that does not fit the send buffer, a *)
(* page that does, a file that cannot be opened, and one of a method the   *)
(* server ignores, with an empty line after it.                            *)
MixedRequests ==
    { <<"GET", "file", "nl", "junk">>, <<"GET", "gone", "nl">>, <<"GET", "locked", "nl">>,
      <<"POST", "file", "nl", "nl">> }

(* Requests of the liveness run: every kind of page, and an empty line.    *)
PageRequests == { <<"GET", "dir", "nl">>, <<"GET", "lockeddir">>,
                  <<"GET", "file">>, <<"GET", "gone", "nl">>, <<"nl">>, <<"POST", "file", "nl">> }

(* Requests of the drain run: the file, and a method the server ignores.   *)
FileRequests == { <<"GET", "file", "nl", "junk">>, <<"POST", "file", "nl", "nl">> }

Sym == Permutations({c1, c2})
=============================================================================
